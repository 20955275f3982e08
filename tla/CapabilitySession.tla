-------------------------- MODULE CapabilitySession --------------------------
(***************************************************************************)
(* One client's capability sessions, from the screen that asks for one to  *)
(* the node that serves it.                                                *)
(*                                                                         *)
(* The screen's controller and the map of sessions live in the client's UI *)
(* isolate; the link to the host lives in the background isolate, and a    *)
(* port that keeps order joins the two.  Each session has a queue of       *)
(* signals, of which one is processed at a time; but closing a session     *)
(* does not go through that queue: it runs whenever the one in process     *)
(* waits for the WebRTC library.                                           *)
(*                                                                         *)
(* The host's handlers are taken whole here: HostControl has what happens  *)
(* inside them.  NodeRuntime has the node's tasks; here are their messages. *)
(* One controller, one provider.  Left out: tracks, the data channel, the  *)
(* microphone's controller, the order of candidates.                       *)
(***************************************************************************)
EXTENDS Naturals, Sequences, FiniteSets, Functions

CONSTANTS
    MaxSess,    \* sessions requested in an instance
    Trickles,   \* sessions whose node sends a candidate
    MayFail,    \* sessions the host refuses or the node gives up
    MayDrop     \* whether the link to the host, and the node's, may go down

\* A session id is drawn fresh: here, the next number.
Sess   == 1 .. MaxSess
NoSess == 0

ASSUME SessionAssumption ==
    MaxSess \in Nat /\ Trickles \subseteq Sess /\ MayFail \subseteq Sess
    /\ MayDrop \in BOOLEAN

VARIABLES
    ctl,        \* the controller: place in startSession, session, and so on
    ps,         \* session id -> its NodePeerSession, and whether it is mapped
    link,       \* the client's link to the host: up, down, swept by the host
    seen,       \* the host state the UI isolate was told
    up,         \* client to host, in order
    down,       \* host to UI isolate, in order
    hostSess,   \* CapabilitySessionRegistry: session -> status
    nodeUp,     \* the node is registered
    toNode, fromNode,
    node,       \* session -> activation, close task and candidates at the node
    silent      \* history: sessions that ended without a word to the client

vars == <<ctl, ps, link, seen, up, down, hostSess, nodeUp, toNode, fromNode,
          node, silent>>

uiVars   == <<ctl, ps, seen>>
hostVars == <<hostSess, nodeUp>>
nodeVars == <<node, fromNode>>

-----------------------------------------------------------------------------
(* Types *)

States == {"idle", "requesting", "pending", "connecting", "failed", "closing",
           "closed"}
Statuses == {"none", "Pending", "Active", "Closed"}
Conns == Nat
NoConn == 0
Signals == {"offer", "cand"}

TypeOK ==
    /\ ctl \in [pc : {"idle", "stopping", "rendering"}, cur : Sess \cup {NoSess},
                old : Sess \cup {NoSess}, ready : BOOLEAN, gone : BOOLEAN]
    /\ ps \in [Sess -> [st : States, mapped : BOOLEAN, made : Nat,
                        cached : BOOLEAN, open : SUBSET Conns, conn : Conns,
                        remote : BOOLEAN, buf : Nat,
                        task : {"none", "await", "use"},
                        disposing : BOOLEAN, closes : Conns,
                        q : Seq(Signals)]]
    /\ link \in {"up", "down", "swept"} /\ seen \in BOOLEAN /\ nodeUp \in BOOLEAN
    /\ hostSess \in [Sess -> Statuses]
    /\ up \in Seq([k : {"activate", "deactivate", "signal"}, s : Sess])
    /\ down \in Seq([k : Signals \cup {"active", "failed", "closed", "lost"},
                     s : Sess \cup {NoSess}])
    /\ toNode \in Seq([k : {"activate", "deactivate", "signal"}, s : Sess])
    /\ fromNode \in Seq([k : Signals \cup {"active", "closed"}, s : Sess])
    /\ node \in [Sess -> [act : {"none", "spawned", "offered", "done"},
                          close : {"none", "spawned", "done"}, cand : BOOLEAN]]
    /\ silent \subseteq Sess
    /\ \A s \in Sess : ps[s].task # "none" => ps[s].q # <<>>

-----------------------------------------------------------------------------
(* Helpers *)

M(k, s) == [k |-> k, s |-> s]
ToHost(m) == up' = IF link = "up" THEN Append(up, m) ELSE up
ToClient(m) == down' = IF link = "up" THEN Append(down, m) ELSE down

Fresh == [st |-> "idle", mapped |-> FALSE, made |-> 0, cached |-> FALSE,
          open |-> {}, conn |-> NoConn, remote |-> FALSE, buf |-> 0,
          task |-> "none", disposing |-> FALSE, closes |-> NoConn, q |-> <<>>]
\* createSession.
Created == [Fresh EXCEPT !.st = "requesting", !.mapped = TRUE]

Init ==
    /\ ctl = [pc |-> "idle", cur |-> NoSess, old |-> NoSess, ready |-> FALSE,
              gone |-> FALSE]
    /\ ps = [s \in Sess |-> Fresh]
    /\ link = "up" /\ seen = TRUE /\ nodeUp = TRUE
    /\ up = <<>> /\ down = <<>> /\ toNode = <<>> /\ fromNode = <<>>
    /\ hostSess = [s \in Sess |-> "none"]
    /\ node = [s \in Sess |-> [act |-> "none", close |-> "none", cand |-> FALSE]]
    /\ silent = {}

-----------------------------------------------------------------------------
(* The controller, and the map of sessions *)

\* The rest of startSession: a session is requested without a pause between
\* its entry in the map and the command, unless the host is not there or the
\* inventory does not offer the capability any more.
Request(c, sessions) ==
    \/ \E s \in Sess :
        /\ seen /\ \A r \in Sess : sessions[r].st = "idle" <=> r >= s
        /\ ps' = [sessions EXCEPT ![s] = Created]
        /\ ctl' = [c EXCEPT !.pc = "idle", !.old = NoSess, !.cur = s]
        /\ ToHost(M("activate", s))
    \/ /\ ~seen \/ ~nodeUp
       /\ ps' = sessions
       /\ ctl' = [c EXCEPT !.pc = "idle", !.old = NoSess]
       /\ UNCHANGED up

\* The renderer is made ready once, and that takes time.
Proceed(c, sessions) ==
    IF c.ready THEN Request(c, sessions)
    ELSE /\ ctl' = [c EXCEPT !.pc = "rendering", !.old = NoSess]
         /\ ps' = sessions
         /\ UNCHANGED up

\* closeSession: the command, then dispose, then out of the map.  What is not
\* mapped is let be; what is closed already is not disposed.
Closes(s) == ps[s].mapped
Disposed(p) ==
    IF p.st \in {"closing", "closed"} THEN [p EXCEPT !.mapped = FALSE]
    ELSE [p EXCEPT !.st = "closing", !.disposing = TRUE, !.closes = p.conn]

\* Mutant: the session on the screen is forgotten, and a new one requested.
BeginForget ==
    /\ ctl.pc = "idle" /\ ~ctl.gone
    /\ Proceed([ctl EXCEPT !.cur = NoSess], ps)
    /\ UNCHANGED <<link, seen, down, hostVars, toNode, nodeVars, silent>>
\* startSession, unless one is at it: the session there is is stopped first.
Begin ==
    /\ ctl.pc = "idle" /\ ~ctl.gone
    /\ IF ctl.cur # NoSess /\ Closes(ctl.cur)
       THEN /\ ps' = [ps EXCEPT ![ctl.cur] = Disposed(@)]
            /\ ctl' = [ctl EXCEPT !.pc = "stopping", !.old = ctl.cur,
                                  !.cur = NoSess]
            /\ ToHost(M("deactivate", ctl.cur))
       ELSE Proceed([ctl EXCEPT !.cur = NoSess], ps)
    /\ UNCHANGED <<link, seen, down, hostVars, toNode, nodeVars, silent>>

\* The renderer is ready; nothing looks whether the screen is still there.
Rendered ==
    /\ ctl.pc = "rendering"
    /\ Request([ctl EXCEPT !.ready = TRUE], ps)
    /\ UNCHANGED <<link, seen, down, hostVars, toNode, nodeVars, silent>>

\* stopSession returns; with the screen, the renderer is gone, and that throws.
Stopped ==
    /\ ctl.pc = "stopping" /\ ~ps[ctl.old].disposing
    /\ IF ctl.gone
       THEN /\ ctl' = [ctl EXCEPT !.pc = "idle", !.old = NoSess]
            /\ UNCHANGED <<ps, up>>
       ELSE Proceed(ctl, ps)
    /\ UNCHANGED <<link, seen, down, hostVars, toNode, nodeVars, silent>>

\* The screen is left: dispose stops the session there is.
Leave ==
    /\ ~ctl.gone
    /\ ctl' = [ctl EXCEPT !.gone = TRUE, !.cur = NoSess]
    /\ IF ctl.cur # NoSess /\ Closes(ctl.cur)
       THEN /\ ps' = [ps EXCEPT ![ctl.cur] = Disposed(@)]
            /\ ToHost(M("deactivate", ctl.cur))
       ELSE UNCHANGED <<ps, up>>
    /\ UNCHANGED <<link, seen, down, hostVars, toNode, nodeVars, silent>>

\* The connection dispose found is closed; what it finds now is forgotten.
EndDispose(s) ==
    /\ ps[s].disposing
    /\ ps' = [ps EXCEPT ![s] =
                [ps[s] EXCEPT !.disposing = FALSE, !.mapped = FALSE,
                              !.st = "closed", !.open = @ \ {ps[s].closes},
                              !.conn = NoConn, !.cached = FALSE,
                              !.closes = NoConn]]
    /\ UNCHANGED <<ctl, link, seen, up, down, hostVars, toNode, nodeVars, silent>>

-----------------------------------------------------------------------------
(* NodePeerSession: the queue of signals *)

uiOnly == <<ctl, link, seen, down, hostVars, toNode, nodeVars, silent>>

\* The head of the queue asks for the session's connection: the future that is
\* cached, or a new one.
TakeSignal(s) ==
    LET p == ps[s] IN
    /\ p.task = "none" /\ p.q # <<>>
    /\ ps' = [ps EXCEPT ![s] =
                [p EXCEPT !.st = IF Head(p.q) = "offer" THEN "connecting" ELSE @,
                          !.task = IF p.cached THEN "use" ELSE "await",
                          !.made = IF p.cached THEN @ ELSE @ + 1,
                          !.cached = TRUE]]
    /\ UNCHANGED <<uiOnly, up>>

PeerConnection(s) ==
    /\ ps[s].task = "await"
    /\ ps' = [ps EXCEPT ![s] = [ps[s] EXCEPT !.task = "use", !.conn = ps[s].made,
                                             !.open = @ \cup {ps[s].made}]]
    /\ UNCHANGED <<uiOnly, up>>

\* Mutant: the candidates that were early stay where they are.
NegotiatedKeep(p) ==
    [p EXCEPT !.task = "none", !.q = Tail(@), !.remote = TRUE]
\* The descriptions are set, and the candidates that were early are added.
Negotiated(p) ==
    [p EXCEPT !.task = "none", !.q = Tail(@), !.remote = TRUE, !.buf = 0]

\* _handleOffer sends the Answer; on a connection that was closed it throws.
HandleOffer(s) ==
    LET p == ps[s] IN
    /\ p.task = "use" /\ Head(p.q) = "offer"
    /\ IF p.made \in p.open
       THEN /\ ps' = [ps EXCEPT ![s] = Negotiated(p)]
            /\ ToHost(M("signal", s))
       ELSE /\ ps' = [ps EXCEPT ![s] = [p EXCEPT !.task = "none", !.q = Tail(@),
                                                 !.st = "failed"]]
            /\ UNCHANGED up
    /\ UNCHANGED uiOnly

\* Mutant: the queue goes on, but does not take note.
HandleCandidateOn(s) ==
    LET p == ps[s] IN
    /\ p.task = "use" /\ Head(p.q) = "cand"
    /\ ps' = [ps EXCEPT ![s] = [p EXCEPT !.q = Tail(@),
                                    !.buf = IF p.remote THEN @ ELSE @ + 1]]
    /\ UNCHANGED <<uiOnly, up>>
\* _handleIceCandidate: added at once, or kept until there is a description.
HandleCandidate(s) ==
    LET p == ps[s] IN
    /\ p.task = "use" /\ Head(p.q) = "cand"
    /\ ps' = [ps EXCEPT ![s] = [p EXCEPT !.task = "none", !.q = Tail(@),
                                    !.buf = IF p.remote THEN @ ELSE @ + 1]]
    /\ UNCHANGED <<uiOnly, up>>

\* A connection that was negotiated and gets no answer back fails.
ConnectionFails(s) ==
    /\ ps[s].remote /\ ps[s].st = "connecting"
    /\ ps' = [ps EXCEPT ![s].st = "failed"]
    /\ UNCHANGED <<uiOnly, up>>

-----------------------------------------------------------------------------
(* What the UI isolate is told *)

\* handleActivationStatus, closed: out of the map, and not disposed.
OnClosed(p) == [p EXCEPT !.st = "closed", !.mapped = FALSE]

OnStatus(p, k) ==
    IF ~p.mapped THEN p
    ELSE IF k = "active"
         THEN IF p.st \in {"requesting", "pending"} THEN [p EXCEPT !.st = "pending"]
              ELSE p
    ELSE IF k = "failed" THEN [p EXCEPT !.st = "failed"]
    ELSE OnClosed(p)

Receive ==
    /\ down # <<>>
    /\ LET m == Head(down) IN
       /\ seen' = (seen /\ m.k # "lost")
       /\ ps' = IF m.k = "lost" THEN ps
                ELSE IF m.k \in Signals
                THEN [ps EXCEPT ![m.s].q = IF ps[m.s].mapped THEN Append(@, m.k)
                                           ELSE @]
                ELSE [ps EXCEPT ![m.s] = OnStatus(@, m.k)]
    /\ down' = Tail(down)
    /\ UNCHANGED <<ctl, link, up, hostVars, toNode, nodeVars, silent>>

\* The link goes down: what was on its way is lost.  The background isolate
\* closes the sessions in its own map, which has none, and tells the UI.
DropLink ==
    /\ MayDrop /\ link = "up"
    /\ link' = "down" /\ up' = <<>>
    /\ \E n \in 0 .. Len(down) :
        down' = Append(SubSeq(down, 1, n), M("lost", NoSess))
    /\ UNCHANGED <<uiVars, hostVars, toNode, nodeVars, silent>>

-----------------------------------------------------------------------------
(* The host *)

\* What message_allowed_for_role admits of an authenticated client.
AllowedOfClient == {"activate", "deactivate"}

\* handle_activate_capability: refused when the token has expired or the
\* provider is offline.
Activate(s) ==
    \/ /\ nodeUp
       /\ hostSess' = [hostSess EXCEPT ![s] = "Pending"]
       /\ toNode' = Append(toNode, M("activate", s))
       /\ UNCHANGED down
    \/ /\ ~nodeUp \/ s \in MayFail
       /\ ToClient(M("failed", s))
       /\ UNCHANGED <<hostSess, toNode>>

\* handle_deactivate_capability: with a token that has expired, nothing.
Deactivate(s) ==
    /\ \/ toNode' = IF hostSess[s] # "none" /\ nodeUp
                    THEN Append(toNode, M("deactivate", s)) ELSE toNode
       \/ s \in MayFail /\ UNCHANGED toNode
    /\ UNCHANGED <<hostSess, down>>

\* handle_signal, if the role admits it.
RelaySignal(s) ==
    /\ toNode' = IF "signal" \in AllowedOfClient /\ hostSess[s] # "none" /\ nodeUp
                 THEN Append(toNode, M("signal", s)) ELSE toNode
    /\ UNCHANGED <<hostSess, down>>

FromClient ==
    /\ up # <<>> /\ up' = Tail(up)
    /\ LET m == Head(up) IN
       \/ m.k = "activate" /\ Activate(m.s)
       \/ m.k = "deactivate" /\ Deactivate(m.s)
       \/ m.k = "signal" /\ RelaySignal(m.s)
    /\ UNCHANGED <<uiVars, link, nodeUp, nodeVars, silent>>

\* Mutant: the status is kept for the next request of the client.
StatusKept(m) == UNCHANGED down
\* handle_activation_status and handle_signal tell the client.
Forward(m) == ToClient(m)

FromNode ==
    /\ fromNode # <<>> /\ fromNode' = Tail(fromNode)
    /\ LET m == Head(fromNode) IN
       /\ hostSess' = [hostSess EXCEPT ![m.s] =
                          IF m.k = "active" THEN "Active"
                          ELSE IF m.k = "closed" THEN "Closed" ELSE @]
       /\ Forward(m)
    /\ UNCHANGED <<uiVars, link, up, nodeUp, toNode, node, silent>>

Known == {s \in Sess : hostSess[s] # "none"}
Closed == [s \in Sess |-> IF s \in Known THEN "Closed" ELSE "none"]
\* A word about every session of the registry, whatever its status, in the order
\* of a hash map.
EachKnown(k) ==
    LET n == Cardinality(Known) IN
    {[i \in 1 .. n |-> M(k, order[i])] : order \in Bijection(1 .. n, Known)}

\* The sweep of the client's link closes its sessions and tells the node.
SweepClient ==
    /\ link = "down" /\ link' = "swept"
    /\ hostSess' = Closed
    /\ IF nodeUp THEN \E ms \in EachKnown("deactivate") : toNode' = toNode \o ms
                 ELSE UNCHANGED toNode
    /\ UNCHANGED <<uiVars, up, down, nodeUp, nodeVars, silent>>

\* The node is gone from the registry: the sweep of its link tells the clients
\* of its sessions; retiring it, for it reconnects or is silent, does not.
LoseNode ==
    /\ MayDrop /\ nodeUp
    /\ nodeUp' = FALSE /\ toNode' = <<>> /\ fromNode' = <<>>
    /\ hostSess' = Closed
    /\ \/ /\ IF link = "up" THEN \E ms \in EachKnown("closed") : down' = down \o ms
                            ELSE UNCHANGED down
          /\ UNCHANGED silent
       \/ /\ silent' = silent \cup Known
          /\ UNCHANGED down
    /\ UNCHANGED <<uiVars, link, up, node>>

-----------------------------------------------------------------------------
(* The node *)

ToHostOf(m) == fromNode' = IF nodeUp THEN Append(fromNode, m) ELSE fromNode
nodeOnly == <<uiVars, link, up, down, hostVars>>

\* A control message starts a task of its own.
NodeTake ==
    /\ toNode # <<>>
    /\ toNode' = Tail(toNode)
    /\ LET m == Head(toNode) IN
       node' = IF m.k = "activate" THEN [node EXCEPT ![m.s].act = "spawned"]
               ELSE [node EXCEPT ![m.s].close = "spawned"]
    /\ UNCHANGED <<nodeOnly, fromNode, silent>>

\* A connection is made and the Offer sent; or it fails, and nothing is said.
NodeOffer(s) ==
    /\ node[s].act = "spawned"
    /\ \/ /\ node' = [node EXCEPT ![s].act = "offered"]
          /\ ToHostOf(M("offer", s))
          /\ UNCHANGED silent
       \/ /\ s \in MayFail
          /\ node' = [node EXCEPT ![s].act = "done"]
          /\ silent' = silent \cup {s}
          /\ UNCHANGED fromNode
    /\ UNCHANGED <<nodeOnly, toNode>>

\* Candidates are found from the moment the Offer is made.
NodeCandidate(s) ==
    /\ s \in Trickles /\ node[s].act # "none" /\ ~node[s].cand
    /\ node' = [node EXCEPT ![s].cand = TRUE]
    /\ ToHostOf(M("cand", s))
    /\ UNCHANGED <<nodeOnly, toNode, silent>>

NodeActive(s) ==
    /\ node[s].act = "offered"
    /\ node' = [node EXCEPT ![s].act = "done"]
    /\ ToHostOf(M("active", s))
    /\ UNCHANGED <<nodeOnly, toNode, silent>>

\* Deactivated, or its connection went down.
NodeClose(s) ==
    /\ \/ node[s].close = "spawned"
       \/ s \in MayFail /\ node[s].act = "done" /\ node[s].close = "none"
          /\ s \notin silent
    /\ node' = [node EXCEPT ![s].close = "done"]
    /\ ToHostOf(M("closed", s))
    /\ UNCHANGED <<nodeOnly, toNode, silent>>

Next ==
    \/ Begin \/ Rendered \/ Stopped \/ Leave
    \/ Receive \/ DropLink
    \/ FromClient \/ FromNode \/ SweepClient \/ LoseNode
    \/ NodeTake
    \/ \E s \in Sess :
        \/ EndDispose(s) \/ TakeSignal(s) \/ PeerConnection(s)
        \/ HandleOffer(s) \/ HandleCandidate(s) \/ ConnectionFails(s)
        \/ NodeOffer(s) \/ NodeCandidate(s) \/ NodeActive(s) \/ NodeClose(s)

Spec == Init /\ [][Next]_vars

-----------------------------------------------------------------------------
(* Properties *)

Has(q, ks, s) == \E i \in DOMAIN q : q[i].k \in ks /\ q[i].s = s
Words == {"active", "failed", "closed"}

\* The client is told.  If it waits for its request to be answered, the request,
\* the node's work on it or a word about it is under way; what the host holds
\* for closed does not stay in its map, for the word is on its way, whatever order
\* the node's tasks ran in.  Only the end of the link and the ends that nobody
\* tells leave it waiting.
ClientIsTold ==
    \A s \in Sess \ silent : (ps[s].mapped /\ link = "up") =>
        /\ ps[s].st = "requesting" =>
            \/ Has(up, {"activate"}, s) \/ Has(toNode, {"activate"}, s)
            \/ node[s].act \in {"spawned", "offered"}
            \/ Has(fromNode, Words, s) \/ Has(down, Words, s)
        /\ hostSess[s] = "Closed" => Has(down, {"closed"}, s)

\* A candidate that was there before the Offer is not forgotten: once the queue
\* of a session with a remote description is empty, none waits to be added.
NoCandidateStuck ==
    \A s \in Sess : (ps[s].remote /\ ps[s].q = <<>>) => ps[s].buf = 0

\* The sessions of the map that are not being closed are the one the controller
\* holds: starting, switching and stopping never leave another beside it, and
\* leaving the screen closes it.  Held then is only what is requested after the
\* leave, by a start that made the renderer ready (camera_capability.dart:42).
OneShown ==
    \A s \in Sess : (ps[s].mapped /\ ~ps[s].disposing) => s = ctl.cur

\* What is explored: one session with everything that may happen to it, and any
\* number of them while the screen and both links are there and keep up.
Explored ==
    \/ \A s \in Sess : ps[s].st # "idle" => s = 1
    \/ /\ ~ctl.gone /\ link = "up" /\ nodeUp /\ silent = {}
       /\ \A s \in Sess : ~node[s].cand
       /\ \A q \in {up, down, toNode, fromNode} : Len(q) <= 2
=============================================================================
