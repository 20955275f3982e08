-------------------------- MODULE HostControlProofs --------------------------
(***************************************************************************)
(* Theorems about the host's control plane, for any number of nodes,       *)
(* clients, links and sessions.                                            *)
(***************************************************************************)
EXTENDS HostControl, TLAPS

\* What a message handler captured when it was started, and the monitor when it
\* collected: without it the types are not inductive.
HandlerOK ==
    \A l \in Links :
        /\ h[l].op \in {"register", "advertise"} =>
               owner[l] \in Nodes /\ h[l].via \in Links
        /\ h[l].op \in {"report", "resolve", "create"} => h[l].sid \in Sids
        /\ h[l].op = "report" => h[l].st \in Reports
        /\ h[l].op \in {"resolve", "create"} =>
               owner[l] \in Clients /\ h[l].node \in Nodes
        /\ h[l].op = "create" => h[l].via \in Links

\* A link with a handler or an open transport has been offered, and only the
\* task of a node's link retires or broadcasts.
LinksOK ==
    \A l \in Links :
        /\ pc[l] = "idle" => owner[l] = NoPeer
        /\ pc[l] # "idle" => owner[l] \in Peers
        /\ pc[l] \in {"retireSessions", "broadcast"} => owner[l] \in Nodes

MonitorOK == mon.pc \in {"registry", "peer"} => mon.cur \in Nodes

TypeInv == TypeOK /\ HandlerOK /\ LinksOK /\ MonitorOK

\* A lock has at most one holder.
LocksExclude ==
    \A k, l \in Links : k # l => HoldsAt(pc[k]) \cap HoldsAt(pc[l]) = {}

-----------------------------------------------------------------------------
(* The types *)

LEMMA TypeInvInit == Init => TypeInv
BY HostControlAssumption DEF Init, Asleep, Idle, NoSession, TypeInv, TypeOK,
   HandlerOK, LinksOK, MonitorOK, Peers, PcStates, Session, Handler, Ops,
   Statuses, Monitor

LEMMA TypeInvStep == TypeInv /\ [Next]_vars => TypeInv'
<1> SUFFICES ASSUME TypeInv, [Next]_vars PROVE TypeInv'
    OBVIOUS
<1> USE HostControlAssumption
        DEF TypeInv, TypeOK, HandlerOK, LinksOK, MonitorOK, Peers, PcStates,
            Session, Handler, Ops, Statuses, Reports, Monitor, linkVars,
            registryVars, sessionVars, Goto
<1>1. ASSUME NEW l \in Links, NEW p \in Peers, Offer(l, p) PROVE TypeInv'
    BY <1>1 DEF Offer
<1>2. ASSUME NEW l \in Links, Retire(l) PROVE TypeInv'
    BY <1>2 DEF Retire
<1>3. ASSUME NEW l \in Links, RetireSessions(l) PROVE TypeInv'
    BY <1>3 DEF RetireSessions, ClosedForNode
<1>4. ASSUME NEW l \in Links, CloseOld(l) PROVE TypeInv'
    BY <1>4 DEF CloseOld, Drop, Down, Hooked
<1>5. ASSUME NEW l \in Links, Answer(l) PROVE TypeInv'
    BY <1>5 DEF Answer
<1>6. ASSUME NEW l \in Links, Hook(l) PROVE TypeInv'
    BY <1>6 DEF Hook
<1>7. ASSUME NEW l \in Links, Poll(l) PROVE TypeInv'
    BY <1>7 DEF Poll
<1>8. ASSUME NEW l \in Links, Abort(l) PROVE TypeInv'
    BY <1>8 DEF Abort, Drop, Down, Hooked
<1>9. ASSUME NEW l \in Links, Remove(l) PROVE TypeInv'
    BY <1>9 DEF Remove, Drop, Down, Hooked
<1>10. ASSUME NEW l \in Links, Unregister(l) PROVE TypeInv'
  <2>1. CASE owner[l] \in Nodes /\ nodeReg[owner[l]] # NoLink
    <3>1. /\ nodeReg' = [nodeReg EXCEPT ![owner[l]] = NoLink]
          /\ inventory' = inventory \ {owner[l]}
          /\ pc' = [pc EXCEPT ![l] = "broadcast"]
      BY <1>10, <2>1 DEF Unregister
    <3>2. TypeOK'
      BY <1>10, <3>1 DEF Unregister
    <3> QED
      BY <1>10, <2>1, <3>1, <3>2 DEF Unregister
  <2>2. CASE ~(owner[l] \in Nodes /\ nodeReg[owner[l]] # NoLink)
    BY <1>10, <2>2 DEF Unregister
  <2> QED
    BY <2>1, <2>2
<1>11. ASSUME NEW l \in Links, Broadcast(l) PROVE TypeInv'
    BY <1>11 DEF Broadcast
<1>12. ASSUME NEW l \in Links, SweepLock(l) PROVE TypeInv'
    BY <1>12 DEF SweepLock
<1>13. ASSUME NEW l \in Links, Sweep(l) PROVE TypeInv'
    BY <1>13 DEF Sweep, ClosedFor
<1>14. ASSUME NEW l \in Links, Connect(l) PROVE TypeInv'
    BY <1>14 DEF Connect
<1>15. ASSUME NEW l \in Links, Recheck(l) PROVE TypeInv'
    BY <1>15 DEF Recheck
<1>16. ASSUME NEW l \in Links, Fail(l) PROVE TypeInv'
    BY <1>16 DEF Fail, Down, Hooked
<1>17. ASSUME NEW l \in Links, Login(l) PROVE TypeInv'
    BY <1>17 DEF Login, Parsed, Current
<1>18. ASSUME NEW l \in Links, RecvRegister(l) PROVE TypeInv'
  <2>1. TypeOK'
    BY <1>18 DEF RecvRegister, Handling, Idle, Parsed, Current
  <2>2. HandlerOK'
    BY <1>18 DEF RecvRegister, Handling, Idle, Parsed, Current
  <2>3. LinksOK' /\ MonitorOK'
    BY <1>18 DEF RecvRegister, Handling, Idle, Parsed, Current
  <2> QED
    BY <2>1, <2>2, <2>3
<1>19. ASSUME NEW l \in Links, Register(l) PROVE TypeInv'
    BY <1>19 DEF Register, Handling, Finish, Idle
<1>20. ASSUME NEW l \in Links, Advertise(l) PROVE TypeInv'
    BY <1>20 DEF Advertise, Handling, Finish, Idle
<1>21. ASSUME NEW l \in Links, Report(l) PROVE TypeInv'
    BY <1>21 DEF Report, Handling, Finish, Idle
<1>22. ASSUME NEW l \in Links, Resolve(l) PROVE TypeInv'
  <2> DEFINE provider == nodeReg[h[l].node]
  <2>1. CASE provider = NoLink
    BY <1>22, <2>1 DEF Resolve, Handling, Finish, Idle
  <2>2. CASE provider # NoLink
    <3>1. provider \in Links
      BY <1>22, <2>2 DEF Resolve
    <3>2. h' = [h EXCEPT ![l] = [h[l] EXCEPT !.op = "create", !.via = provider]]
      BY <1>22, <2>2 DEF Resolve, Handling
    <3>3. h[l].op = "resolve"
      BY <1>22 DEF Resolve
    <3> HIDE DEF provider
    <3>4. h' \in [Links -> Handler]
      <4>1. h[l] \in Handler
        OBVIOUS
      <4>2. [h[l] EXCEPT !.op = "create", !.via = provider] \in Handler
        BY <3>1, <4>1
      <4> QED
        BY <3>2, <4>2
    <3>5. HandlerOK'
      BY <1>22, <3>1, <3>2, <3>3 DEF Resolve
    <3> QED
      BY <1>22, <3>4, <3>5 DEF Resolve
  <2> QED
    BY <2>1, <2>2
<1>23. ASSUME NEW l \in Links, Create(l) PROVE TypeInv'
    BY <1>23 DEF Create, Handling, Finish, Idle
<1>24. ASSUME NEW l \in Links, NEW s \in Sids, NEW st \in Reports, RecvStatus(l, s, st)
      PROVE  TypeInv'
  <2>1. TypeOK'
    BY <1>24 DEF RecvStatus, Handling, Idle, Parsed, Current
  <2>2. HandlerOK'
    BY <1>24 DEF RecvStatus, Handling, Idle, Parsed, Current
  <2>3. LinksOK' /\ MonitorOK'
    BY <1>24 DEF RecvStatus, Handling, Idle, Parsed, Current
  <2> QED
    BY <2>1, <2>2, <2>3
<1>25. ASSUME NEW l \in Links, NEW s \in Sids, NEW n \in Nodes, RecvActivate(l, s, n)
      PROVE  TypeInv'
  <2>1. TypeOK'
    BY <1>25 DEF RecvActivate, Handling, Idle, Parsed, Current
  <2>2. HandlerOK'
    BY <1>25 DEF RecvActivate, Handling, Idle, Parsed, Current
  <2>3. LinksOK' /\ MonitorOK'
    BY <1>25 DEF RecvActivate, Handling, Idle, Parsed, Current
  <2> QED
    BY <2>1, <2>2, <2>3
<1>26. ASSUME NEW timedOut \in SUBSET Silent, MonitorCollect(timedOut)
      PROVE  TypeInv'
    BY <1>26 DEF MonitorCollect, Asleep
<1>27. ASSUME NEW n \in Nodes, MonitorSessions(n) PROVE TypeInv'
  <2>1. TypeOK'
    <3>1. sess' \in [Sids -> Session]
      BY <1>27 DEF MonitorSessions, ClosedForNode
    <3>2. mon' \in Monitor
      BY <1>27 DEF MonitorSessions
    <3> QED
      BY <1>27, <3>1, <3>2 DEF MonitorSessions
  <2>2. HandlerOK'
    BY <1>27 DEF MonitorSessions, ClosedForNode
  <2>3. LinksOK' /\ MonitorOK'
    BY <1>27 DEF MonitorSessions, ClosedForNode
  <2> QED
    BY <2>1, <2>2, <2>3
<1>28. CASE MonitorRegistry
    BY <1>28 DEF MonitorRegistry
<1>29. CASE MonitorPeer
    BY <1>29 DEF MonitorPeer, Asleep, Drop, Down, Hooked
<1>30. CASE UNCHANGED vars
    BY <1>30 DEF vars
<1> HIDE DEF TypeInv, vars
<1> QED
    BY <1>1, <1>2, <1>3, <1>4, <1>5, <1>6, <1>7, <1>8, <1>9, <1>10, <1>11,
       <1>12, <1>13, <1>14, <1>15, <1>16, <1>17, <1>18, <1>19, <1>20, <1>21,
       <1>22, <1>23, <1>24, <1>25, <1>26, <1>27, <1>28, <1>29, <1>30 DEF Next,
       LinkTask, Transport, Receive, HandlerTask, MonitorTask, Goto

\* The types hold in every reachable state: no handler, teardown or monitor step
\* ever stores a link, peer or session it should not.
THEOREM TypeCorrect == Spec => []TypeOK
<1>1. Spec => []TypeInv
    BY TypeInvInit, TypeInvStep, PTL DEF Spec
<1>2. TypeInv => TypeOK
    BY DEF TypeInv
<1> QED
    BY <1>1, <1>2, PTL

LEMMA TypeInvAlways == Spec => []TypeInv
BY TypeInvInit, TypeInvStep, PTL DEF Spec

-----------------------------------------------------------------------------
(* What the steps leave alone *)

\* Message handlers touch no link's task and no entry of peer_map.
LEMMA HandlersLeaveLinks ==
    ASSUME NEW l \in Links, Receive(l) \/ HandlerTask(l)
    PROVE  UNCHANGED <<owner, pc, old, ice, wake, peerMap>>
BY DEF Receive, HandlerTask, Login, RecvRegister, RecvStatus, RecvActivate,
       Register, Advertise, Report, Resolve, Create, linkVars

\* The transport and the monitor touch no link's task.
LEMMA TransportLeavesTasks ==
    ASSUME NEW l \in Links, Transport(l)
    PROVE  UNCHANGED <<owner, pc, old, peerMap, sess, late>>
BY DEF Transport, Connect, Recheck, Fail, Down, sessionVars

LEMMA MonitorLeavesTasks ==
    ASSUME MonitorTask
    PROVE  UNCHANGED <<owner, pc, old>>
BY DEF MonitorTask, MonitorCollect, MonitorSessions, MonitorRegistry,
       MonitorPeer, linkVars

-----------------------------------------------------------------------------
(* peer_map lists only links whose task will take them out *)

Listed == {"retire", "retireSessions", "closeOld", "answer", "hook", "await",
           "abort", "up"}

LEMMA PeerMapLiveStep ==
    ASSUME TypeInv, TypeInv', PeerMapLive, [Next]_vars
    PROVE  PeerMapLive'
<1> USE HostControlAssumption DEF TypeInv, TypeOK
<1>1. ASSUME NEW l \in Links, NEW p \in Peers, Offer(l, p)
      PROVE  PeerMapLive'
  BY <1>1 DEF Offer, Goto, PeerMapLive
<1>2. ASSUME NEW l \in Links, Abort(l) \/ Remove(l)
      PROVE  PeerMapLive'
  <2>1. /\ peerMap' = [p \in Peers |-> IF peerMap[p] = l THEN NoLink ELSE peerMap[p]]
        /\ \A k \in Links \ {l} : pc'[k] = pc[k]
        /\ owner' = owner
    BY <1>2 DEF Abort, Remove, Goto
  <2> QED
    BY <2>1 DEF PeerMapLive
<1>3. ASSUME NEW l \in Links, LinkTask(l), ~Abort(l), ~Remove(l)
      PROVE  PeerMapLive'
  <2>1. /\ UNCHANGED <<owner, peerMap>>
        /\ \A k \in Links \ {l} : pc'[k] = pc[k]
        /\ pc[l] \in Listed => pc'[l] \in Listed
    BY <1>3 DEF LinkTask, Retire, RetireSessions, CloseOld, Answer, Hook, Poll,
                Unregister, Broadcast, SweepLock, Sweep, Goto, Listed
  <2> QED
    BY <2>1 DEF PeerMapLive, Listed
<1>4. ASSUME NEW l \in Links, Transport(l)
      PROVE  PeerMapLive'
  BY <1>4, TransportLeavesTasks DEF PeerMapLive
<1>5. ASSUME NEW l \in Links, Receive(l) \/ HandlerTask(l)
      PROVE  PeerMapLive'
  BY <1>5, HandlersLeaveLinks DEF PeerMapLive
<1>6. CASE MonitorTask
  <2>1. \A p \in Peers : peerMap'[p] \in {peerMap[p], NoLink}
    BY <1>6 DEF MonitorTask, MonitorCollect, MonitorSessions, MonitorRegistry,
                MonitorPeer, linkVars
  <2> QED
    BY <1>6, <2>1, MonitorLeavesTasks DEF PeerMapLive
<1>7. CASE UNCHANGED vars
  BY <1>7 DEF vars, PeerMapLive
<1> QED
  BY <1>1, <1>2, <1>3, <1>4, <1>5, <1>6, <1>7 DEF Next

\* Whoever finds a session in peer_map (a message, a broadcast, an ICE candidate)
\* finds the one of that peer, and its link's task has not left it behind.
THEOREM PeerMapIsLive == Spec => []PeerMapLive
<1>1. Init => PeerMapLive
  BY DEF Init, PeerMapLive
<1>2. TypeInv /\ TypeInv' /\ PeerMapLive /\ [Next]_vars => PeerMapLive'
  BY PeerMapLiveStep
<1> QED
  BY <1>1, <1>2, TypeInvAlways, PTL DEF Spec

-----------------------------------------------------------------------------
(* No open transport is lost *)

LEMMA NoOrphanLinkStep ==
    ASSUME TypeInv, TypeInv', NoOrphanLink, [Next]_vars
    PROVE  NoOrphanLink'
<1> DEFINE Retiring == {"retire", "retireSessions", "closeOld"}
<1> USE HostControlAssumption DEF TypeInv, TypeOK
<1>1. ASSUME NEW l \in Links, NEW p \in Peers, Offer(l, p)
      PROVE  NoOrphanLink'
  <2> SUFFICES ASSUME NEW m \in Links, Started(m)', ice'[m] # "down"
               PROVE  \/ peerMap'[owner'[m]] = m
                      \/ \E k \in Links : old'[k] = m /\ pc'[k] \in Retiring
    BY DEF NoOrphanLink
  <2>1. /\ pc[l] = "idle" /\ ice' = ice
        /\ owner' = [owner EXCEPT ![l] = p]
        /\ old' = [old EXCEPT ![l] = peerMap[p]]
        /\ peerMap' = [peerMap EXCEPT ![p] = l]
        /\ pc' = [pc EXCEPT ![l] = IF peerMap[p] = NoLink THEN "answer" ELSE "retire"]
    BY <1>1 DEF Offer, Goto
  <2>2. CASE m = l
    BY <2>1, <2>2
  <2>3. CASE m # l /\ peerMap[p] = m
    BY <2>1, <2>3
  <2>4. CASE m # l /\ peerMap[p] # m
    <3>1. Started(m) /\ ice[m] # "down" /\ owner'[m] = owner[m]
      BY <2>1, <2>4 DEF Started
    <3>2. CASE peerMap[owner[m]] = m
      BY <2>1, <2>4, <3>1, <3>2 DEF LinksOK, Started
    <3>3. CASE \E k \in Links : old[k] = m /\ pc[k] \in Retiring
      BY <2>1, <3>3
    <3> QED
      BY <3>1, <3>2, <3>3 DEF NoOrphanLink
  <2> QED
    BY <2>2, <2>3, <2>4
<1>2. ASSUME NEW l \in Links, Abort(l) \/ Remove(l)
      PROVE  NoOrphanLink'
  <2>1. /\ peerMap' = [p \in Peers |-> IF peerMap[p] = l THEN NoLink ELSE peerMap[p]]
        /\ ice' = [k \in Links |-> IF k \in {l} THEN "down" ELSE ice[k]]
        /\ pc[l] \in {"abort", "up"}
        /\ pc'[l] \in {"done", "unregister"}
        /\ \A k \in Links \ {l} : pc'[k] = pc[k]
        /\ UNCHANGED <<owner, old>>
    BY <1>2 DEF Abort, Remove, Goto, Drop, Down
  <2> QED
    BY <2>1 DEF NoOrphanLink, Started, LinksOK
<1>3. ASSUME NEW l \in Links, CloseOld(l)
      PROVE  NoOrphanLink'
  <2>1. /\ ice' = [k \in Links |-> IF k \in {old[l]} THEN "down" ELSE ice[k]]
        /\ old' = [old EXCEPT ![l] = NoLink]
        /\ pc[l] = "closeOld"
        /\ \A k \in Links \ {l} : pc'[k] = pc[k]
        /\ pc'[l] # "idle"
        /\ UNCHANGED <<owner, peerMap>>
    BY <1>3 DEF CloseOld, Goto, Drop, Down
  <2> QED
    BY <2>1 DEF NoOrphanLink, Started
<1>4. ASSUME NEW l \in Links, LinkTask(l), ~Abort(l), ~Remove(l), ~CloseOld(l)
      PROVE  NoOrphanLink'
  <2>1. /\ UNCHANGED <<owner, old, ice, peerMap>>
        /\ \A k \in Links \ {l} : pc'[k] = pc[k]
        /\ pc[l] # "idle"
        /\ pc[l] \in Retiring => pc'[l] \in Retiring
    BY <1>4 DEF LinkTask, Retire, RetireSessions, Answer, Hook, Poll,
                Unregister, Broadcast, SweepLock, Sweep, Goto
  <2> QED
    BY <2>1 DEF NoOrphanLink, Started
<1>5. ASSUME NEW l \in Links, Transport(l)
      PROVE  NoOrphanLink'
  BY <1>5, TransportLeavesTasks DEF NoOrphanLink, Started, Transport, Connect,
     Recheck, Fail, Down
<1>6. ASSUME NEW l \in Links, Receive(l) \/ HandlerTask(l)
      PROVE  NoOrphanLink'
  BY <1>6, HandlersLeaveLinks DEF NoOrphanLink, Started
<1>7. CASE MonitorTask
  <2>1. CASE MonitorPeer
    <3>1. /\ ice' = [k \in Links |-> IF k \in {peerMap[mon.cur]} THEN "down" ELSE ice[k]]
          /\ peerMap' = [peerMap EXCEPT ![mon.cur] = NoLink]
          /\ UNCHANGED <<owner, pc, old>>
      BY <2>1 DEF MonitorPeer, Drop, Down
    <3> QED
      BY <3>1 DEF NoOrphanLink, Started, LinksOK
  <2>2. CASE ~MonitorPeer
    BY <1>7, <2>2 DEF MonitorTask, MonitorCollect, MonitorSessions,
       MonitorRegistry, NoOrphanLink, Started, linkVars
  <2> QED
    BY <2>1, <2>2
<1>8. CASE UNCHANGED vars
  BY <1>8 DEF vars, NoOrphanLink, Started
<1> QED
  BY <1>1, <1>2, <1>3, <1>4, <1>5, <1>6, <1>7, <1>8 DEF Next

\* No transport stays open without an owner that will close it: it is the current
\* one of its peer, or the task that replaced it has yet to close it.
THEOREM NoLinkIsOrphaned == Spec => []NoOrphanLink
<1>1. Init => NoOrphanLink
  BY DEF Init, NoOrphanLink, Started
<1>2. TypeInv /\ TypeInv' /\ NoOrphanLink /\ [Next]_vars => NoOrphanLink'
  BY NoOrphanLinkStep
<1> QED
  BY <1>1, <1>2, TypeInvAlways, PTL DEF Spec

-----------------------------------------------------------------------------
(* Open sessions have keepers *)

\* A link keeps its peer until its own sweep.
LEMMA KeptUnlessSwept ==
    ASSUME TypeInv, NEW p, Kept(p),
           \A k \in Links : WillSweep(k) => owner'[k] = owner[k] /\ WillSweep(k)'
    PROVE  Kept(p)'
BY DEF Kept

LEMMA OpenSessionsAreKeptStep ==
    ASSUME TypeInv, TypeInv', OpenSessionsAreKept, [Next]_vars
    PROVE  OpenSessionsAreKept'
<1> DEFINE Open == {"pending", "active"}
           NoneSwept == \A k \in Links :
                            WillSweep(k) => owner'[k] = owner[k] /\ WillSweep(k)'
           NoneOpened == /\ late' = late
                         /\ \A s \in Sids : sess'[s].status \in Open =>
                                /\ sess[s].status \in Open
                                /\ sess'[s].client = sess[s].client
                                /\ sess'[s].node = sess[s].node
<1> USE HostControlAssumption DEF TypeInv, TypeOK
<1>A. ASSUME NoneSwept, NoneOpened PROVE OpenSessionsAreKept'
  BY <1>A, KeptUnlessSwept DEF OpenSessionsAreKept
<1>1. ASSUME NEW l \in Links, NEW p \in Peers, Offer(l, p)
      PROVE  OpenSessionsAreKept'
  <2>1. NoneSwept
    BY <1>1 DEF Offer, Goto, WillSweep
  <2>2. NoneOpened
    BY <1>1 DEF Offer, sessionVars
  <2> QED
    BY <1>A, <2>1, <2>2
<1>2. ASSUME NEW l \in Links, LinkTask(l), ~Sweep(l)
      PROVE  OpenSessionsAreKept'
  <2>1. NoneSwept
    BY <1>2 DEF LinkTask, Retire, RetireSessions, CloseOld, Answer, Hook, Poll,
       Abort, Remove, Unregister, Broadcast, SweepLock, Goto, WillSweep
  <2>2. NoneOpened
    BY <1>2 DEF LinkTask, Retire, RetireSessions, CloseOld, Answer, Hook, Poll,
       Abort, Remove, Unregister, Broadcast, SweepLock, ClosedForNode,
       sessionVars, Session, Statuses
  <2> QED
    BY <1>A, <2>1, <2>2
<1>3. ASSUME NEW l \in Links, Sweep(l)
      PROVE  OpenSessionsAreKept'
  <2> SUFFICES ASSUME NEW s \in Sids, s \notin late', sess'[s].status \in Open
               PROVE  Kept(sess[s].client)' /\ Kept(sess[s].node)'
    BY DEF OpenSessionsAreKept
  <2>1. /\ owner' = owner /\ late' = late
        /\ pc' = [pc EXCEPT ![l] = "done"]
        /\ sess' = ClosedFor(owner[l])
    BY <1>3 DEF Sweep, Goto
  <2>2. owner[l] \notin {sess[s].client, sess[s].node} /\ sess'[s] = sess[s]
    BY <2>1 DEF ClosedFor, Session
  <2>3. Kept(sess[s].client) /\ Kept(sess[s].node)
    BY <2>1, <2>2 DEF OpenSessionsAreKept
  <2>4. ASSUME NEW p, Kept(p), p # owner[l] PROVE Kept(p)'
    BY <2>1, <2>4 DEF Kept, WillSweep
  <2> QED
    BY <2>2, <2>3, <2>4
<1>4. ASSUME NEW l \in Links, Transport(l)
      PROVE  OpenSessionsAreKept'
  BY <1>4, <1>A, TransportLeavesTasks DEF WillSweep
<1>5. ASSUME NEW l \in Links, Report(l) \/ Create(l)
      PROVE  OpenSessionsAreKept'
  <2> SUFFICES ASSUME NEW s \in Sids, s \notin late', sess'[s].status \in Open
               PROVE  Kept(sess[s].client)' /\ Kept(sess[s].node)'
    BY DEF OpenSessionsAreKept
  <2>1. UNCHANGED <<owner, pc>>
    BY <1>5, HandlersLeaveLinks DEF HandlerTask
  <2>2. \A p : Kept(p) => Kept(p)'
    BY <2>1 DEF Kept, WillSweep
  <2>3. CASE sess'[s] = sess[s] /\ s \notin late
    BY <2>2, <2>3 DEF OpenSessionsAreKept
  <2>4. CASE ~(sess'[s] = sess[s] /\ s \notin late)
    <3>1. CASE Report(l)
      <4>1. /\ s = h[l].sid /\ s \in Sids
            /\ sess'[s] = [sess[s] EXCEPT !.status = h[l].st]
            /\ Kept(sess[s].client) /\ Kept(sess[s].node)
        BY <2>4, <3>1 DEF Report
      <4>2. sess'[s].client = sess[s].client /\ sess'[s].node = sess[s].node
        BY <4>1 DEF Session
      <4> QED
        BY <2>2, <4>1, <4>2
    <3>2. CASE Create(l)
      <4>1. /\ s = h[l].sid
            /\ sess'[s] = [client |-> owner[l], node |-> h[l].node, status |-> "pending"]
            /\ Kept(owner[l]) /\ Kept(h[l].node)
        BY <2>4, <3>2 DEF Create
      <4> QED
        BY <2>2, <4>1
    <3> QED
      BY <1>5, <3>1, <3>2
  <2> QED
    BY <2>3, <2>4
<1>6. ASSUME NEW l \in Links, Receive(l) \/ HandlerTask(l), ~Report(l), ~Create(l)
      PROVE  OpenSessionsAreKept'
  <2>1. NoneSwept
    BY <1>6, HandlersLeaveLinks DEF WillSweep
  <2>2. NoneOpened
    BY <1>6 DEF Receive, HandlerTask, Login, RecvRegister, RecvStatus,
       RecvActivate, Register, Advertise, Resolve, sessionVars
  <2> QED
    BY <1>A, <2>1, <2>2
<1>7. CASE MonitorTask
  <2>1. NoneSwept
    BY <1>7, MonitorLeavesTasks DEF WillSweep
  <2>2. NoneOpened
    <3>1. CASE \E n \in Nodes : MonitorSessions(n)
      BY <3>1 DEF MonitorSessions, ClosedForNode, Session, Statuses
    <3>2. CASE ~\E n \in Nodes : MonitorSessions(n)
      BY <1>7, <3>2 DEF MonitorTask, MonitorCollect, MonitorRegistry,
         MonitorPeer, sessionVars
    <3> QED
      BY <3>1, <3>2
  <2> QED
    BY <1>A, <2>1, <2>2
<1>8. CASE UNCHANGED vars
  BY <1>8, <1>A DEF vars, WillSweep
<1> QED
  BY <1>1, <1>2, <1>3, <1>4, <1>5, <1>6, <1>7, <1>8 DEF Next

\* However a link ends, the sessions of its peer end with it, except those that a
\* request or a report in flight opened after the sweep (late).
THEOREM SessionsAreKept == Spec => []OpenSessionsAreKept
<1>1. Init => OpenSessionsAreKept
  BY DEF Init, OpenSessionsAreKept, NoSession
<1>2. TypeInv /\ TypeInv' /\ OpenSessionsAreKept /\ [Next]_vars => OpenSessionsAreKept'
  BY OpenSessionsAreKeptStep
<1> QED
  BY <1>1, <1>2, TypeInvAlways, PTL DEF Spec

-----------------------------------------------------------------------------
(* The locks *)

LEMMA LocksExcludeStep ==
    ASSUME TypeInv, LocksExclude, [Next]_vars
    PROVE  LocksExclude'
<1> USE DEF TypeInv, TypeOK
<1>1. ASSUME NEW l \in Links, NEW p \in Peers, Offer(l, p)
      PROVE  LocksExclude'
  BY <1>1 DEF Offer, Goto, LocksExclude, HoldsAt
<1>2. ASSUME NEW l \in Links, LinkTask(l)
      PROVE  LocksExclude'
  <2>1. /\ \A k \in Links \ {l} : pc'[k] = pc[k]
        /\ \A lock \in HoldsAt(pc'[l]) : lock \in HoldsAt(pc[l]) \/ Free(lock)
    BY <1>2 DEF LinkTask, Retire, RetireSessions, CloseOld, Answer, Hook, Poll,
       Abort, Remove, Unregister, Broadcast, SweepLock, Sweep, Goto, HoldsAt
  <2> QED
    BY <2>1 DEF LocksExclude, Free
<1>3. ASSUME NEW l \in Links, Transport(l)
      PROVE  LocksExclude'
  BY <1>3, TransportLeavesTasks DEF LocksExclude
<1>4. ASSUME NEW l \in Links, Receive(l) \/ HandlerTask(l)
      PROVE  LocksExclude'
  BY <1>4, HandlersLeaveLinks DEF LocksExclude
<1>5. CASE MonitorTask
  BY <1>5, MonitorLeavesTasks DEF LocksExclude
<1>6. CASE UNCHANGED vars
  BY <1>6 DEF vars, LocksExclude
<1> QED
  BY <1>1, <1>2, <1>3, <1>4, <1>5, <1>6 DEF Next

LEMMA LocksExcludeAlways == Spec => []LocksExclude
<1>1. Init => LocksExclude
  BY DEF Init, LocksExclude, HoldsAt
<1>2. TypeInv /\ LocksExclude /\ [Next]_vars => LocksExclude'
  BY LocksExcludeStep
<1> QED
  BY <1>1, <1>2, TypeInvAlways, PTL DEF Spec

LEMMA HoldersBlock ==
    ASSUME LocksExclude, NEW k \in Links, HoldsAt(pc[k]) # {}, Blocked(k)
    PROVE  WaitCycle \/ \E j \in Links : HoldsAt(pc[j]) # {} /\ ~Blocked(j)
<1>1. PICK lock \in WaitsAt(pc[k]), j \in Links : lock \in HoldsAt(pc[j])
  BY DEF Blocked, Free
<1>2. CASE pc[k] = "sweepNr"
  BY <1>1, <1>2 DEF WaitCycle, WaitsAt, HoldsAt
<1>3. CASE pc[k] = "sweepPm"
  BY <1>1, <1>3 DEF LocksExclude, WaitsAt, HoldsAt
<1>4. CASE pc[k] = "broadcast"
  BY <1>1, <1>4 DEF WaitCycle, WaitsAt, HoldsAt
<1>5. CASE pc[k] = "retireSessions"
  <2>1. CASE pc[j] = "sweepNr"
    BY <1>1, <1>5, <2>1 DEF WaitCycle, WaitsAt, HoldsAt
  <2>2. CASE pc[j] = "sweepPm"
    <3>1. ~Blocked(j)
      BY <1>1, <1>5, <2>2 DEF Blocked, Free, LocksExclude, WaitsAt, HoldsAt
    <3> QED
      BY <2>2, <3>1 DEF HoldsAt
  <2> QED
    BY <1>1, <1>5, <2>1, <2>2 DEF WaitsAt, HoldsAt
<1> QED
  BY <1>2, <1>3, <1>4, <1>5 DEF HoldsAt

\* Two tasks that wait for each other are the only way this host can lock up: in
\* any other state, whoever waits for a lock waits for a task that can go on.
THEOREM OnlyPairsBlockEver == Spec => []OnlyPairsBlock
<1>1. LocksExclude => OnlyPairsBlock
  <2> SUFFICES ASSUME LocksExclude, NEW l \in Links, Blocked(l)
               PROVE  WaitCycle \/ \E k \in Links : HoldsAt(pc[k]) # {} /\ ~Blocked(k)
    BY DEF OnlyPairsBlock
  <2>1. PICK k \in Links : HoldsAt(pc[k]) # {}
    BY DEF Blocked, Free
  <2> QED
    BY <2>1, HoldersBlock
<1> QED
  BY <1>1, LocksExcludeAlways, PTL

-----------------------------------------------------------------------------
(* A host without nodes *)

\* Only the links of nodes retire a registration or broadcast with node_registry
\* locked: a host that serves clients only never locks up.
THEOREM ClientsNeverBlockEachOther ==
    ASSUME Nodes = {}
    PROVE  Spec => []~WaitCycle
<1>1. TypeInv => ~WaitCycle
  BY DEF TypeInv, LinksOK, WaitCycle, WaitsAt, HoldsAt
<1> QED
  BY <1>1, TypeInvAlways, PTL
=============================================================================
