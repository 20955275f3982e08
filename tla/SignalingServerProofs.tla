------------------------ MODULE SignalingServerProofs ------------------------
(***************************************************************************)
(* Theorems about the signaling server, for any number of hosts, clients   *)
(* and connections, and any messages.                                      *)
(***************************************************************************)
EXTENDS SignalingServer, FiniteSetTheorems, TLAPS

Offers == {m \in Data : m.kind = "offer"}

\* What a connection's handler remembers is what the place it is at needs, and
\* only the tasks of hosts do what hosts do.
JobOK ==
    \A c \in Conns :
        /\ pc[c] \in {"registering", "offline", "sendOffline", "acl"}
               => OwnerOf[c] \in Hosts
        /\ pc[c] = "new" => job[c].list = {}
        /\ pc[c] = "unsubscribe" => OwnerOf[c] \in Clients
        /\ pc[c] = "acl" => job[c].msg \in [kind : {"acl"}, acl : SUBSET Clients]
        /\ pc[c] = "verify" => /\ job[c].msg \in Data
                               /\ job[c].msg.kind = "offer"
                                      => OwnerOf[c] \in Clients
        /\ pc[c] \in {"pend", "relay"} => /\ OwnerOf[c] \in Clients
                                          /\ job[c].msg \in Offers

TypeInv == TypeOK /\ JobOK

-----------------------------------------------------------------------------
(* The types *)

LEMMA TypeInvInit == Init => TypeInv
BY SignalingAssumption DEF Init, TypeInv, TypeOK, JobOK, PcStates, PeerEntry,
   NoEntry, Job, NoJob, Peers

LEMMA NoJobType == NoJob \in Job
BY DEF NoJob, Job

\* One field of a record changes.
LEMMA JobField ==
    ASSUME NEW j \in Job
    PROVE  /\ \A m \in Message : [j EXCEPT !.msg = m] \in Job
           /\ \A list \in SUBSET Clients : [j EXCEPT !.list = list] \in Job
           /\ \A k \in Conns \cup {NoConn} : [j EXCEPT !.target = k] \in Job
BY DEF Job

LEMMA EntryField ==
    ASSUME NEW e \in PeerEntry
    PROVE  /\ \A a \in SUBSET Clients : [e EXCEPT !.acl = a] \in PeerEntry
           /\ \A a \in SUBSET Clients : [e EXCEPT !.pending = a] \in PeerEntry
           /\ \A a \in SUBSET Clients : [e EXCEPT !.expired = a] \in PeerEntry
           /\ \A n \in Nat : [e EXCEPT !.last = n] \in PeerEntry
BY DEF PeerEntry

\* The presences to send are for connections.
LEMMA UpdatesType ==
    ASSUME NEW map \in [Peers -> PeerEntry], NEW hst \in Hosts,
           NEW list \in SUBSET Clients
    PROVE  Updates(map, hst, list) \in SUBSET (Conns \X BOOLEAN)
  <1>1. ASSUME NEW x \in list, map[x].conn # NoConn
        PROVE  map[x].conn \in Conns
    BY <1>1 DEF PeerEntry, Peers
  <1>2. \A x : PresenceIn(map, hst, x) \in BOOLEAN
    BY Zenon DEF PresenceIn
  <1> HIDE DEF PresenceIn
  <1> QED
    BY <1>1, <1>2 DEF Updates

\* What a peer sends is a message, and who sends what.
TypeInvSent(c, m) ==
    /\ m.kind \in {"offer", "answer", "ice"} =>
           m \in Data /\ m.seq = sent[c] + 1
    /\ m.kind = "acl" => m \in [kind : {"acl"}, acl : SUBSET Clients]
    /\ m.kind = "subscribe" => m \in [kind : {"subscribe"}, to : Hosts]
    /\ m.kind \in {"offer", "subscribe"} => OwnerOf[c] \in Clients
    /\ m.kind = "acl" => OwnerOf[c] \in Hosts

LEMMA SentType ==
    ASSUME sent \in [Conns -> Nat], NEW c \in Conns, NEW m \in Sent(c)
    PROVE  TypeInvSent(c, m)
  <1> USE DEF TypeInvSent
  <1>1. sent[c] + 1 \in Nat
    OBVIOUS
  <1>2. OwnerOf[c] \in Hosts \/ (OwnerOf[c] \in Clients /\ OwnerOf[c] \notin Hosts)
    BY SignalingAssumption DEF Peers
  <1>3. CASE OwnerOf[c] \in Hosts
    BY <1>1, <1>3, SignalingAssumption DEF Sent, SeqAt, Data, Peers
  <1>4. CASE OwnerOf[c] \in Clients /\ OwnerOf[c] \notin Hosts
    BY <1>1, <1>4, SignalingAssumption DEF Sent, SeqAt, Data, Peers
  <1> QED
    BY <1>2, <1>3, <1>4

\* Everything TypeInv says but what the history of overlaps is.
Typed ==
    /\ pc \in [Conns -> PcStates]
    /\ entry \in [Peers -> PeerEntry]
    /\ subs \in [Hosts -> SUBSET Clients]
    /\ sent \in [Conns -> Nat]
    /\ silent \subseteq Conns
    /\ job \in [Conns -> Job]
    /\ told \in [Conns -> [Hosts -> {"unknown", "online", "offline"}]]
    /\ asked \in [Conns -> SUBSET Hosts]
    /\ offered \in [Conns -> SUBSET Clients]
    /\ lapsed \in [Conns -> SUBSET Clients]
    /\ refused \subseteq Conns
    /\ JobOK

LEMMA FanOutType ==
    ASSUME Typed, NEW c \in Conns, NEW p \in {"announce", "fan"},
           NEW todo \in SUBSET (Conns \X BOOLEAN), FanOut(c, p, todo)
    PROVE  /\ pc' \in [Conns -> PcStates] /\ job' \in [Conns -> Job]
           /\ \A k \in Conns \ {c} : pc'[k] = pc[k] /\ job'[k] = job[k]
           /\ pc'[c] \in {"up", "announce", "fan"}
  <1>1. [NoJob EXCEPT !.todo = todo] \in Job
    BY DEF NoJob, Job
  <1> QED
    BY <1>1 DEF FanOut, Goto, Typed, PcStates

LEMMA ClosedType ==
    ASSUME Typed, NEW c \in Conns,
           NEW sends \in [Conns -> [Hosts -> {"unknown", "online", "offline"}]],
           Closed(c, sends), UNCHANGED <<entry, silent, sent, refused>>,
           subs' \in [Hosts -> SUBSET Clients]
    PROVE  Typed'
BY NoJobType DEF Closed, Goto, Typed, PcStates, JobOK

LEMMA StepTyped ==
    ASSUME Typed, Step
    PROVE  Typed'
<1>p. pc \in [Conns -> PcStates]
    BY DEF Typed
<1>e. entry \in [Peers -> PeerEntry]
    BY DEF Typed
<1>s. subs \in [Hosts -> SUBSET Clients]
    BY DEF Typed
<1>j. job \in [Conns -> Job] /\ JobOK
    BY DEF Typed
<1>t. told \in [Conns -> [Hosts -> {"unknown", "online", "offline"}]]
    BY DEF Typed
<1>h. /\ asked \in [Conns -> SUBSET Hosts] /\ offered \in [Conns -> SUBSET Clients]
      /\ lapsed \in [Conns -> SUBSET Clients] /\ refused \subseteq Conns
    BY DEF Typed
<1>n. sent \in [Conns -> Nat] /\ silent \subseteq Conns
    BY DEF Typed
<1>o. \A c \in Conns : OwnerOf[c] \in Peers
    BY SignalingAssumption
<1>1. ASSUME NEW c \in Conns, Register(c) PROVE Typed'
    <2>1. job[c] \in Job /\ subs[OwnerOf[c]] \in SUBSET Clients
      BY <1>1, <1>j, <1>s DEF Register
    <2>2. [job[c] EXCEPT !.list = subs[OwnerOf[c]]] \in Job
      BY <2>1, JobField
    <2>3. job' \in [Conns -> Job]
      BY <1>1, <1>j, <2>2 DEF Register
    <2>4. JobOK'
      BY <1>1, <1>p, <1>j DEF Register, Goto, JobOK
    <2> QED
      BY <1>1, <2>3, <2>4 DEF Register, Typed, Goto, PcStates, peerVars, historyVars
<1>2. ASSUME NEW c \in Conns, Enter(c) PROVE Typed'
    <2>1. entry' \in [Peers -> PeerEntry]
      BY <1>2, <1>e DEF Enter, PeerEntry, NoEntry
    <2>2. Updates(entry', OwnerOf[c], job[c].list) \in SUBSET (Conns \X BOOLEAN)
      <3>1. job[c].list \in SUBSET Clients
        BY <1>j DEF Job
      <3>2. CASE OwnerOf[c] \in Hosts
        BY <2>1, <3>1, <3>2, UpdatesType
      <3>3. CASE OwnerOf[c] \notin Hosts
        <4>1. job[c].list = {}
          BY <1>2, <1>j, <3>3 DEF Enter, JobOK
        <4> QED
          BY <4>1 DEF Updates
      <3> QED
        BY <3>2, <3>3
    <2>3. FanOut(c, "announce", Updates(entry', OwnerOf[c], job[c].list))
      BY <1>2 DEF Enter
    <2>4. /\ pc' \in [Conns -> PcStates] /\ job' \in [Conns -> Job]
          /\ \A k \in Conns \ {c} : pc'[k] = pc[k] /\ job'[k] = job[k]
          /\ pc'[c] \in {"up", "announce", "fan"}
      BY <2>2, <2>3, FanOutType
    <2>5. JobOK'
      BY <1>j, <2>4 DEF JobOK
    <2> QED
      BY <1>2, <2>1, <2>4, <2>5 DEF Enter, Typed, peerVars, historyVars
<1>3. ASSUME NEW c \in Conns, NEW k \in Conns, NEW online \in BOOLEAN,
             Tell(c, k, online)
      PROVE  Typed'
    <2> DEFINE left == IF Alive(k) \/ pc[c] = "announce"
                       THEN job[c].todo \ {<<k, online>>} ELSE {}
    <2>1. left \in SUBSET (Conns \X BOOLEAN)
      BY <1>j DEF Job
    <2>2. FanOut(c, pc[c], left) /\ pc[c] \in {"announce", "fan"}
      BY <1>3 DEF Tell
    <2> HIDE DEF left
    <2>3. /\ pc' \in [Conns -> PcStates] /\ job' \in [Conns -> Job]
          /\ \A i \in Conns \ {c} : pc'[i] = pc[i] /\ job'[i] = job[i]
          /\ pc'[c] \in {"up", "announce", "fan"}
      BY <2>1, <2>2, FanOutType
    <2>4. told' \in [Conns -> [Hosts -> {"unknown", "online", "offline"}]]
      BY <1>3, <1>t DEF Tell, Word
    <2>5. JobOK'
      BY <1>j, <2>3 DEF JobOK
    <2> QED
      BY <1>3, <2>3, <2>4, <2>5 DEF Tell, Typed, peerVars, historyVars
<1>4. ASSUME NEW c \in Conns, Check(c) PROVE Typed'
    <2>1. CASE entry[OwnerOf[c]].conn = c
      BY <1>4, <2>1 DEF Check, Goto, Typed, JobOK, PcStates, peerVars
    <2>2. CASE entry[OwnerOf[c]].conn # c
      BY <1>4, <1>t, <1>s, <2>2, ClosedType DEF Check, peerVars
    <2> QED
      BY <2>1, <2>2
<1>5. ASSUME NEW c \in Conns, Remove(c) PROVE Typed'
    <2>1. entry' \in [Peers -> PeerEntry]
      BY <1>5, <1>e DEF Remove, PeerEntry, NoEntry
    <2>2. JobOK'
      BY <1>5, <1>p, <1>j, <1>o DEF Remove, Goto, JobOK, Peers
    <2> QED
      BY <1>5, <2>1, <2>2 DEF Remove, Typed, Goto, PcStates, peerVars, historyVars
<1>6. ASSUME NEW c \in Conns, CopySubscribers(c) PROVE Typed'
    <2>1. job[c] \in Job /\ subs[OwnerOf[c]] \in SUBSET Clients
      BY <1>6, <1>j, <1>s DEF CopySubscribers, JobOK
    <2>2. [job[c] EXCEPT !.list = subs[OwnerOf[c]]] \in Job
      BY <2>1, JobField
    <2>3. job' \in [Conns -> Job]
      BY <1>6, <1>j, <2>2 DEF CopySubscribers
    <2>4. JobOK'
      BY <1>6, <1>p, <1>j DEF CopySubscribers, Goto, JobOK
    <2> QED
      BY <1>6, <2>3, <2>4
      DEF CopySubscribers, Typed, Goto, PcStates, peerVars, historyVars
<1>7. ASSUME NEW c \in Conns, SendOffline(c) PROVE Typed'
    <2> DEFINE reached == {entry[x].conn : x \in job[c].list}
               sends == [k \in Conns |-> IF k \in reached
                           THEN [told[k] EXCEPT ![OwnerOf[c]] = "offline"]
                           ELSE told[k]]
    <2>1. sends \in [Conns -> [Hosts -> {"unknown", "online", "offline"}]]
      BY <1>t
    <2>2. Closed(c, sends) /\ UNCHANGED <<entry, subs, silent, sent, refused>>
      BY <1>7 DEF SendOffline, peerVars
    <2> HIDE DEF sends
    <2> QED
      BY <1>s, <2>1, <2>2, ClosedType
<1>8. ASSUME NEW c \in Conns, Unsubscribe(c) PROVE Typed'
    <2>1. subs' \in [Hosts -> SUBSET Clients]
      BY <1>8, <1>s DEF Unsubscribe
    <2> QED
      BY <1>8, <1>t, <2>1, ClosedType DEF Unsubscribe, peerVars
<1>9. ASSUME NEW c \in Conns, SetAcl(c) PROVE Typed'
    <2> DEFINE host == OwnerOf[c]  list == job[c].msg.acl
    <2>1. host \in Hosts /\ list \in SUBSET Clients
      BY <1>9, <1>j DEF SetAcl, JobOK
    <2>2. job[c].list \in SUBSET Clients
      BY <1>j DEF Job
    <2>3. entry' \in [Peers -> PeerEntry]
      <3> DEFINE e == [entry[host] EXCEPT !.acl = list,
                         !.pending = KeptPending(@, list),
                         !.expired = KeptPending(@, list)]
      <3>1. e \in PeerEntry
        <4>1. entry[host] \in PeerEntry
          BY <1>e, <2>1 DEF Peers
        <4> QED
          BY <2>1, <4>1 DEF PeerEntry, KeptPending
      <3>2. entry' = entry \/ entry' = [entry EXCEPT ![host] = e]
        BY <1>9 DEF SetAcl
      <3> HIDE DEF e, host
      <3> QED
        BY <1>e, <3>1, <3>2
    <2>4. FanOut(c, "fan", Updates(entry', host, job[c].list))
      BY <1>9 DEF SetAcl
    <2>5. /\ pc' \in [Conns -> PcStates] /\ job' \in [Conns -> Job]
          /\ \A k \in Conns \ {c} : pc'[k] = pc[k] /\ job'[k] = job[k]
          /\ pc'[c] \in {"up", "announce", "fan"}
      BY <2>1, <2>2, <2>3, <2>4, UpdatesType, FanOutType
    <2>6. lapsed' \in [Conns -> SUBSET Clients]
      <3>1. entry[host].acl \ list \in SUBSET Clients
        BY <1>e, <2>1 DEF PeerEntry, Peers
      <3> QED
        BY <1>9, <1>h, <3>1 DEF SetAcl
    <2>7. JobOK'
      BY <1>j, <2>5 DEF JobOK
    <2> QED
      BY <1>9, <2>3, <2>5, <2>6, <2>7 DEF SetAcl, Typed, peerVars
<1>10. ASSUME NEW c \in Conns, Authorize(c) PROVE Typed'
    <2> DEFINE m == job[c].msg
    <2>1. m \in Data /\ (m.kind = "offer" => OwnerOf[c] \in Clients)
      BY <1>10, <1>j DEF Authorize, JobOK
    <2>2. m.seq \in Nat
      BY <2>1 DEF Data
    <2>3. entry' \in [Peers -> PeerEntry]
      <3>1. [entry[OwnerOf[c]] EXCEPT !.last = m.seq] \in PeerEntry
        BY <1>e, <1>o, <2>2, EntryField
      <3>2. entry' = entry \/ entry' = [entry EXCEPT ![OwnerOf[c]] =
                                           [@ EXCEPT !.last = m.seq]]
        BY <1>10 DEF Authorize
      <3> HIDE DEF m
      <3> QED
        BY <1>e, <1>o, <3>1, <3>2
    <2>4. \/ Ready(c)
          \/ m.kind = "offer" /\ pc' = [pc EXCEPT ![c] = "pend"] /\ job' = job
      BY <1>10 DEF Authorize, Goto
    <2>5. pc' \in [Conns -> PcStates] /\ job' \in [Conns -> Job] /\ JobOK'
      BY <1>p, <1>j, <2>1, <2>4, NoJobType DEF Ready, Goto, PcStates, Offers, JobOK
    <2>6. refused' \subseteq Conns
      BY <1>10, <1>h DEF Authorize
    <2> QED
      BY <1>10, <2>3, <2>5, <2>6 DEF Authorize, Typed, peerVars
<1>11. ASSUME NEW c \in Conns, Pend(c) PROVE Typed'
    <2> DEFINE m == job[c].msg  x == OwnerOf[c]
    <2>1. m \in Offers /\ x \in Clients /\ pc[c] = "pend"
      BY <1>11, <1>j DEF Pend, JobOK
    <2>2. m.to \in Peers
      BY <2>1 DEF Offers, Data
    <2>3. entry' \in [Peers -> PeerEntry]
      <3> DEFINE e == [entry[m.to] EXCEPT !.expired = {}]
                 f == [entry[m.to] EXCEPT !.expired = {}, !.pending = @ \cup {x}]
      <3>1. e \in PeerEntry /\ f \in PeerEntry
        BY <1>e, <2>1, <2>2 DEF PeerEntry
      <3>2. \/ entry' = entry \/ entry' = [entry EXCEPT ![m.to] = e]
            \/ entry' = [entry EXCEPT ![m.to] = f]
        BY <1>11 DEF Pend
      <3> HIDE DEF e, f, m
      <3> QED
        BY <1>e, <2>2, <3>1, <3>2
    <2>4. \/ Ready(c)
          \/ /\ pc' = [pc EXCEPT ![c] = "relay"]
             /\ job' = [job EXCEPT ![c].target = entry[m.to].conn]
      BY <1>11 DEF Pend, Goto
    <2>5. [job[c] EXCEPT !.target = entry[m.to].conn] \in Job
      <3>1. entry[m.to].conn \in Conns \cup {NoConn}
        BY <1>e, <2>2 DEF PeerEntry
      <3> QED
        BY <1>j, <3>1, JobField
    <2>6. pc' \in [Conns -> PcStates] /\ job' \in [Conns -> Job] /\ JobOK'
      <3>1. CASE Ready(c)
        BY <1>p, <1>j, <3>1, NoJobType DEF Ready, Goto, PcStates, JobOK
      <3>2. CASE /\ pc' = [pc EXCEPT ![c] = "relay"]
                 /\ job' = [job EXCEPT ![c].target = entry[m.to].conn]
        <4>1. pc' \in [Conns -> PcStates] /\ job' \in [Conns -> Job]
          BY <1>p, <1>j, <2>5, <3>2 DEF PcStates
        <4>2. job'[c].msg = m /\ \A k \in Conns \ {c} : job'[k] = job[k]
          BY <1>j, <3>2 DEF Job
        <4> QED
          BY <1>p, <1>j, <2>1, <3>2, <4>1, <4>2 DEF JobOK
      <3> QED
        BY <2>4, <3>1, <3>2
    <2> QED
      BY <1>11, <2>3, <2>6 DEF Pend, Typed, peerVars, historyVars
<1>12. ASSUME NEW c \in Conns, Relay(c) PROVE Typed'
    <2>1. OwnerOf[c] \in Clients
      BY <1>12, <1>j DEF Relay, JobOK
    <2>2. offered' \in [Conns -> SUBSET Clients]
      BY <1>12, <1>h, <2>1 DEF Relay
    <2>3. pc' \in [Conns -> PcStates] /\ job' \in [Conns -> Job] /\ JobOK'
      BY <1>12, <1>p, <1>j, NoJobType DEF Relay, Ready, Goto, PcStates, JobOK
    <2> QED
      BY <1>12, <2>2, <2>3 DEF Relay, Typed, peerVars
<1>13. ASSUME NEW c \in Conns, NEW m \in Sent(c),
              Subscribe(c, m) \/ UpdateAcl(c, m) \/ Verify(c, m)
       PROVE  Typed'
    <2>1. TypeInvSent(c, m)
      BY <1>n, SentType
    <2>2. pc[c] = "up" /\ silent' = silent /\ sent' \in [Conns -> Nat]
      BY <1>13, <1>n DEF Subscribe, UpdateAcl, Verify, Read
    <2>3. CASE Subscribe(c, m)
      <3>1. m.to \in Hosts /\ OwnerOf[c] \in Clients
        BY <2>1, <2>3 DEF TypeInvSent, Subscribe
      <3>2. subs' \in [Hosts -> SUBSET Clients]
        BY <1>s, <2>3, <3>1 DEF Subscribe
      <3>3. asked' \in [Conns -> SUBSET Hosts]
        BY <1>h, <2>3, <3>1 DEF Subscribe
      <3>4. told' \in [Conns -> [Hosts -> {"unknown", "online", "offline"}]]
        BY <1>t, <2>3, <3>1 DEF Subscribe, Word
      <3> QED
        BY <2>2, <2>3, <3>2, <3>3, <3>4 DEF Subscribe, Typed, JobOK
    <2>4. CASE UpdateAcl(c, m)
      <3>1. m \in [kind : {"acl"}, acl : SUBSET Clients] /\ OwnerOf[c] \in Hosts
        BY <2>1, <2>4 DEF TypeInvSent, UpdateAcl
      <3>2. m \in Message /\ subs[OwnerOf[c]] \in SUBSET Clients
        BY <1>s, <3>1 DEF Message, Control
      <3> DEFINE j == [job[c] EXCEPT !.msg = m, !.list = subs[OwnerOf[c]]]
      <3>3. j \in Job /\ j.msg = m
        BY <1>j, <3>2 DEF Job
      <3>4. \/ pc' = pc /\ job' = job
            \/ pc' = [pc EXCEPT ![c] = "acl"] /\ job' = [job EXCEPT ![c] = j]
        BY <2>4 DEF UpdateAcl, Goto
      <3> HIDE DEF j
      <3>5. pc' \in [Conns -> PcStates] /\ job' \in [Conns -> Job] /\ JobOK'
        BY <1>p, <1>j, <3>1, <3>3, <3>4 DEF PcStates, JobOK
      <3> QED
        BY <2>2, <2>4, <3>5 DEF UpdateAcl, Typed, historyVars
    <2>5. CASE Verify(c, m)
      <3>1. m \in Data /\ (m.kind = "offer" => OwnerOf[c] \in Clients)
        BY <2>1, <2>5 DEF TypeInvSent, Verify
      <3> DEFINE j == [job[c] EXCEPT !.msg = m]
      <3>2. j \in Job /\ j.msg = m
        BY <1>j, <3>1 DEF Job, Message
      <3>3. \/ pc' = pc /\ job' = job
            \/ pc' = [pc EXCEPT ![c] = "verify"] /\ job' = [job EXCEPT ![c] = j]
        BY <2>5 DEF Verify, Goto
      <3> HIDE DEF j
      <3>4. pc' \in [Conns -> PcStates] /\ job' \in [Conns -> Job] /\ JobOK'
        BY <1>p, <1>j, <3>1, <3>2, <3>3 DEF PcStates, JobOK
      <3> QED
        BY <2>2, <2>5, <3>4 DEF Verify, Typed, historyVars
    <2> QED
      BY <1>13, <2>3, <2>4, <2>5
<1>14. ASSUME NEW c \in Conns, GoSilent(c) PROVE Typed'
    BY <1>14 DEF GoSilent, Typed, JobOK, historyVars
<1>15. ASSUME NEW hst \in Hosts, NEW x \in Clients, Expire(hst, x) PROVE Typed'
    <2> DEFINE f == [entry[hst] EXCEPT !.pending = @ \ {x}, !.expired = @ \cup {x}]
    <2>1. f \in PeerEntry
      <3>1. entry[hst] \in PeerEntry
        BY <1>e DEF Peers
      <3> QED
        BY <3>1 DEF PeerEntry
    <2>2. entry' = [entry EXCEPT ![hst] = f]
      BY <1>15 DEF Expire
    <2> HIDE DEF f
    <2>3. entry' \in [Peers -> PeerEntry]
      BY <1>e, <2>1, <2>2
    <2>4. lapsed' \in [Conns -> SUBSET Clients]
      BY <1>15, <1>h DEF Expire
    <2> QED
      BY <1>15, <2>3, <2>4 DEF Expire, Typed, JobOK, peerVars
<1>16. \A c \in Conns : Leave(c) \/ TimeOut(c) => Check(c)
    BY DEF Leave, TimeOut
<1> QED
  <2>1. ASSUME NEW c \in Conns, ConnTask(c) PROVE Typed'
    BY <1>1, <1>2, <1>3, <1>4, <1>5, <1>6, <1>7, <1>8, <1>9, <1>10, <1>11,
       <1>12, <1>16, <2>1 DEF ConnTask
  <2>2. ASSUME NEW c \in Conns, Receive(c) PROVE Typed'
    BY <1>13, <2>2 DEF Receive
  <2> QED
    BY <1>4, <1>14, <1>15, <1>16, <2>1, <2>2 DEF Step

LEMMA TypeInvStep == TypeInv /\ [Next]_vars => TypeInv'
<1> SUFFICES ASSUME TypeInv, [Next]_vars PROVE TypeInv'
    OBVIOUS
<1>1. TypeInv <=> Typed /\ crossed \subseteq Peers
    BY DEF TypeInv, TypeOK, Typed
<1>2. TypeInv' <=> Typed' /\ crossed' \subseteq Peers
    BY DEF TypeInv, TypeOK, Typed
<1>3. CASE Next
  <2>1. Typed'
    BY <1>1, <1>3, StepTyped DEF Next
  <2>2. crossed' \subseteq Peers
    BY <1>1, <1>3 DEF Next, Overlap, Peers
  <2> QED
    BY <1>2, <2>1, <2>2
<1>4. CASE UNCHANGED vars
    BY <1>1, <1>2, <1>4 DEF Typed, JobOK, vars, peerVars, historyVars
<1> QED
    BY <1>3, <1>4

\* TypeOK holds whatever the peers send and however connections end.
THEOREM TypeCorrect == Spec => []TypeOK
<1>1. TypeInv => TypeOK
    BY DEF TypeInv
<1> QED
    BY <1>1, TypeInvInit, TypeInvStep, PTL DEF Spec

-----------------------------------------------------------------------------
(* The map of peers *)

\* Only a registration and a removal change whose connections the map lists.
LEMMA ConnKept ==
    ASSUME Typed, Step, \A c \in Conns : ~Enter(c) /\ ~Remove(c)
    PROVE  \A p \in Peers : entry'[p].conn = entry[p].conn
<1>e. entry \in [Peers -> PeerEntry]
    BY DEF Typed
<1>1. ASSUME NEW c \in Conns, ConnTask(c)
      PROVE  \A p \in Peers : entry'[p].conn = entry[p].conn
    <2>1. CASE SetAcl(c)
      BY <1>e, <2>1 DEF SetAcl, PeerEntry
    <2>2. CASE Authorize(c)
      BY <1>e, <2>2 DEF Authorize, PeerEntry
    <2>3. CASE Pend(c)
      BY <1>e, <2>3 DEF Pend, PeerEntry
    <2>4. CASE UNCHANGED entry
      BY <2>4
    <2> QED
      BY <1>1, <2>1, <2>2, <2>3, <2>4
      DEF ConnTask, Register, Tell, TimeOut, Check, CopySubscribers,
          SendOffline, Unsubscribe, Relay
<1>2. ASSUME NEW hst \in Hosts, NEW x \in Clients, Expire(hst, x)
      PROVE  \A p \in Peers : entry'[p].conn = entry[p].conn
    BY <1>e, <1>2 DEF Expire, PeerEntry
<1>3. CASE UNCHANGED entry
    BY <1>3
<1> QED
    BY <1>1, <1>2, <1>3
    DEF Step, Receive, Subscribe, UpdateAcl, Verify, Leave, Check, GoSilent

Entered == {"new", "registering"}
Left    == {"offline", "sendOffline", "unsubscribe", "closed"}

\* A task enters the map by Enter, and leaves it by Remove or because it was
\* replaced.
LEMMA PcSteps ==
    ASSUME Typed, Step, NEW k \in Conns
    PROVE  /\ pc'[k] \in Entered => pc[k] \in Entered
           /\ (pc[k] \in Entered /\ pc'[k] \notin Entered) => Enter(k)
           /\ (pc'[k] \in Left /\ pc[k] \notin Left) =>
                   Remove(k) \/ entry[OwnerOf[k]].conn # k
<1> DEFINE Goal == /\ pc'[k] \in Entered => pc[k] \in Entered
                   /\ (pc[k] \in Entered /\ pc'[k] \notin Entered) => Enter(k)
                   /\ (pc'[k] \in Left /\ pc[k] \notin Left) =>
                          Remove(k) \/ entry[OwnerOf[k]].conn # k
<1> USE DEF Entered, Left, Goto
<1>p. pc \in [Conns -> PcStates]
    BY DEF Typed
<1>1. ASSUME NEW c \in Conns, ConnTask(c) PROVE Goal
    <2>1. CASE Register(c) \/ Enter(c) \/ Remove(c)
      BY <1>p, <2>1 DEF Register, Enter, Remove, FanOut
    <2>2. CASE \E i \in Conns, online \in BOOLEAN : Tell(c, i, online)
      BY <1>p, <2>2 DEF Tell, FanOut
    <2>3. CASE TimeOut(c) \/ CopySubscribers(c) \/ SendOffline(c) \/ Unsubscribe(c)
      BY <1>p, <2>3
      DEF TimeOut, Check, CopySubscribers, SendOffline, Unsubscribe, Closed
    <2>4. CASE SetAcl(c)
      BY <1>p, <2>4 DEF SetAcl, FanOut
    <2>5. CASE Authorize(c) \/ Pend(c) \/ Relay(c)
      BY <1>p, <2>5 DEF Authorize, Pend, Relay, Ready
    <2> QED
      BY <1>1, <2>1, <2>2, <2>3, <2>4, <2>5 DEF ConnTask
<1>2. ASSUME NEW c \in Conns, Receive(c) PROVE Goal
    BY <1>p, <1>2 DEF Receive, Subscribe, UpdateAcl, Verify, Read
<1>3. ASSUME NEW c \in Conns, Leave(c) PROVE Goal
    BY <1>p, <1>3 DEF Leave, Check, Closed
<1>4. CASE UNCHANGED pc
    BY <1>4
<1> QED
    BY <1>1, <1>2, <1>3, <1>4 DEF Step, GoSilent, Expire

LEMMA NoGhostStep ==
    ASSUME Typed, NoGhostEntry, Step
    PROVE  NoGhostEntry'
<1> SUFFICES ASSUME NEW p \in Peers, entry'[p].conn # NoConn
             PROVE  /\ OwnerOf[entry'[p].conn] = p
                    /\ pc'[entry'[p].conn] \notin Entered \cup Left
    BY DEF NoGhostEntry, Listed, Entered, Left
<1>e. entry \in [Peers -> PeerEntry] /\ entry' \in [Peers -> PeerEntry]
    BY StepTyped DEF Typed
<1>p. pc \in [Conns -> PcStates]
    BY DEF Typed
<1>1. ASSUME entry'[p].conn = entry[p].conn, \A c \in Conns : ~Enter(c)
      PROVE  /\ OwnerOf[entry'[p].conn] = p
             /\ pc'[entry'[p].conn] \notin Entered \cup Left
    <2> DEFINE k == entry[p].conn
    <2>1. k \in Conns /\ OwnerOf[k] = p /\ pc[k] \notin Entered \cup Left
      BY <1>e, <1>1 DEF NoGhostEntry, Listed, Entered, Left, PeerEntry
    <2>2. ~Remove(k)
      BY <1>e, <1>1, <2>1 DEF Remove, NoEntry
    <2> QED
      BY <1>1, <2>1, <2>2, PcSteps
<1>2. ASSUME NEW c \in Conns, Enter(c)
      PROVE  /\ OwnerOf[entry'[p].conn] = p
             /\ pc'[entry'[p].conn] \notin Entered \cup Left
    <2>1. CASE p = OwnerOf[c]
      <3>1. entry'[p].conn = c
        BY <1>e, <1>2, <2>1 DEF Enter, NoEntry
      <3>2. pc'[c] \in {"up", "announce"}
        BY <1>p, <1>2 DEF Enter, FanOut, Goto
      <3> QED
        BY <2>1, <3>1, <3>2 DEF Entered, Left
    <2>2. CASE p # OwnerOf[c]
      <3> DEFINE k == entry[p].conn
      <3>1. entry'[p] = entry[p]
        BY <1>e, <1>2, <2>2 DEF Enter
      <3>2. k \in Conns /\ OwnerOf[k] = p /\ pc[k] \notin Entered \cup Left
        BY <1>e, <3>1 DEF NoGhostEntry, Listed, Entered, Left, PeerEntry
      <3>3. k # c
        BY <2>2, <3>2
      <3>4. pc'[k] = pc[k]
        BY <1>p, <1>2, <3>2, <3>3 DEF Enter, FanOut, Goto
      <3> QED
        BY <3>1, <3>2, <3>4
    <2> QED
      BY <2>1, <2>2
<1>3. ASSUME NEW c \in Conns, Remove(c), \A k \in Conns : ~Enter(k)
      PROVE  entry'[p].conn = entry[p].conn
    BY <1>e, <1>3 DEF Remove, NoEntry
<1> QED
    BY <1>1, <1>2, <1>3, ConnKept

MapInv == TypeInv /\ NoGhostEntry

LEMMA MapInvStep == MapInv /\ [Next]_vars => MapInv'
<1> SUFFICES ASSUME MapInv, [Next]_vars PROVE NoGhostEntry'
    BY TypeInvStep DEF MapInv
<1>1. CASE Next
    BY <1>1, NoGhostStep DEF Next, MapInv, TypeInv, TypeOK, Typed
<1>2. CASE UNCHANGED vars
    BY <1>2 DEF vars, MapInv, NoGhostEntry, Listed
<1> QED
    BY <1>1, <1>2

\* However connections register, replace each other and end, the map lists a
\* peer's own connection, whose task will take it out.
THEOREM NoGhostIsLeft == Spec => []NoGhostEntry
<1>1. Init => MapInv
    BY TypeInvInit, SignalingAssumption DEF Init, MapInv, NoGhostEntry, Listed, NoEntry
<1>2. MapInv => NoGhostEntry
    BY DEF MapInv
<1> QED
    BY <1>1, <1>2, MapInvStep, PTL DEF Spec

-----------------------------------------------------------------------------
(* Pairing windows *)

PendingInv == \A x \in Hosts : /\ IsFiniteSet(entry[x].pending)
                               /\ Cardinality(entry[x].pending) <= MaxPending

LEMMA PendingStep ==
    ASSUME Typed, PendingInv, Step
    PROVE  PendingInv'
<1> SUFFICES ASSUME NEW x \in Hosts
             PROVE  /\ IsFiniteSet(entry'[x].pending)
                    /\ Cardinality(entry'[x].pending) <= MaxPending
    BY DEF PendingInv
<1> DEFINE old == entry[x].pending
           Bounded(S) == IsFiniteSet(S) /\ Cardinality(S) <= MaxPending
<1>e. entry \in [Peers -> PeerEntry] /\ x \in Peers
    BY DEF Typed, Peers
<1>b. Bounded(old) /\ Cardinality(old) \in Nat /\ MaxPending \in Nat
    BY FS_CardinalityType, SignalingAssumption DEF PendingInv
<1>1. ASSUME NEW S, S \subseteq old PROVE Bounded(S)
    <2>1. IsFiniteSet(S) /\ Cardinality(S) <= Cardinality(old)
      BY <1>b, <1>1, FS_Subset
    <2>2. Cardinality(S) \in Nat
      BY <2>1, FS_CardinalityType
    <2> QED
      BY <1>b, <2>1, <2>2
<1>2. Bounded({})
    BY <1>1
<1> HIDE DEF old, Bounded
<1>3. ASSUME NEW c \in Conns, ConnTask(c) PROVE Bounded(entry'[x].pending)
    <2>1. CASE Enter(c) \/ Remove(c)
      BY <1>e, <1>b, <1>2, <2>1 DEF Enter, Remove, NoEntry, old
    <2>2. CASE SetAcl(c)
      <3>1. entry'[x].pending \subseteq old
        BY <1>e, <2>2 DEF SetAcl, PeerEntry, KeptPending, old
      <3> QED
        BY <1>1, <3>1
    <2>3. CASE Authorize(c)
      <3>1. entry'[x].pending = old
        BY <1>e, <2>3 DEF Authorize, PeerEntry, old
      <3> QED
        BY <1>b, <3>1
    <2>4. CASE Pend(c)
      <3>1. \/ entry'[x].pending = old
            \/ /\ entry'[x].pending = old \cup {OwnerOf[c]}
               /\ OwnerOf[c] \in old \/ ~(Cardinality(old) >= MaxPending)
        BY <1>e, <2>4 DEF Pend, PeerEntry, old
      <3>2. CASE entry'[x].pending = old
        BY <1>b, <3>2
      <3>3. CASE /\ entry'[x].pending = old \cup {OwnerOf[c]}
                 /\ OwnerOf[c] \in old \/ ~(Cardinality(old) >= MaxPending)
        <4>1. IsFiniteSet(old)
          BY <1>b DEF Bounded
        <4>2. /\ IsFiniteSet(old \cup {OwnerOf[c]})
              /\ Cardinality(old \cup {OwnerOf[c]}) =
                    IF OwnerOf[c] \in old THEN Cardinality(old)
                    ELSE Cardinality(old) + 1
          BY <4>1, FS_AddElement
        <4> QED
          BY <1>b, <3>3, <4>2 DEF Bounded
      <3> QED
        BY <3>1, <3>2, <3>3
    <2>5. CASE UNCHANGED entry
      BY <1>b, <2>5 DEF old
    <2> QED
      BY <1>3, <2>1, <2>2, <2>3, <2>4, <2>5
      DEF ConnTask, Register, Tell, TimeOut, Check, CopySubscribers,
          SendOffline, Unsubscribe, Relay
<1>4. ASSUME NEW hst \in Hosts, NEW y \in Clients, Expire(hst, y)
      PROVE  Bounded(entry'[x].pending)
    <2>1. entry'[x].pending \subseteq old
      BY <1>e, <1>4 DEF Expire, PeerEntry, old
    <2> QED
      BY <1>1, <2>1
<1>5. ASSUME UNCHANGED entry PROVE Bounded(entry'[x].pending)
    BY <1>b, <1>5 DEF old
<1>6. Bounded(entry'[x].pending)
    BY <1>3, <1>4, <1>5
    DEF Step, Receive, Subscribe, UpdateAcl, Verify, Leave, Check, GoSilent
<1> QED
    BY <1>6 DEF Bounded

\* The queue of clients that wait for a host has its limit, however many of
\* their offers are handled at once.
THEOREM PendingIsBounded == Spec => []PendingBounded
<1> DEFINE Inv == TypeInv /\ PendingInv
<1>1. Init => Inv
    <2>1. ASSUME Init, NEW x \in Hosts PROVE entry[x].pending = {}
      BY <2>1 DEF Init, NoEntry, Peers
    <2>2. IsFiniteSet({}) /\ Cardinality({}) <= MaxPending
      BY FS_EmptySet, SignalingAssumption
    <2> QED
      BY <2>1, <2>2, TypeInvInit DEF PendingInv
<1>2. Inv /\ [Next]_vars => Inv'
    <2> SUFFICES ASSUME Inv, [Next]_vars PROVE PendingInv'
      BY TypeInvStep
    <2>1. CASE Next
      BY <2>1, PendingStep DEF Next, TypeInv, TypeOK, Typed
    <2>2. CASE UNCHANGED vars
      BY <2>2 DEF vars, PendingInv
    <2> QED
      BY <2>1, <2>2
<1>3. Inv => PendingBounded
    BY DEF PendingInv, PendingBounded
<1> QED
    BY <1>1, <1>2, <1>3, PTL DEF Spec

\* Whom a private host may answer, and whom it may have been told of in vain.
Known(x) == entry[x].acl \cup entry[x].pending \cup lapsed[entry[x].conn]

\* What a host may answer is only lost with a record of it.
LEMMA KnownKept ==
    ASSUME Typed, NoGhostEntry, Step, NEW x \in Hosts,
           entry[x].conn \in Conns, entry'[x].conn = entry[x].conn
    PROVE  Known(x) \subseteq Known(x)'
<1> DEFINE k == entry[x].conn
<1>e. entry \in [Peers -> PeerEntry] /\ x \in Peers
    BY DEF Typed, Peers
<1>l. lapsed \in [Conns -> SUBSET Clients] /\ k \in Conns
    BY DEF Typed
<1>k. k # NoConn /\ OwnerOf[k] = x /\ pc[k] \notin Entered \cup Left
    BY <1>e, SignalingAssumption DEF NoGhostEntry, Listed, Entered, Left
<1>1. ASSUME entry'[x] = entry[x], lapsed[k] \subseteq lapsed'[k]
      PROVE  Known(x) \subseteq Known(x)'
    BY <1>1 DEF Known
<1>2. ASSUME NEW c \in Conns, c # k, NEW sends, Closed(c, sends), entry' = entry
      PROVE  Known(x) \subseteq Known(x)'
    BY <1>l, <1>2, <1>1 DEF Closed
<1>3. ASSUME NEW c \in Conns, ConnTask(c) PROVE Known(x) \subseteq Known(x)'
    <2>1. CASE Enter(c) \/ Remove(c)
      <3>1. entry'[x] = entry[x]
        <4>1. CASE Enter(c)
          <5>1. c # k
            BY <1>k, <4>1 DEF Enter, Entered
          <5>2. OwnerOf[c] # x
            BY <1>e, <4>1, <5>1 DEF Enter, NoEntry
          <5> QED
            BY <1>e, <4>1, <5>2 DEF Enter
        <4>2. CASE Remove(c)
          BY <1>e, <1>k, <4>2 DEF Remove, NoEntry
        <4> QED
          BY <2>1, <4>1, <4>2
      <3>2. lapsed' = lapsed
        BY <2>1 DEF Enter, Remove, historyVars
      <3> QED
        BY <1>1, <3>1, <3>2
    <2>2. CASE TimeOut(c)
      <3>1. CASE entry[OwnerOf[c]].conn = c
        BY <1>1, <2>2, <3>1 DEF TimeOut, Check
      <3>2. CASE entry[OwnerOf[c]].conn # c
        <4>1. c # k
          BY <1>k, <3>2
        <4> QED
          BY <1>2, <2>2, <3>2, <4>1 DEF TimeOut, Check
      <3> QED
        BY <3>1, <3>2
    <2>3. CASE SendOffline(c) \/ Unsubscribe(c)
      <3>1. c # k
        BY <1>k, <2>3 DEF SendOffline, Unsubscribe, Left
      <3> QED
        BY <1>2, <2>3, <3>1 DEF SendOffline, Unsubscribe
    <2>4. CASE SetAcl(c)
      <3>1. CASE OwnerOf[c] = x /\ Listed(x)
        <4> DEFINE acl == job[c].msg.acl
        <4>1. /\ entry'[x].acl = acl
              /\ entry'[x].pending = entry[x].pending \ acl
          BY <1>e, <2>4, <3>1 DEF SetAcl, PeerEntry, KeptPending
        <4>2. lapsed'[k] = lapsed[k] \cup (entry[x].acl \ acl)
          BY <1>l, <2>4, <3>1 DEF SetAcl
        <4> QED
          BY <4>1, <4>2 DEF Known
      <3>2. CASE ~(OwnerOf[c] = x /\ Listed(x))
        <4>1. entry'[x] = entry[x]
          BY <1>e, <2>4, <3>2 DEF SetAcl
        <4>2. lapsed[k] \subseteq lapsed'[k]
          BY <1>l, <2>4 DEF SetAcl
        <4> QED
          BY <1>1, <4>1, <4>2
      <3> QED
        BY <3>1, <3>2
    <2>5. CASE Authorize(c)
      BY <1>e, <1>l, <2>5 DEF Authorize, PeerEntry, Known
    <2>6. CASE Pend(c)
      BY <1>e, <1>l, <2>6 DEF Pend, PeerEntry, Known, historyVars
    <2>7. CASE UNCHANGED <<entry, lapsed>>
      BY <1>1, <2>7
    <2> QED
      BY <1>3, <2>1, <2>2, <2>3, <2>4, <2>5, <2>6, <2>7
      DEF ConnTask, Register, Tell, CopySubscribers, Relay, historyVars
<1>4. ASSUME NEW c \in Conns, Leave(c) PROVE Known(x) \subseteq Known(x)'
    <2>1. CASE entry[OwnerOf[c]].conn = c
      BY <1>1, <1>4, <2>1 DEF Leave, Check
    <2>2. CASE entry[OwnerOf[c]].conn # c
      <3>1. c # k
        BY <1>k, <2>2
      <3> QED
        BY <1>2, <1>4, <2>2, <3>1 DEF Leave, Check
    <2> QED
      BY <2>1, <2>2
<1>5. ASSUME NEW hst \in Hosts, NEW y \in Clients, Expire(hst, y)
      PROVE  Known(x) \subseteq Known(x)'
    BY <1>e, <1>l, <1>5 DEF Expire, PeerEntry, Known
<1>6. CASE UNCHANGED <<entry, lapsed>>
    BY <1>1, <1>6
<1> QED
    BY <1>3, <1>4, <1>5, <1>6
    DEF Step, Receive, Subscribe, UpdateAcl, Verify, GoSilent, historyVars

\* An Offer about to be relayed was checked with an entry whose connection is
\* not new, and if that is still the host's the window is there.
RelayOK ==
    \A c \in Conns : pc[c] = "relay" =>
        /\ job[c].target \in Conns /\ pc[job[c].target] \notin Entered
        /\ \A x \in Hosts \ Public :
              (job[c].msg.to = x /\ entry[x].conn = job[c].target)
                  => OwnerOf[c] \in Known(x)

OfferedOK ==
    /\ \A k \in Conns : pc[k] \in Entered => offered[k] = {}
    /\ \A x \in Hosts \ Public : Listed(x) =>
           offered[entry[x].conn] \subseteq Known(x)

\* A relay was prepared by Pend, and what it keeps does not change.
LEMMA RelaySteps ==
    ASSUME Typed, Step, NEW c \in Conns, pc'[c] = "relay", ~Pend(c)
    PROVE  pc[c] = "relay" /\ job'[c] = job[c]
<1> USE DEF Goto
<1>p. pc \in [Conns -> PcStates] /\ job \in [Conns -> Job]
    BY DEF Typed
<1>1. ASSUME NEW d \in Conns, ConnTask(d)
      PROVE  pc[c] = "relay" /\ job'[c] = job[c]
    <2>1. CASE Register(d) \/ Enter(d) \/ Remove(d) \/ SetAcl(d)
      BY <1>p, <2>1 DEF Register, Enter, Remove, SetAcl, FanOut
    <2>2. CASE \E i \in Conns, online \in BOOLEAN : Tell(d, i, online)
      BY <1>p, <2>2 DEF Tell, FanOut
    <2>3. CASE TimeOut(d) \/ CopySubscribers(d) \/ SendOffline(d) \/ Unsubscribe(d)
      BY <1>p, <2>3
      DEF TimeOut, Check, CopySubscribers, SendOffline, Unsubscribe, Closed
    <2>4. CASE Authorize(d) \/ Pend(d) \/ Relay(d)
      BY <1>p, <2>4 DEF Authorize, Pend, Relay, Ready
    <2> QED
      BY <1>1, <2>1, <2>2, <2>3, <2>4 DEF ConnTask
<1>2. ASSUME NEW d \in Conns, Receive(d)
      PROVE  pc[c] = "relay" /\ job'[c] = job[c]
    BY <1>p, <1>2 DEF Receive, Subscribe, UpdateAcl, Verify, Read
<1>3. ASSUME NEW d \in Conns, Leave(d)
      PROVE  pc[c] = "relay" /\ job'[c] = job[c]
    BY <1>p, <1>3 DEF Leave, Check, Closed
<1>4. ASSUME UNCHANGED <<pc, job>> PROVE pc[c] = "relay" /\ job'[c] = job[c]
    BY <1>4
<1> QED
    BY <1>1, <1>2, <1>3, <1>4 DEF Step, GoSilent, Expire

\* Only a relay adds to what a connection was offered.
LEMMA OfferedSteps ==
    ASSUME Typed, Step, NEW k \in Conns
    PROVE  \/ offered'[k] \subseteq offered[k]
           \/ \E c \in Conns : /\ pc[c] = "relay" /\ k = job[c].target
                               /\ k = entry[job[c].msg.to].conn
                               /\ offered'[k] = offered[k] \cup {OwnerOf[c]}
<1>o. offered \in [Conns -> SUBSET Clients]
    BY DEF Typed
<1>1. ASSUME NEW c \in Conns, Relay(c), offered'[k] # offered[k]
      PROVE  /\ pc[c] = "relay" /\ k = job[c].target
             /\ k = entry[job[c].msg.to].conn
             /\ offered'[k] = offered[k] \cup {OwnerOf[c]}
    <2> DEFINE i == entry[job[c].msg.to].conn
    <2>1. \/ offered' = offered
          \/ i = job[c].target /\ offered' = [offered EXCEPT ![i] = @ \cup {OwnerOf[c]}]
      BY <1>1 DEF Relay
    <2>2. pc[c] = "relay"
      BY <1>1 DEF Relay
    <2> HIDE DEF i
    <2>3. i = k /\ i = job[c].target /\ offered'[k] = offered[k] \cup {OwnerOf[c]}
      BY <1>o, <1>1, <2>1
    <2> QED
      BY <2>2, <2>3 DEF i
<1>2. ASSUME NEW c \in Conns, NEW sends, Closed(c, sends)
      PROVE  offered'[k] \subseteq offered[k]
    BY <1>o, <1>2 DEF Closed
<1>3. ASSUME NEW c \in Conns, Check(c) PROVE offered'[k] \subseteq offered[k]
    BY <1>2, <1>3 DEF Check
<1>4. ASSUME NEW c \in Conns, ConnTask(c), ~Relay(c)
      PROVE  offered'[k] \subseteq offered[k]
    <2>1. CASE TimeOut(c) \/ SendOffline(c) \/ Unsubscribe(c)
      BY <1>2, <1>3, <2>1 DEF TimeOut, SendOffline, Unsubscribe
    <2>2. CASE UNCHANGED offered
      BY <2>2
    <2> QED
      BY <1>4, <2>1, <2>2
      DEF ConnTask, Register, Enter, Tell, Remove, CopySubscribers, SetAcl,
          Authorize, Pend, historyVars
<1>5. CASE \E c \in Conns : Leave(c)
    BY <1>3, <1>5 DEF Leave
<1>6. CASE UNCHANGED offered
    BY <1>6
<1>7. CASE \E c \in Conns : Relay(c)
  <2>1. CASE offered'[k] = offered[k]
    BY <2>1
  <2>2. CASE offered'[k] # offered[k]
    BY <1>1, <1>7, <2>2
  <2> QED
    BY <2>1, <2>2
<1> QED
    BY <1>4, <1>5, <1>6, <1>7
    DEF Step, Receive, GoSilent, Expire, Subscribe, UpdateAcl, Verify, historyVars

LEMMA OfferStep ==
    ASSUME Typed, NoGhostEntry, RelayOK, OfferedOK, Step
    PROVE  RelayOK' /\ OfferedOK'
<1>e. entry \in [Peers -> PeerEntry] /\ entry' \in [Peers -> PeerEntry]
    BY StepTyped DEF Typed
<1>p. pc \in [Conns -> PcStates] /\ job \in [Conns -> Job]
    BY DEF Typed
<1>h. Hosts \subseteq Peers /\ NoConn \notin Conns
    BY SignalingAssumption DEF Peers
\* A connection that is not new stays the host's only if it was.
<1>1. ASSUME NEW x \in Hosts, entry'[x].conn \in Conns,
             pc[entry'[x].conn] \notin Entered
      PROVE  entry[x].conn = entry'[x].conn
    <2>1. CASE \E c \in Conns : Enter(c)
      <3> PICK c \in Conns : Enter(c)
        BY <2>1
      <3>1. entry'[x] = entry[x] \/ entry'[x].conn = c
        BY <1>e, <1>h DEF Enter, NoEntry
      <3>2. pc[c] \in Entered
        BY DEF Enter, Entered
      <3> QED
        BY <1>1, <3>1, <3>2
    <2>2. CASE \E c \in Conns : Remove(c)
      BY <1>e, <1>h, <1>1, <2>2 DEF Remove, NoEntry
    <2> QED
      BY <1>h, <2>1, <2>2, ConnKept
<1>2. RelayOK'
    <2> SUFFICES ASSUME NEW c \in Conns, pc'[c] = "relay"
                 PROVE  /\ job'[c].target \in Conns
                        /\ pc'[job'[c].target] \notin Entered
                        /\ \A x \in Hosts \ Public :
                              (job'[c].msg.to = x
                                  /\ entry'[x].conn = job'[c].target)
                                  => OwnerOf[c] \in Known(x)'
      BY DEF RelayOK
    <2> DEFINE k == job'[c].target  to == job'[c].msg.to
    <2>1. CASE Pend(c)
      <3>1. /\ job'[c].msg = job[c].msg /\ k = entry[to].conn /\ Listed(to)
            /\ entry'[to].conn = entry[to].conn
            /\ to \in Hosts \ Public =>
                  OwnerOf[c] \in entry'[to].acl \cup entry'[to].pending
        <4> DEFINE m == job[c].msg
        <4>1. m.to \in Peers
          BY <2>1 DEF Typed, JobOK, Pend, Offers, Data
        <4>2. Listed(m.to) /\ job' = [job EXCEPT ![c].target = entry[m.to].conn]
          BY <1>p, <2>1 DEF Pend, Ready, Goto, PcStates
        <4>3. to = m.to /\ k = entry[m.to].conn
          BY <1>p, <4>2 DEF Job
        <4>4. entry'[m.to].conn = entry[m.to].conn
          BY <1>e, <2>1, <4>1 DEF Pend, PeerEntry
        <4>5. m.to \in Hosts \ Public =>
                 OwnerOf[c] \in entry'[m.to].acl \cup entry'[m.to].pending
          BY <1>p, <1>e, <2>1, <4>1 DEF Pend, Ready, Goto, PcStates, PeerEntry
        <4>6. job'[c].msg = m
          BY <1>p, <4>2 DEF Job
        <4> QED
          BY <4>2, <4>3, <4>4, <4>5, <4>6
      <3>2. to \in Peers
        BY <2>1, <3>1 DEF Typed, JobOK, Pend, Offers, Data
      <3>3. k \in Conns
        BY <1>e, <3>1, <3>2 DEF Listed, PeerEntry
      <3>4. pc[k] \notin Entered
        BY <3>1, <3>2 DEF NoGhostEntry, Listed, Entered
      <3>5. pc'[k] \notin Entered
        BY <3>3, <3>4, PcSteps
      <3>6. ASSUME NEW x \in Hosts \ Public, to = x
            PROVE  OwnerOf[c] \in Known(x)'
        BY <3>1, <3>6 DEF Known
      <3> QED
        BY <3>3, <3>5, <3>6
    <2>2. CASE ~Pend(c)
      <3>1. pc[c] = "relay" /\ job'[c] = job[c]
        BY <2>2, RelaySteps
      <3>2. k \in Conns /\ pc[k] \notin Entered
        BY <3>1 DEF RelayOK
      <3>3. pc'[k] \notin Entered
        BY <3>2, PcSteps
      <3>4. ASSUME NEW x \in Hosts \ Public, to = x, entry'[x].conn = k
            PROVE  OwnerOf[c] \in Known(x)'
        <4>1. entry[x].conn = k
          BY <1>1, <3>2, <3>4
        <4>2. OwnerOf[c] \in Known(x)
          BY <3>1, <3>4, <4>1 DEF RelayOK
        <4> QED
          BY <3>2, <3>4, <4>1, <4>2, KnownKept
      <3> QED
        BY <3>2, <3>3, <3>4
    <2> QED
      BY <2>1, <2>2
<1>3. ASSUME NEW k \in Conns, pc'[k] \in Entered PROVE offered'[k] = {}
    <2>1. pc[k] \in Entered /\ offered[k] = {}
      BY <1>3, PcSteps DEF OfferedOK
    <2>2. offered'[k] \subseteq offered[k]
      BY <2>1, OfferedSteps DEF RelayOK
    <2> QED
      BY <2>1, <2>2
<1>4. ASSUME NEW x \in Hosts \ Public, Listed(x)'
      PROVE  offered'[entry'[x].conn] \subseteq Known(x)'
    <2> DEFINE k == entry'[x].conn
    <2>1. k \in Conns
      BY <1>e, <1>h, <1>4 DEF Listed, PeerEntry
    <2>2. CASE pc[k] \in Entered
      <3>1. offered[k] = {}
        BY <2>1, <2>2 DEF OfferedOK
      <3>2. offered'[k] \subseteq offered[k]
        BY <2>1, <2>2, OfferedSteps DEF RelayOK
      <3> QED
        BY <3>1, <3>2
    <2>3. CASE pc[k] \notin Entered
      <3>1. entry[x].conn = k
        BY <1>1, <2>1, <2>3
      <3>2. offered[k] \subseteq Known(x) /\ Known(x) \subseteq Known(x)'
        BY <1>h, <2>1, <3>1, KnownKept DEF OfferedOK, Listed
      <3>3. ASSUME NEW c \in Conns, pc[c] = "relay", k = job[c].target,
                   k = entry[job[c].msg.to].conn
            PROVE  OwnerOf[c] \in Known(x)
        <4>1. job[c].msg.to \in Peers
          BY <3>3 DEF Typed, JobOK, Offers, Data
        <4>2. job[c].msg.to = x
          BY <1>h, <2>1, <3>1, <3>3, <4>1 DEF NoGhostEntry, Listed
        <4> QED
          BY <3>1, <3>3, <4>2 DEF RelayOK
      <3> QED
        BY <2>1, <3>2, <3>3, OfferedSteps
    <2> QED
      BY <2>2, <2>3
<1> QED
    BY <1>2, <1>3, <1>4 DEF OfferedOK

\* What a private host was offered and has not lost since it can answer, and
\* both sides may send candidates.
THEOREM OffersAreAnswerable == Spec => []OfferAnswerable
<1> DEFINE Inv == MapInv /\ RelayOK /\ OfferedOK
<1>1. Init => Inv
    <2>1. Init => MapInv
      BY TypeInvInit, SignalingAssumption
      DEF Init, MapInv, NoGhostEntry, Listed, NoEntry
    <2> QED
      BY <2>1, SignalingAssumption
      DEF Init, RelayOK, OfferedOK, Listed, NoEntry, Peers
<1>2. Inv /\ [Next]_vars => Inv'
    <2> SUFFICES ASSUME Inv, [Next]_vars PROVE RelayOK' /\ OfferedOK'
      BY MapInvStep
    <2>1. CASE Next
      BY <2>1, OfferStep DEF Next, MapInv, TypeInv, TypeOK, Typed
    <2>2. CASE UNCHANGED vars
      BY <2>2 DEF vars, RelayOK, OfferedOK, Known, Listed, historyVars
    <2> QED
      BY <2>1, <2>2
<1>3. Inv => OfferAnswerable
    <2> SUFFICES ASSUME Inv, NEW x \in Hosts \ Public, Listed(x),
                        NEW y \in offered[entry[x].conn] \ lapsed[entry[x].conn]
                 PROVE  /\ Admitted(x, [kind |-> "answer", to |-> y])
                        /\ Admitted(x, [kind |-> "ice", to |-> y])
                        /\ Admitted(y, [kind |-> "ice", to |-> x])
      BY DEF OfferAnswerable
    <2>1. y \in entry[x].acl \cup entry[x].pending
      BY DEF OfferedOK, Known
    <2>2. entry[x].conn \in Conns
      BY DEF MapInv, TypeInv, TypeOK, PeerEntry, Peers, Listed
    <2>3. y \in Clients
      BY <2>2 DEF MapInv, TypeInv, TypeOK
    <2>4. y \notin Hosts
      BY <2>3, SignalingAssumption
    <2> QED
      BY <2>1, <2>4 DEF Admitted
<1> QED
    BY <1>1, <1>2, <1>3, PTL DEF Spec

-----------------------------------------------------------------------------
(* Sequence numbers *)

\* The last number stored for a connection is not ahead of what was read on it;
\* a message that is being verified carries the number of the last read.
SeqInv ==
    \A p \in Peers \ crossed : Listed(p) =>
        LET c == entry[p].conn IN
        /\ entry[p].last <= sent[c]
        /\ pc[c] = "verify" => /\ job[c].msg.seq = sent[c]
                               /\ entry[p].last < sent[c]

OutlivedMarked == \A p \in Peers : Outlived(p) => p \in crossed

FreshInv == SeqInv /\ OutlivedMarked /\ FreshAccepted

\* The task that verifies a message of a peer without overlaps is that of the
\* peer's connection.
LEMMA VerifierIsListed ==
    ASSUME TypeInv, OutlivedMarked, NEW c \in Conns, pc[c] = "verify",
           OwnerOf[c] \notin crossed, Listed(OwnerOf[c])
    PROVE  entry[OwnerOf[c]].conn = c
<1>1. OwnerOf[c] \in Peers /\ c \in Busy(OwnerOf[c])
    BY SignalingAssumption DEF Busy
<1> QED
    BY <1>1 DEF OutlivedMarked, Outlived, Listed

LEMMA SeqStep ==
    ASSUME MapInv, FreshInv, Step, Overlap
    PROVE  SeqInv' /\ FreshAccepted'
<1>a. Typed /\ Typed'
    BY StepTyped DEF MapInv, TypeInv, TypeOK, Typed
<1>e. /\ entry \in [Peers -> PeerEntry] /\ entry' \in [Peers -> PeerEntry]
      /\ sent \in [Conns -> Nat] /\ pc \in [Conns -> PcStates]
      /\ job \in [Conns -> Job] /\ NoConn \notin Conns
    BY <1>a, SignalingAssumption DEF Typed
<1>c. crossed \subseteq crossed'
    BY DEF Overlap
<1>1. SeqInv'
    <2> SUFFICES ASSUME NEW p \in Peers \ crossed', Listed(p)',
                        NEW c, c = entry'[p].conn
                 PROVE  /\ entry'[p].last <= sent'[c]
                        /\ pc'[c] = "verify" => /\ job'[c].msg.seq = sent'[c]
                                                /\ entry'[p].last < sent'[c]
      BY DEF SeqInv
    <2> DEFINE Goal == /\ entry'[p].last <= sent'[c]
                       /\ pc'[c] = "verify" => /\ job'[c].msg.seq = sent'[c]
                                               /\ entry'[p].last < sent'[c]
    <2>p. p \in Peers \ crossed
      BY <1>c
    <2>c. c \in Conns
      BY <1>e DEF Listed, PeerEntry
    <2>n. sent[c] \in Nat /\ entry[p].last \in Nat
      BY <1>e, <2>c DEF PeerEntry
    <2>1. ASSUME NEW k \in Conns, Enter(k) PROVE Goal
      <3>1. CASE OwnerOf[k] = p
        <4>1. entry'[p].last = 0 /\ c = k
          BY <1>e, <2>1, <3>1 DEF Enter, NoEntry
        <4>2. pc'[c] # "verify" /\ sent' = sent
          BY <1>e, <2>1, <4>1 DEF Enter, FanOut, Goto, peerVars
        <4> QED
          BY <2>n, <4>1, <4>2
      <3>2. CASE OwnerOf[k] # p
        <4>1. entry'[p] = entry[p] /\ sent' = sent
          BY <1>e, <2>1, <3>2 DEF Enter, peerVars
        <4>2. Listed(p) /\ OwnerOf[c] = p
          BY <4>1 DEF Listed, MapInv, NoGhostEntry
        <4>3. pc'[c] = pc[c] /\ job'[c] = job[c]
          BY <1>e, <2>1, <2>c, <3>2, <4>2 DEF Enter, FanOut, Goto
        <4> QED
          BY <2>p, <4>1, <4>2, <4>3 DEF FreshInv, SeqInv
      <3> QED
        BY <3>1, <3>2
    <2>2. ASSUME NEW k \in Conns, Remove(k) PROVE Goal
      <3>1. entry'[p] = entry[p] /\ sent' = sent /\ job' = job
        BY <1>e, <2>2 DEF Remove, NoEntry, Listed, peerVars
      <3>2. pc'[c] = "verify" => pc[c] = "verify"
        BY <1>e, <2>2, <2>c DEF Remove, Goto
      <3>3. Listed(p)
        BY <3>1 DEF Listed
      <3> QED
        BY <2>p, <3>1, <3>2, <3>3 DEF FreshInv, SeqInv
    <2>3. ASSUME \A k \in Conns : ~Enter(k) /\ ~Remove(k) PROVE Goal
      <3>1. entry[p].conn = c
        BY <2>3, <1>a, ConnKept
      <3>2. /\ Listed(p) /\ OwnerOf[c] = p
            /\ entry[p].last <= sent[c]
            /\ pc[c] = "verify" => job[c].msg.seq = sent[c] /\ entry[p].last < sent[c]
        BY <1>e, <2>p, <2>c, <3>1 DEF Listed, MapInv, NoGhostEntry, FreshInv, SeqInv
      <3>3. ASSUME entry'[p].last = entry[p].last, sent' = sent,
                   pc'[c] = "verify" => pc[c] = "verify" /\ job'[c] = job[c]
            PROVE  Goal
        BY <3>2, <3>3
      <3>4. ASSUME NEW k \in Conns, Authorize(k) PROVE Goal
        <4>1. CASE OwnerOf[k] = p
          <5>1. k = c
            <6>1. pc[k] = "verify" /\ OwnerOf[k] \notin crossed /\ Listed(OwnerOf[k])
              BY <2>p, <3>2, <3>4, <4>1 DEF Authorize
            <6>2. TypeInv /\ OutlivedMarked
              BY DEF FreshInv, MapInv
            <6>3. entry[OwnerOf[k]].conn = k
              BY <6>1, <6>2, VerifierIsListed
            <6> QED
              BY <3>1, <4>1, <6>3
          <5>2. entry'[p].last \in {entry[p].last, job[c].msg.seq}
            BY <1>e, <3>4, <4>1, <5>1 DEF Authorize, PeerEntry
          <5>3. pc'[c] # "verify" /\ sent' = sent /\ pc[c] = "verify"
            BY <1>e, <2>c, <3>4, <5>1 DEF Authorize, Ready, Goto, peerVars
          <5> QED
            BY <2>n, <3>2, <5>2, <5>3
        <4>2. CASE OwnerOf[k] # p
          <5>1. entry'[p] = entry[p] /\ sent' = sent
            BY <1>e, <3>4, <4>2 DEF Authorize, peerVars
          <5>2. pc'[c] = pc[c] /\ job'[c] = job[c]
            BY <1>e, <2>c, <3>2, <3>4, <4>2 DEF Authorize, Ready, Goto
          <5> QED
            BY <3>3, <5>1, <5>2
        <4> QED
          BY <4>1, <4>2
      <3>5. ASSUME NEW k \in Conns, NEW m \in Sent(k),
                   Subscribe(k, m) \/ UpdateAcl(k, m) \/ Verify(k, m)
            PROVE  Goal
        <4>1. entry' = entry /\ pc[k] = "up" /\ sent' = [sent EXCEPT ![k] = @ + 1]
          BY <3>5 DEF Subscribe, UpdateAcl, Verify, Read
        <4>2. TypeInvSent(k, m)
          BY <1>e, SentType
        <4>3. CASE k # c
          <5>1. pc'[c] = pc[c] /\ job'[c] = job[c]
            BY <1>e, <2>c, <3>5, <4>3 DEF Subscribe, UpdateAcl, Verify, Goto
          <5>2. sent'[c] = sent[c]
            BY <1>e, <2>c, <4>1, <4>3
          <5> QED
            BY <3>2, <4>1, <5>1, <5>2
        <4>4. CASE k = c
          <5>1. sent'[c] = sent[c] + 1
            BY <1>e, <2>c, <4>1, <4>4
          <5>2. pc'[c] = "verify" => job'[c].msg.seq = sent[c] + 1
            <6>1. CASE Verify(k, m)
              <7>1. m.seq = sent[c] + 1
                BY <4>2, <4>4, <6>1 DEF TypeInvSent, Verify
              <7>2. pc'[c] = "verify" => job'[c].msg = m
                BY <1>e, <2>c, <4>1, <4>4, <6>1 DEF Verify, Goto, Job
              <7> QED
                BY <7>1, <7>2
            <6>2. CASE Subscribe(k, m) \/ UpdateAcl(k, m)
              BY <1>e, <2>c, <4>1, <4>4, <6>2 DEF Subscribe, UpdateAcl, Goto
            <6> QED
              BY <3>5, <6>1, <6>2
          <5> QED
            BY <2>n, <3>2, <4>1, <5>1, <5>2
        <4> QED
          BY <4>3, <4>4
      <3>6. ASSUME NEW k \in Conns, SetAcl(k) PROVE Goal
        <4>1. entry'[p].last = entry[p].last /\ sent' = sent
          BY <1>e, <3>6 DEF SetAcl, PeerEntry, peerVars
        <4>2. pc'[c] = "verify" => pc[c] = "verify" /\ job'[c] = job[c]
          BY <1>e, <2>c, <3>6 DEF SetAcl, FanOut, Goto
        <4> QED
          BY <3>3, <4>1, <4>2
      <3>7. ASSUME NEW k \in Conns, Pend(k) PROVE Goal
        <4>1. entry'[p].last = entry[p].last /\ sent' = sent
          BY <1>e, <3>7 DEF Pend, PeerEntry, peerVars
        <4>2. pc'[c] = "verify" => pc[c] = "verify" /\ job'[c] = job[c]
          BY <1>e, <2>c, <3>7 DEF Pend, Ready, Goto
        <4> QED
          BY <3>3, <4>1, <4>2
      <3>8. ASSUME NEW k \in Conns,
                   \/ Register(k) \/ CopySubscribers(k) \/ Relay(k)
                   \/ \E i \in Conns, online \in BOOLEAN : Tell(k, i, online)
            PROVE  Goal
        <4>1. entry' = entry /\ sent' = sent
          BY <3>8 DEF Register, CopySubscribers, Relay, Tell, peerVars
        <4>2. pc'[c] = "verify" => pc[c] = "verify" /\ job'[c] = job[c]
          BY <1>e, <2>c, <3>8
          DEF Register, CopySubscribers, Relay, Ready, Tell, FanOut, Goto
        <4> QED
          BY <3>3, <4>1, <4>2
      <3>9. ASSUME NEW k \in Conns, Check(k) \/ SendOffline(k) \/ Unsubscribe(k)
            PROVE  Goal
        <4>1. entry' = entry /\ sent' = sent
          BY <3>9 DEF Check, SendOffline, Unsubscribe, peerVars
        <4>2. pc'[c] = "verify" => pc[c] = "verify" /\ job'[c] = job[c]
          BY <1>e, <2>c, <3>9 DEF Check, SendOffline, Unsubscribe, Closed, Goto
        <4> QED
          BY <3>3, <4>1, <4>2
      <3>10. ASSUME NEW x \in Hosts, NEW y \in Clients, Expire(x, y) PROVE Goal
        <4>1. entry'[p].last = entry[p].last /\ sent' = sent /\ pc' = pc /\ job' = job
          BY <1>e, <3>10 DEF Expire, PeerEntry, peerVars
        <4> QED
          BY <3>3, <4>1
      <3>11. ASSUME NEW k \in Conns, GoSilent(k) PROVE Goal
        BY <3>3, <3>11 DEF GoSilent
      <3> QED
        BY <2>3, <3>4, <3>5, <3>6, <3>7, <3>8, <3>9, <3>10, <3>11
        DEF Step, ConnTask, Receive, Leave, TimeOut
    <2> QED
      BY <2>1, <2>2, <2>3
<1>2. FreshAccepted'
    <2> SUFFICES ASSUME NEW c \in refused' PROVE OwnerOf[c] \in crossed'
      BY DEF FreshAccepted
    <2>1. CASE c \in refused
      BY <1>c, <2>1 DEF FreshInv, FreshAccepted
    <2>2. CASE c \notin refused
      <3>1. Authorize(c) /\ Listed(OwnerOf[c])
                /\ job[c].msg.seq <= entry[OwnerOf[c]].last /\ c \in Conns
        <4>1. ASSUME NEW k \in Conns, ConnTask(k)
              PROVE  refused' = refused \/ Authorize(k)
          BY <4>1
          DEF ConnTask, TimeOut, Register, Enter, Tell, Check, Remove,
              CopySubscribers, SendOffline, Unsubscribe, SetAcl, Pend, Relay,
              historyVars
        <4>2. PICK k \in Conns : Authorize(k)
          BY <2>2, <4>1
          DEF Step, Receive, Leave, Check, GoSilent, Expire, Subscribe,
              UpdateAcl, Verify, historyVars
        <4> QED
          BY <2>2, <4>2 DEF Authorize
      <3>2. ASSUME OwnerOf[c] \notin crossed PROVE FALSE
        <4>1. entry[OwnerOf[c]].conn = c
          BY <3>1, <3>2, VerifierIsListed DEF Authorize, FreshInv, MapInv
        <4>2. OwnerOf[c] \in Peers
          BY <3>1, SignalingAssumption
        <4>3. /\ job[c].msg.seq = sent[c]
              /\ entry[OwnerOf[c]].last < sent[c]
          BY <3>1, <3>2, <4>1, <4>2 DEF FreshInv, SeqInv, Authorize
        <4>4. sent[c] \in Nat /\ entry[OwnerOf[c]].last \in Nat
          BY <1>e, <3>1, <4>2 DEF PeerEntry
        <4> QED
          BY <3>1, <4>3, <4>4
      <3> QED
        BY <1>c, <3>2
    <2> QED
      BY <2>1, <2>2
<1> QED
    BY <1>1, <1>2

\* No message is refused as a replay of an earlier one, unless a task of the
\* peer's previous connection outlived the registration.
THEOREM FreshIsAccepted == Spec => []FreshAccepted
<1> DEFINE Inv == MapInv /\ FreshInv
<1>1. Init => Inv
    <2>1. Init => MapInv
      BY TypeInvInit, SignalingAssumption
      DEF Init, MapInv, NoGhostEntry, Listed, NoEntry
    <2>2. Init => FreshInv
      BY SignalingAssumption
      DEF Init, FreshInv, SeqInv, OutlivedMarked, Outlived, Busy, FreshAccepted,
          Listed, NoEntry
    <2> QED
      BY <2>1, <2>2
<1>2. Inv /\ [Next]_vars => Inv'
    <2> SUFFICES ASSUME Inv, [Next]_vars PROVE FreshInv'
      BY MapInvStep
    <2>1. CASE Next
      <3>1. SeqInv' /\ FreshAccepted'
        BY <2>1, SeqStep DEF Next
      <3>2. OutlivedMarked'
        BY <2>1 DEF Next, Overlap, OutlivedMarked
      <3> QED
        BY <3>1, <3>2 DEF FreshInv
    <2>2. CASE UNCHANGED vars
      BY <2>2 DEF vars, FreshInv, SeqInv, OutlivedMarked, Outlived, Busy,
                  FreshAccepted, Listed, peerVars, historyVars
    <2> QED
      BY <2>1, <2>2
<1>3. Inv => FreshAccepted
    BY DEF FreshInv
<1> QED
    BY <1>1, <1>2, <1>3, PTL DEF Spec

-----------------------------------------------------------------------------
(* Presence *)

BusyFinite == \A p \in Peers : IsFiniteSet(Busy(p))
\* One task of a peer without overlaps is between two critical sections.
OneBusy == \A p \in Peers \ crossed : \A c, d \in Busy(p) : c = d
\* A connection that is not registered has asked for nothing.
AskedLater == \A c \in Conns : pc[c] \in Entered => asked[c] = {}

Sending == {"announce", "fan"}
Copying == {"registering", "acl", "sendOffline"}
Gone    == {"offline", "sendOffline"}

\* The list that a task of the host has copied is the host's, and the presences
\* it is going to send are those of the clients' connections.
Copied(hst) ==
    \A c \in Busy(hst) :
        /\ pc[c] \in Copying => job[c].list = subs[hst]
        /\ pc[c] \in Sending => \A t \in job[c].todo :
               \E y \in Clients :
                   Listed(y) /\ t = <<entry[y].conn, PresenceIn(entry, hst, y)>>

\* The client was told what is so, or will be.
Exact(x, hst) ==
    LET k == entry[x].conn  is == PresenceIn(entry, hst, x) IN
    \/ told[k][hst] = Word(is)
    \/ \E c \in Busy(hst) : \/ pc[c] \in Gone
                            \/ pc[c] \in Sending /\ <<k, is>> \in job[c].todo
Followed(hst) ==
    \A x \in Clients \ crossed :
        (Listed(x) /\ hst \in asked[entry[x].conn]) => x \in subs[hst] /\ Exact(x, hst)

PresenceInv ==
    /\ BusyFinite /\ OneBusy /\ OutlivedMarked /\ AskedLater
    /\ \A hst \in Hosts \ crossed : Copied(hst) /\ Followed(hst)

\* A step moves one task at most.
LEMMA OneMoves ==
    ASSUME Typed, Step
    PROVE  \E c : \A k \in Conns : k # c => pc'[k] = pc[k] /\ job'[k] = job[k]
<1>p. pc \in [Conns -> PcStates] /\ job \in [Conns -> Job]
    BY DEF Typed
<1> DEFINE Only(c) == \A k \in Conns : k # c => pc'[k] = pc[k] /\ job'[k] = job[k]
<1>1. ASSUME NEW c \in Conns, ConnTask(c) PROVE Only(c)
    <2>1. CASE Register(c) \/ Enter(c) \/ Remove(c) \/ CopySubscribers(c) \/ SetAcl(c)
      BY <1>p, <2>1 DEF Register, Enter, Remove, CopySubscribers, SetAcl, FanOut, Goto
    <2>2. CASE \E i \in Conns, online \in BOOLEAN : Tell(c, i, online)
      BY <1>p, <2>2 DEF Tell, FanOut, Goto
    <2>3. CASE TimeOut(c) \/ SendOffline(c) \/ Unsubscribe(c)
      BY <1>p, <2>3 DEF TimeOut, Check, SendOffline, Unsubscribe, Closed, Goto
    <2>4. CASE Authorize(c)
      BY <1>p, <2>4 DEF Authorize, Ready, Goto
    <2>5. CASE Pend(c)
      BY <1>p, <2>5 DEF Pend, Ready, Goto
    <2>6. CASE Relay(c)
      BY <1>p, <2>6 DEF Relay, Ready, Goto
    <2> QED
      BY <1>1, <2>1, <2>2, <2>3, <2>4, <2>5, <2>6 DEF ConnTask
<1>2. ASSUME NEW c \in Conns, Receive(c) PROVE Only(c)
    BY <1>p, <1>2 DEF Receive, Subscribe, UpdateAcl, Verify, Goto
<1>3. ASSUME NEW c \in Conns, Leave(c) PROVE Only(c)
    BY <1>p, <1>3 DEF Leave, Check, Closed, Goto
<1>4. CASE UNCHANGED <<pc, job>>
    BY <1>4
<1> HIDE DEF Only
<1>5. CASE \E c : Only(c)
    BY <1>5 DEF Only
<1> QED
    BY <1>1, <1>2, <1>3, <1>4, <1>5 DEF Step, GoSilent, Expire

LEMMA BusyStep ==
    ASSUME Typed, Step, Overlap, BusyFinite
    PROVE  BusyFinite' /\ OneBusy' /\ OutlivedMarked'
<1>1. PICK c : \A k \in Conns : k # c => pc'[k] = pc[k]
    BY OneMoves
<1>2. ASSUME NEW p \in Peers PROVE IsFiniteSet(Busy(p)')
    <2>1. IsFiniteSet(Busy(p) \cup {c})
      BY FS_AddElement DEF BusyFinite
    <2>2. Busy(p)' \subseteq Busy(p) \cup {c}
      BY <1>1 DEF Busy
    <2> QED
      BY <2>1, <2>2, FS_Subset
<1>3. OneBusy'
    <2> SUFFICES ASSUME NEW p \in Peers, p \notin crossed',
                        NEW a \in Busy(p)', NEW b \in Busy(p)', a # b
                 PROVE  FALSE
      BY DEF OneBusy
    <2>1. ~(Cardinality(Busy(p)') > 1)
      BY DEF Overlap
    <2>2. IsFiniteSet({a, b}) /\ Cardinality({a, b}) = 2
      <3>1. IsFiniteSet({a}) /\ Cardinality({a}) = 1
        BY FS_Singleton
      <3>2. {a, b} = {a} \cup {b} /\ b \notin {a}
        OBVIOUS
      <3> QED
        BY <3>1, <3>2, FS_AddElement
    <2>3. Cardinality({a, b}) <= Cardinality(Busy(p)')
      BY <1>2, FS_Subset
    <2>4. Cardinality(Busy(p)') \in Nat
      BY <1>2, FS_CardinalityType
    <2> QED
      BY <2>1, <2>2, <2>3, <2>4
<1>4. OutlivedMarked'
    BY DEF Overlap, OutlivedMarked
<1> QED
    BY <1>2, <1>3, <1>4 DEF BusyFinite

LEMMA AskedStep ==
    ASSUME Typed, Step, AskedLater
    PROVE  AskedLater'
<1> SUFFICES ASSUME NEW k \in Conns, pc'[k] \in Entered PROVE asked'[k] = {}
    BY DEF AskedLater
<1>p. pc \in [Conns -> PcStates] /\ asked \in [Conns -> SUBSET Hosts]
    BY DEF Typed
<1>1. pc[k] \in Entered /\ asked[k] = {}
    BY PcSteps DEF AskedLater
<1>2. CASE UNCHANGED asked
    BY <1>1, <1>2
<1>3. ASSUME NEW c \in Conns, Check(c) \/ SendOffline(c) \/ Unsubscribe(c)
      PROVE  asked'[k] = {}
    BY <1>p, <1>1, <1>3 DEF Check, SendOffline, Unsubscribe, Closed
<1>4. ASSUME NEW c \in Conns, NEW m, Subscribe(c, m) PROVE asked'[k] = {}
    BY <1>p, <1>1, <1>4 DEF Subscribe, Read, Entered
<1>5. ASSUME NEW c \in Conns, ConnTask(c) PROVE asked'[k] = {}
    <2>1. CASE Register(c) \/ Enter(c) \/ Remove(c) \/ CopySubscribers(c)
      BY <1>2, <2>1 DEF Register, Enter, Remove, CopySubscribers, historyVars
    <2>2. CASE \E i \in Conns, online \in BOOLEAN : Tell(c, i, online)
      BY <1>2, <2>2 DEF Tell, historyVars
    <2>3. SetAcl(c) => UNCHANGED asked
      BY DEF SetAcl
    <2>4. Authorize(c) => UNCHANGED asked
      BY DEF Authorize
    <2>5. /\ Pend(c) => UNCHANGED asked
          /\ Relay(c) => UNCHANGED asked
      <3>1. Relay(c) => UNCHANGED asked
        BY DEF Relay
      <3>2. Pend(c) => UNCHANGED historyVars
        BY DEF Pend
      <3> QED
        BY <3>1, <3>2 DEF historyVars
    <2> QED
      BY <1>2, <1>3, <1>5, <2>1, <2>2, <2>3, <2>4, <2>5 DEF ConnTask, TimeOut
<1>6. ASSUME NEW c \in Conns, Receive(c) PROVE asked'[k] = {}
    BY <1>2, <1>4, <1>6 DEF Receive, UpdateAcl, Verify, historyVars
<1> QED
    BY <1>2, <1>3, <1>5, <1>6 DEF Step, Leave, GoSilent, Expire, historyVars

\* Nothing that matters to the client changed, or it was told just now.
Stays(x, hst) ==
    LET k == entry[x].conn IN
    /\ entry'[x].conn = k /\ hst \in asked[k]
    /\ told'[k][hst] = told[k][hst]
    /\ x \in subs[hst] => x \in subs'[hst]
JustTold(x, hst) ==
    /\ told'[entry'[x].conn][hst] = Word(PresenceIn(entry', hst, x))
    /\ x \in subs'[hst]
\* Between two sections of a host none of its subscribers comes or goes.
Frozen(hst) ==
    Busy(hst) # {} => subs' = subs /\ \A x \in Clients : entry'[x].conn = entry[x].conn

LEMMA FrozenStep ==
    ASSUME Overlap, NEW hst \in Hosts, hst \notin crossed'
    PROVE  Frozen(hst)
BY DEF Overlap, Frozen

Special == Sending \cup Copying \cup Gone

\* A step of others leaves what is true of a host true.
LEMMA PresenceKept ==
    ASSUME crossed \subseteq crossed', NEW hst \in Hosts, Frozen(hst),
           Copied(hst), Followed(hst),
           \A x \in Clients : PresenceIn(entry', hst, x) = PresenceIn(entry, hst, x),
           \A c \in Conns : (OwnerOf[c] = hst /\ pc[c] \in Special) =>
               pc'[c] = pc[c] /\ job'[c] = job[c],
           \A c \in Conns : (OwnerOf[c] = hst /\ pc'[c] \in Special) => pc'[c] = pc[c],
           \A x \in Clients \ crossed' :
               (entry'[x].conn # NoConn /\ hst \in asked'[entry'[x].conn]) =>
                   Stays(x, hst) \/ JustTold(x, hst)
    PROVE  Copied(hst)' /\ Followed(hst)'
<1>1. ASSUME NEW c \in Busy(hst)', pc'[c] \in Special
      PROVE  c \in Busy(hst) /\ pc'[c] = pc[c] /\ job'[c] = job[c]
    BY <1>1 DEF Busy
<1>2. ASSUME NEW c \in Busy(hst), pc[c] \in Special
      PROVE  c \in Busy(hst)' /\ pc'[c] = pc[c] /\ job'[c] = job[c]
    BY <1>2 DEF Busy
<1>3. Copied(hst)'
    <2> SUFFICES ASSUME NEW c \in Busy(hst)'
                 PROVE  /\ pc'[c] \in Copying => job'[c].list = subs'[hst]
                        /\ pc'[c] \in Sending => \A t \in job'[c].todo :
                               \E y \in Clients : /\ entry'[y].conn # NoConn
                                 /\ t = <<entry'[y].conn, PresenceIn(entry', hst, y)>>
      BY DEF Copied, Listed
    <2>1. CASE pc'[c] \in Copying
      <3>1. c \in Busy(hst) /\ pc'[c] = pc[c] /\ job'[c] = job[c]
        BY <1>1, <2>1 DEF Special
      <3>2. subs' = subs
        BY <3>1 DEF Frozen
      <3>3. pc'[c] \notin Sending
        BY <2>1 DEF Copying, Sending
      <3> QED
        BY <2>1, <3>1, <3>2, <3>3 DEF Copied
    <2>2. CASE pc'[c] \in Sending
      <3>1. c \in Busy(hst) /\ pc'[c] = pc[c] /\ job'[c] = job[c]
        BY <1>1, <2>2 DEF Special
      <3>2. \A x \in Clients : entry'[x].conn = entry[x].conn
        BY <3>1 DEF Frozen
      <3>3. pc'[c] \notin Copying
        BY <2>2 DEF Copying, Sending
      <3>4. \A t \in job[c].todo : \E y \in Clients :
                entry[y].conn # NoConn /\ t = <<entry[y].conn, PresenceIn(entry, hst, y)>>
        BY <2>2, <3>1 DEF Copied, Listed
      <3> QED
        BY <3>1, <3>2, <3>3, <3>4
    <2> QED
      BY <2>1, <2>2
<1>4. Followed(hst)'
    <2> SUFFICES ASSUME NEW x \in Clients \ crossed', entry'[x].conn # NoConn,
                        hst \in asked'[entry'[x].conn]
                 PROVE  x \in subs'[hst] /\ Exact(x, hst)'
      BY DEF Followed, Listed
    <2>1. CASE JustTold(x, hst)
      BY <2>1 DEF JustTold, Exact
    <2>2. CASE Stays(x, hst)
      <3> DEFINE k  == entry[x].conn
                 is == PresenceIn(entry, hst, x)
      <3>1. /\ entry'[x].conn = k /\ hst \in asked[k] /\ k # NoConn
            /\ told'[k][hst] = told[k][hst]
            /\ x \in subs[hst] => x \in subs'[hst]
        BY <2>2 DEF Stays
      <3>2. x \in subs[hst] /\ Exact(x, hst)
        BY <3>1 DEF Followed, Listed
      <3>3. PresenceIn(entry', hst, x) = is
        OBVIOUS
      <3>4. CASE told[k][hst] = Word(is)
        BY <3>1, <3>2, <3>3, <3>4 DEF Exact
      <3>5. CASE told[k][hst] # Word(is)
        <4>1. PICK c \in Busy(hst) : \/ pc[c] \in Gone
                                     \/ pc[c] \in Sending /\ <<k, is>> \in job[c].todo
          BY <3>2, <3>5 DEF Exact
        <4>2. c \in Busy(hst)' /\ pc'[c] = pc[c] /\ job'[c] = job[c]
          BY <1>2, <4>1 DEF Special
        <4> QED
          BY <3>1, <3>2, <3>3, <4>1, <4>2 DEF Exact
      <3> QED
        BY <3>4, <3>5
    <2> QED
      BY <2>1, <2>2
<1> QED
    BY <1>3, <1>4

\* The parts of the invariant about hosts, before a step of a peer's task.
Followable ==
    /\ Typed /\ NoGhostEntry /\ OneBusy /\ OutlivedMarked /\ AskedLater
    /\ crossed \subseteq crossed'
    /\ \A hst \in Hosts \ crossed : Copied(hst) /\ Followed(hst)
    /\ \A hst \in Hosts \ crossed' : Frozen(hst)
Goal(hst) == Copied(hst)' /\ Followed(hst)'

\* Listed clients' connections are theirs, and none is the task that ends.
LEMMA Owns ==
    ASSUME Followable, NEW x \in Clients, Listed(x)
    PROVE  /\ entry[x].conn \in Conns /\ OwnerOf[entry[x].conn] = x
           /\ pc[entry[x].conn] \notin Entered \cup Left
<1>1. x \in Peers /\ entry[x] \in PeerEntry
    BY DEF Followable, Typed, Peers
<1> QED
    BY <1>1 DEF Followable, NoGhostEntry, Listed, Entered, Left, PeerEntry

\* A step that changes no presence, no subscription and no word leaves every
\* host's part as it was.
LEMMA QuietStep ==
    ASSUME Followable, NEW hst \in Hosts \ crossed',
           \A p \in Peers : entry'[p].conn = entry[p].conn /\ entry'[p].acl = entry[p].acl,
           UNCHANGED subs,
           \A c \in Conns : (OwnerOf[c] = hst /\ pc[c] \in Special) =>
               pc'[c] = pc[c] /\ job'[c] = job[c],
           \A c \in Conns : (OwnerOf[c] = hst /\ pc'[c] \in Special) => pc'[c] = pc[c],
           \A x \in Clients : Listed(x) =>
               /\ told'[entry[x].conn] = told[entry[x].conn]
               /\ asked'[entry[x].conn] = asked[entry[x].conn]
    PROVE  Goal(hst)
<1>1. /\ crossed \subseteq crossed' /\ Frozen(hst) /\ hst \in Hosts
      /\ Copied(hst) /\ Followed(hst)
    BY DEF Followable
<1>2. \A x \in Clients : PresenceIn(entry', hst, x) = PresenceIn(entry, hst, x)
    BY <1>1 DEF PresenceIn, Peers
<1>3. \A x \in Clients : (entry'[x].conn # NoConn /\ hst \in asked'[entry'[x].conn])
              => Stays(x, hst)
    BY <1>1 DEF Stays, Listed, Peers
<1> QED
    BY <1>1, <1>2, <1>3, PresenceKept DEF Goal

LEMMA QuietActions ==
    ASSUME Followable, NEW hst \in Hosts \ crossed', NEW c \in Conns,
           Authorize(c) \/ Pend(c) \/ Relay(c) \/ GoSilent(c)
    PROVE  Goal(hst)
<1>t. /\ pc \in [Conns -> PcStates] /\ job \in [Conns -> Job]
      /\ entry \in [Peers -> PeerEntry]
    BY DEF Followable, Typed
<1>1. /\ \A p \in Peers : entry'[p].conn = entry[p].conn /\ entry'[p].acl = entry[p].acl
      /\ UNCHANGED <<subs, told, asked>>
    <2>1. CASE Authorize(c)
      BY <1>t, <2>1 DEF Authorize, PeerEntry
    <2>2. CASE Pend(c)
      BY <1>t, <2>2 DEF Pend, PeerEntry, historyVars
    <2>3. CASE Relay(c)
      BY <2>3 DEF Relay
    <2>4. CASE GoSilent(c)
      BY <2>4 DEF GoSilent, historyVars
    <2> QED
      BY <2>1, <2>2, <2>3, <2>4
<1>2. /\ \A k \in Conns \ {c} : pc'[k] = pc[k] /\ job'[k] = job[k]
      /\ (pc[c] \notin Special /\ pc'[c] \notin Special)
             \/ (pc'[c] = pc[c] /\ job'[c] = job[c])
    <2>1. CASE Authorize(c)
      BY <1>t, <2>1 DEF Authorize, Ready, Goto, Special, Sending, Copying, Gone
    <2>2. CASE Pend(c)
      BY <1>t, <2>2 DEF Pend, Ready, Goto, Special, Sending, Copying, Gone
    <2>3. CASE Relay(c)
      BY <1>t, <2>3 DEF Relay, Ready, Goto, Special, Sending, Copying, Gone
    <2>4. CASE GoSilent(c)
      BY <2>4 DEF GoSilent
    <2> QED
      BY <2>1, <2>2, <2>3, <2>4
<1> QED
    BY <1>1, <1>2, QuietStep

LEMMA QuietExpire ==
    ASSUME Followable, NEW hst \in Hosts \ crossed', NEW g \in Hosts, NEW x \in Clients,
           Expire(g, x)
    PROVE  Goal(hst)
<1>t. entry \in [Peers -> PeerEntry] /\ g \in Peers
    BY DEF Followable, Typed, Peers
<1>1. \A p \in Peers : entry'[p].conn = entry[p].conn /\ entry'[p].acl = entry[p].acl
    BY <1>t DEF Expire, PeerEntry
<1> QED
    BY <1>1, QuietStep DEF Expire

LEMMA QuietVerify ==
    ASSUME Followable, NEW hst \in Hosts \ crossed', NEW c \in Conns, NEW m,
           Verify(c, m)
    PROVE  Goal(hst)
<1>t. /\ pc \in [Conns -> PcStates] /\ job \in [Conns -> Job]
    BY DEF Followable, Typed
<1>1. /\ \A k \in Conns \ {c} : pc'[k] = pc[k] /\ job'[k] = job[k]
      /\ pc[c] \notin Special /\ pc'[c] \notin Special
    BY <1>t DEF Verify, Read, Goto, Special, Sending, Copying, Gone
<1> QED
    BY <1>1, QuietStep DEF Verify, historyVars

LEMMA QuietCheck ==
    ASSUME Followable, NEW hst \in Hosts \ crossed', NEW c \in Conns, Check(c)
    PROVE  Goal(hst)
<1>t. /\ pc \in [Conns -> PcStates] /\ told \in [Conns -> [Hosts -> {"unknown", "online", "offline"}]]
      /\ job \in [Conns -> Job] /\ asked \in [Conns -> SUBSET Hosts]
    BY DEF Followable, Typed
<1>1. /\ \A k \in Conns \ {c} : pc'[k] = pc[k] /\ job'[k] = job[k]
      /\ pc[c] \notin Special /\ pc'[c] \notin Special
    BY <1>t DEF Check, Closed, Goto, Special, Sending, Copying, Gone
<1>2. ASSUME NEW x \in Clients, Listed(x)
      PROVE  /\ told'[entry[x].conn] = told[entry[x].conn]
             /\ asked'[entry[x].conn] = asked[entry[x].conn]
    <2>1. CASE entry[OwnerOf[c]].conn = c
      BY <2>1 DEF Check
    <2>2. CASE entry[OwnerOf[c]].conn # c
      <3>1. entry[x].conn # c /\ entry[x].conn \in Conns
        BY <1>2, <2>2, Owns
      <3> QED
        BY <1>t, <2>2, <3>1 DEF Check, Closed
    <2> QED
      BY <2>1, <2>2
<1> QED
    BY <1>1, <1>2, QuietStep DEF Check

\* A step of another host's task.
LEMMA OtherStep ==
    ASSUME Followable, NEW hst \in Hosts \ crossed', NEW c \in Conns,
           OwnerOf[c] # hst,
           \A k \in Conns \ {c} : pc'[k] = pc[k] /\ job'[k] = job[k],
           \A p \in Clients \cup {hst} : entry'[p] = entry[p],
           UNCHANGED subs,
           \A x \in Clients : Listed(x) =>
               /\ told'[entry[x].conn][hst] = told[entry[x].conn][hst]
               /\ asked'[entry[x].conn] = asked[entry[x].conn]
    PROVE  Goal(hst)
<1>1. /\ crossed \subseteq crossed' /\ Frozen(hst) /\ hst \in Hosts
      /\ Copied(hst) /\ Followed(hst)
    BY DEF Followable
<1>2. \A x \in Clients : PresenceIn(entry', hst, x) = PresenceIn(entry, hst, x)
    BY <1>1 DEF PresenceIn
<1>3. \A x \in Clients : (entry'[x].conn # NoConn /\ hst \in asked'[entry'[x].conn])
              => Stays(x, hst)
    BY <1>1 DEF Stays, Listed
<1> QED
    BY <1>1, <1>2, <1>3, PresenceKept DEF Goal

\* What the tasks of hosts do.
HostTask(c) ==
    /\ OwnerOf[c] \in Hosts
    /\ \/ Register(c) \/ Enter(c) \/ Remove(c) \/ CopySubscribers(c) \/ SendOffline(c)
       \/ SetAcl(c) \/ (\E k \in Conns, online \in BOOLEAN : Tell(c, k, online))
       \/ \E m \in Sent(c) : UpdateAcl(c, m)

LEMMA OtherHost ==
    ASSUME Followable, NEW hst \in Hosts \ crossed', NEW c \in Conns,
           HostTask(c), OwnerOf[c] # hst
    PROVE  Goal(hst)
<1>t. /\ pc \in [Conns -> PcStates] /\ job \in [Conns -> Job]
      /\ told \in [Conns -> [Hosts -> {"unknown", "online", "offline"}]]
      /\ asked \in [Conns -> SUBSET Hosts] /\ entry \in [Peers -> PeerEntry]
      /\ OwnerOf[c] \in Hosts /\ OwnerOf[c] \notin Clients /\ hst \in Peers
    BY SignalingAssumption DEF Followable, Typed, HostTask, Peers
<1>o. \A x \in Clients : Listed(x) => entry[x].conn \in Conns \ {c}
    BY <1>t, Owns
<1>1. \A k \in Conns \ {c} : pc'[k] = pc[k] /\ job'[k] = job[k]
    <2>1. CASE Register(c) \/ Enter(c) \/ Remove(c) \/ CopySubscribers(c) \/ SetAcl(c)
      BY <1>t, <2>1 DEF Register, Enter, Remove, CopySubscribers, SetAcl, FanOut, Goto
    <2>2. CASE \E k \in Conns, online \in BOOLEAN : Tell(c, k, online)
      BY <1>t, <2>2 DEF Tell, FanOut, Goto
    <2>3. CASE SendOffline(c) \/ \E m \in Sent(c) : UpdateAcl(c, m)
      BY <1>t, <2>3 DEF SendOffline, Closed, UpdateAcl, Goto
    <2> QED
      BY <2>1, <2>2, <2>3 DEF HostTask
<1>2. /\ \A p \in Peers : p # OwnerOf[c] => entry'[p] = entry[p]
      /\ UNCHANGED subs
    <2>1. CASE Register(c) \/ CopySubscribers(c) \/ SendOffline(c)
               \/ (\E m \in Sent(c) : UpdateAcl(c, m))
               \/ (\E k \in Conns, online \in BOOLEAN : Tell(c, k, online))
      BY <2>1 DEF Register, CopySubscribers, SendOffline, UpdateAcl, Tell
    <2>2. CASE Enter(c) \/ Remove(c) \/ SetAcl(c)
      BY <1>t, <2>2 DEF Enter, Remove, SetAcl
    <2> QED
      BY <2>1, <2>2 DEF HostTask
<1>3. ASSUME NEW k \in Conns \ {c}
      PROVE  told'[k][hst] = told[k][hst] /\ asked'[k] = asked[k]
    <2>1. CASE Register(c) \/ Enter(c) \/ Remove(c) \/ CopySubscribers(c) \/ SetAcl(c)
      BY <2>1 DEF Register, Enter, Remove, CopySubscribers, SetAcl, historyVars
    <2>2. CASE \E i \in Conns, online \in BOOLEAN : Tell(c, i, online)
      BY <1>t, <2>2 DEF Tell, historyVars
    <2>3. CASE SendOffline(c)
      BY <1>t, <2>3 DEF SendOffline, Closed
    <2>4. CASE \E m \in Sent(c) : UpdateAcl(c, m)
      BY <2>4 DEF UpdateAcl, historyVars
    <2> QED
      BY <2>1, <2>2, <2>3, <2>4 DEF HostTask
<1>4. \A p \in Clients \cup {hst} : entry'[p] = entry[p]
    BY <1>t, <1>2 DEF Peers
<1> QED
    BY <1>o, <1>1, <1>2, <1>3, <1>4, OtherStep

\* A host's own step: the task is the only one of the host that is busy.
LEMMA OwnBusy ==
    ASSUME Followable, NEW hst \in Hosts \ crossed', NEW c \in Conns,
           OwnerOf[c] = hst, OneBusy', c \in Busy(hst)
    PROVE  /\ Busy(hst) = {c} /\ subs' = subs /\ Copied(hst) /\ Followed(hst)
           /\ \A x \in Clients : entry'[x].conn = entry[x].conn
           /\ entry[hst].conn \in {c, NoConn} \/ pc[c] = "registering"
<1>1. hst \in Hosts \ crossed /\ hst \in Peers \ crossed
    BY DEF Followable, Peers
<1>2. Busy(hst) = {c}
    BY <1>1 DEF Followable, OneBusy
<1>3. Frozen(hst) /\ Copied(hst) /\ Followed(hst)
    BY <1>1 DEF Followable
<1>4. entry[hst].conn \in {c, NoConn} \/ pc[c] = "registering"
    BY <1>1 DEF Followable, OutlivedMarked, Outlived
<1> QED
    BY <1>2, <1>3, <1>4 DEF Frozen

\* A host's task begins an operation: what it copies is so.
LEMMA OwnBegin ==
    ASSUME Followable, OneBusy', NEW hst \in Hosts \ crossed', NEW c \in Conns,
           OwnerOf[c] = hst, pc[c] \in {"new", "up"}, pc'[c] \in {"registering", "acl"},
           \A k \in Conns \ {c} : pc'[k] = pc[k] /\ job'[k] = job[k],
           job'[c].list = subs[hst], UNCHANGED <<entry, subs, told, asked>>
    PROVE  Goal(hst)
<1>1. hst \in Hosts \ crossed /\ hst \in Peers \ crossed' /\ Followed(hst)
    BY DEF Followable, Peers
<1>2. c \in Busy(hst)' /\ c \notin Busy(hst)
    BY DEF Busy
<1>3. Busy(hst)' = {c}
    BY <1>1, <1>2 DEF OneBusy
<1>4. Busy(hst) = {}
    BY <1>2, <1>3 DEF Busy
<1>5. Copied(hst)'
    BY <1>3 DEF Copied, Copying, Sending
<1>6. Followed(hst)'
    <2> SUFFICES ASSUME NEW x \in Clients \ crossed', Listed(x)',
                        hst \in asked'[entry'[x].conn]
                 PROVE  x \in subs'[hst] /\ Exact(x, hst)'
      BY DEF Followed
    <2>1. x \in Clients \ crossed /\ Listed(x) /\ hst \in asked[entry[x].conn]
      BY DEF Followable, Listed
    <2>2. x \in subs[hst] /\ told[entry[x].conn][hst] = Word(PresenceIn(entry, hst, x))
      BY <1>1, <1>4, <2>1 DEF Followed, Exact
    <2> QED
      BY <2>2 DEF Exact
<1> QED
    BY <1>5, <1>6 DEF Goal

\* A host's task has changed its entry, and starts to tell the clients of its list.
LEMMA OwnFanOut ==
    ASSUME Followable, OneBusy', NEW hst \in Hosts \ crossed', NEW c \in Conns,
           OwnerOf[c] = hst, c \in Busy(hst), pc[c] \in Copying,
           NEW p \in Sending, FanOut(c, p, Updates(entry', hst, job[c].list)),
           \A x \in Clients : entry'[x] = entry[x], UNCHANGED <<subs, told, asked>>
    PROVE  Goal(hst)
<1>t. /\ pc \in [Conns -> PcStates] /\ job \in [Conns -> Job]
      /\ subs \in [Hosts -> SUBSET Clients]
    BY DEF Followable, Typed
<1> DEFINE todo == Updates(entry', hst, job[c].list)
<1>1. /\ Busy(hst) = {c} /\ Followed(hst) /\ job[c].list = subs[hst]
      /\ hst \in Hosts \ crossed
    BY OwnBusy DEF Copied, Followable
<1>2. /\ pc'[c] = IF todo = {} THEN "up" ELSE p
      /\ job'[c].todo = todo
      /\ \A k \in Conns \ {c} : pc'[k] = pc[k]
    BY <1>t DEF FanOut, Goto, NoJob
<1>3. Busy(hst)' \subseteq {c}
    BY <1>1, <1>2 DEF Busy
<1>4. \A x \in Clients : (x \in subs[hst] /\ entry'[x].conn # NoConn) =>
              <<entry'[x].conn, PresenceIn(entry', hst, x)>> \in todo
    BY <1>1 DEF Updates
<1>5. \A t \in todo : \E y \in Clients : /\ entry'[y].conn # NoConn
              /\ t = <<entry'[y].conn, PresenceIn(entry', hst, y)>>
    BY <1>1, <1>t DEF Updates
<1> HIDE DEF todo
<1>6. Copied(hst)'
    BY <1>2, <1>3, <1>5 DEF Copied, Copying, Sending, Listed
<1>7. Followed(hst)'
    <2> SUFFICES ASSUME NEW x \in Clients \ crossed', entry'[x].conn # NoConn,
                        hst \in asked'[entry'[x].conn]
                 PROVE  x \in subs'[hst] /\ Exact(x, hst)'
      BY DEF Followed, Listed
    <2>1. x \in Clients \ crossed /\ Listed(x) /\ hst \in asked[entry[x].conn]
      BY DEF Followable, Listed
    <2>2. x \in subs[hst]
      BY <1>1, <2>1 DEF Followed
    <2>3. <<entry'[x].conn, PresenceIn(entry', hst, x)>> \in todo
      BY <1>4, <2>2
    <2>4. pc'[c] = p /\ job'[c].todo = todo /\ c \in Busy(hst)'
      BY <1>2, <2>3 DEF Busy, Sending
    <2>5. Exact(x, hst)'
      BY <2>3, <2>4 DEF Exact
    <2> QED
      BY <2>2, <2>5
<1> QED
    BY <1>6, <1>7 DEF Goal

\* One send of the fan-out: the channel is alive, and only its client hears it.
LEMMA OwnTell ==
    ASSUME Followable, OneBusy', NEW hst \in Hosts \ crossed', NEW c \in Conns,
           OwnerOf[c] = hst, NEW i \in Conns, NEW online \in BOOLEAN, Tell(c, i, online)
    PROVE  Goal(hst)
<1>t. /\ pc \in [Conns -> PcStates] /\ job \in [Conns -> Job]
      /\ told \in [Conns -> [Hosts -> {"unknown", "online", "offline"}]]
    BY DEF Followable, Typed
<1> DEFINE todo == job[c].todo \ {<<i, online>>}
<1>0. c \in Busy(hst) /\ pc[c] \in Sending /\ hst \in Hosts \ crossed
    BY DEF Tell, Busy, Sending, Followable
<1>1. /\ Busy(hst) = {c} /\ Copied(hst) /\ Followed(hst)
    BY <1>0, OwnBusy
<1>2. PICK y \in Clients : Listed(y) /\ i = entry[y].conn /\ online = PresenceIn(entry, hst, y)
    BY <1>0 DEF Copied, Tell, Followable
<1>3. Alive(i) /\ OwnerOf[i] = y
    BY <1>2, Owns DEF Alive, Left
<1>4. /\ told' = [told EXCEPT ![i][hst] = Word(online)]
      /\ entry' = entry /\ subs' = subs /\ asked' = asked
    BY <1>3 DEF Tell, historyVars
<1>5. /\ pc'[c] = IF todo = {} THEN "up" ELSE pc[c]
      /\ job'[c].todo = todo
      /\ \A k \in Conns \ {c} : pc'[k] = pc[k]
    BY <1>t, <1>3 DEF Tell, FanOut, Goto, NoJob
<1>6. Busy(hst)' \subseteq {c}
    BY <1>1, <1>5 DEF Busy
<1>7. Copied(hst)'
    <2>1. \A t \in todo : \E z \in Clients :
              Listed(z) /\ t = <<entry[z].conn, PresenceIn(entry, hst, z)>>
      BY <1>0, <1>1 DEF Copied
    <2> HIDE DEF todo
    <2> QED
      BY <1>0, <1>4, <1>5, <1>6, <2>1 DEF Copied, Copying, Sending, Listed
<1>8. Followed(hst)'
    <2> SUFFICES ASSUME NEW x \in Clients \ crossed', Listed(x)',
                        hst \in asked'[entry'[x].conn]
                 PROVE  x \in subs'[hst] /\ Exact(x, hst)'
      BY DEF Followed
    <2> DEFINE k  == entry[x].conn
               is == PresenceIn(entry, hst, x)
    <2>1. x \in Clients \ crossed /\ Listed(x) /\ hst \in asked[k]
      BY <1>4 DEF Followable, Listed
    <2>2. x \in subs[hst] /\ Exact(x, hst) /\ k \in Conns /\ OwnerOf[k] = x
      BY <1>1, <2>1, Owns DEF Followed
    <2>3. CASE k = i
      <3>1. online = is
        BY <1>2, <1>3, <2>2, <2>3
      <3>2. told'[k][hst] = Word(is)
        BY <1>0, <1>4, <1>t, <2>2, <2>3, <3>1
      <3> QED
        BY <1>4, <2>2, <3>2 DEF Exact
    <2>4. CASE k # i
      <3>1. told'[k][hst] = told[k][hst]
        BY <1>4, <1>t, <2>2, <2>4
      <3>2. CASE told[k][hst] = Word(is)
        BY <1>4, <2>2, <3>1, <3>2 DEF Exact
      <3>3. CASE told[k][hst] # Word(is)
        <4>1. <<k, is>> \in job[c].todo
          BY <1>0, <1>1, <2>2, <3>3 DEF Exact, Sending, Gone
        <4>2. <<k, is>> \in todo
          BY <2>4, <4>1
        <4>3. pc'[c] = pc[c] /\ job'[c].todo = todo
          BY <1>5, <4>2
        <4>4. c \in Busy(hst)'
          BY <1>0, <4>3 DEF Busy, Sending
        <4> HIDE DEF todo
        <4>5. Exact(x, hst)'
          BY <1>0, <1>4, <4>2, <4>3, <4>4 DEF Exact
        <4> QED
          BY <1>4, <2>2, <4>5
      <3> QED
        BY <3>2, <3>3
    <2> QED
      BY <2>3, <2>4
<1> QED
    BY <1>7, <1>8 DEF Goal

\* A host that is about to tell its subscribers that it is gone.
LEMMA OwnLeaves ==
    ASSUME Followable, OneBusy', NEW hst \in Hosts \ crossed', NEW c \in Conns,
           OwnerOf[c] = hst, c \in Busy(hst),
           \A k \in Conns \ {c} : pc'[k] = pc[k] /\ job'[k] = job[k],
           pc'[c] \in Gone, pc'[c] = "sendOffline" => job'[c].list = subs[hst],
           \A x \in Clients : entry'[x] = entry[x], UNCHANGED <<subs, told, asked>>
    PROVE  Goal(hst)
<1>1. Busy(hst) = {c} /\ Followed(hst)
    BY OwnBusy
<1>2. Busy(hst)' = {c}
    BY <1>1 DEF Busy, Gone
<1>3. Copied(hst)'
    BY <1>2 DEF Copied, Copying, Sending, Gone
<1>4. Followed(hst)'
    <2> SUFFICES ASSUME NEW x \in Clients \ crossed', entry'[x].conn # NoConn,
                        hst \in asked'[entry'[x].conn]
                 PROVE  x \in subs'[hst] /\ Exact(x, hst)'
      BY DEF Followed, Listed
    <2>1. x \in Clients \ crossed /\ Listed(x) /\ hst \in asked[entry[x].conn]
      BY DEF Followable, Listed
    <2> QED
      BY <1>1, <1>2, <2>1 DEF Followed, Exact
<1> QED
    BY <1>3, <1>4 DEF Goal

LEMMA OwnOffline ==
    ASSUME Followable, OneBusy', NEW hst \in Hosts \ crossed', NEW c \in Conns,
           OwnerOf[c] = hst, SendOffline(c)
    PROVE  Goal(hst)
<1>t. /\ pc \in [Conns -> PcStates] /\ entry \in [Peers -> PeerEntry]
      /\ told \in [Conns -> [Hosts -> {"unknown", "online", "offline"}]]
      /\ asked \in [Conns -> SUBSET Hosts]
      /\ hst \in Hosts \ crossed /\ hst \in Peers /\ hst \notin Clients
    BY SignalingAssumption DEF Followable, Typed, Peers
<1>0. c \in Busy(hst) /\ pc[c] = "sendOffline"
    BY DEF SendOffline, Busy
<1>1. /\ Busy(hst) = {c} /\ Followed(hst) /\ job[c].list = subs[hst]
      /\ entry[hst].conn \in {c, NoConn}
    BY <1>0, OwnBusy DEF Copied, Copying
<1>2. entry[hst].conn = NoConn
    BY <1>0, <1>1, <1>t DEF Followable, NoGhostEntry, Listed
<1>3. /\ \A k \in Conns \ {c} : pc'[k] = pc[k] /\ asked'[k] = asked[k]
      /\ pc'[c] = "closed" /\ entry' = entry /\ subs' = subs
      /\ \A k \in Conns \ {c} : k \in {entry[x].conn : x \in job[c].list} =>
            told'[k][hst] = "offline"
    BY <1>t DEF SendOffline, Closed, Goto
<1>4. Busy(hst)' = {}
    BY <1>1, <1>3 DEF Busy
<1>5. Followed(hst)'
    <2> SUFFICES ASSUME NEW x \in Clients \ crossed', Listed(x)',
                        hst \in asked'[entry'[x].conn]
                 PROVE  x \in subs'[hst] /\ Exact(x, hst)'
      BY DEF Followed
    <2> DEFINE k == entry[x].conn
    <2>1. Listed(x) /\ x \in Clients \ crossed
      BY <1>3 DEF Listed, Followable
    <2>2. k \in Conns \ {c}
      BY <1>t, <2>1, Owns
    <2>3. x \in subs[hst]
      BY <1>1, <1>3, <2>1, <2>2 DEF Followed
    <2>4. told'[k][hst] = "offline"
      BY <1>1, <1>3, <2>2, <2>3
    <2>5. ~PresenceIn(entry, hst, x)
      BY <1>2 DEF PresenceIn
    <2> QED
      BY <1>3, <2>3, <2>4, <2>5 DEF Exact, Word
<1> QED
    BY <1>4, <1>5 DEF Goal, Copied

LEMMA OwnHost ==
    ASSUME Followable, OneBusy', NEW hst \in Hosts \ crossed', NEW c \in Conns,
           HostTask(c), OwnerOf[c] = hst
    PROVE  Goal(hst)
<1>t. /\ pc \in [Conns -> PcStates] /\ job \in [Conns -> Job]
      /\ entry \in [Peers -> PeerEntry] /\ hst \notin Clients
    BY SignalingAssumption DEF Followable, Typed, HostTask
<1>1. CASE Register(c)
    <2>1. /\ \A k \in Conns \ {c} : pc'[k] = pc[k] /\ job'[k] = job[k]
          /\ pc[c] = "new" /\ pc'[c] = "registering" /\ job'[c].list = subs[hst]
      BY <1>t, <1>1 DEF Register, Goto, Job
    <2> QED
      BY <1>1, <2>1, OwnBegin DEF Register, historyVars
<1>2. CASE \E m \in Sent(c) : UpdateAcl(c, m)
    <2>1. PICK m \in Sent(c) : UpdateAcl(c, m)
      BY <1>2
    <2>2. pc[c] = "up"
      BY <2>1 DEF UpdateAcl, Read
    <2>3. CASE Listed(hst)
      <3>1. job' = [job EXCEPT ![c].msg = m, ![c].list = subs[hst]]
        BY <2>1, <2>3 DEF UpdateAcl
      <3>2. job'[c].list = subs[hst]
        BY <1>t, <3>1 DEF Job
      <3>3. /\ \A k \in Conns \ {c} : pc'[k] = pc[k] /\ job'[k] = job[k]
            /\ pc'[c] = "acl"
        BY <1>t, <2>1, <2>3, <3>1 DEF UpdateAcl, Goto
      <3> QED
        BY <2>1, <2>2, <3>2, <3>3, OwnBegin DEF UpdateAcl, historyVars
    <2>4. CASE ~Listed(hst)
      BY <2>1, <2>4, QuietStep DEF UpdateAcl, historyVars
    <2> QED
      BY <2>3, <2>4
<1>3. CASE Enter(c)
    <2>1. pc[c] = "registering" /\ c \in Busy(hst) /\ pc[c] \in Copying
      BY <1>3 DEF Enter, Busy, Copying
    <2>2. \A x \in Clients : entry'[x] = entry[x]
      BY <1>t, <1>3 DEF Enter, Peers
    <2> QED
      BY <1>3, <2>1, <2>2, OwnFanOut DEF Enter, Sending, historyVars
<1>4. CASE SetAcl(c)
    <2>1. c \in Busy(hst) /\ pc[c] \in Copying
      BY <1>4 DEF SetAcl, Busy, Copying
    <2>2. \A x \in Clients : entry'[x] = entry[x]
      BY <1>t, <1>4 DEF SetAcl, Peers
    <2>3. FanOut(c, "fan", Updates(entry', hst, job[c].list))
      BY <1>4 DEF SetAcl
    <2> QED
      BY <1>4, <2>1, <2>2, <2>3, OwnFanOut DEF SetAcl, Sending
<1>5. CASE \E i \in Conns, online \in BOOLEAN : Tell(c, i, online)
    BY <1>5, OwnTell
<1>6. CASE Remove(c)
    <2>1. /\ \A k \in Conns \ {c} : pc'[k] = pc[k] /\ job'[k] = job[k]
          /\ c \in Busy(hst) /\ pc'[c] = "offline"
      BY <1>t, <1>6 DEF Remove, Goto, Busy
    <2>2. \A x \in Clients : entry'[x] = entry[x]
      BY <1>t, <1>6 DEF Remove, Peers
    <2> QED
      BY <1>6, <2>1, <2>2, OwnLeaves DEF Remove, Gone, historyVars
<1>7. CASE CopySubscribers(c)
    <2>1. /\ \A k \in Conns \ {c} : pc'[k] = pc[k] /\ job'[k] = job[k]
          /\ c \in Busy(hst) /\ pc'[c] = "sendOffline" /\ job'[c].list = subs[hst]
      BY <1>t, <1>7 DEF CopySubscribers, Goto, Busy, Job
    <2> QED
      BY <1>7, <2>1, OwnLeaves DEF CopySubscribers, Gone, historyVars
<1>8. CASE SendOffline(c)
    BY <1>8, OwnOffline
<1> QED
    BY <1>1, <1>2, <1>3, <1>4, <1>5, <1>6, <1>7, <1>8 DEF HostTask

\* A client's task comes, goes or subscribes.
LEMMA ClientTask ==
    ASSUME Followable, NEW hst \in Hosts \ crossed', NEW c \in Conns,
           OwnerOf[c] \in Clients,
           Enter(c) \/ Remove(c) \/ Unsubscribe(c) \/ \E m \in Sent(c) : Subscribe(c, m)
    PROVE  Goal(hst)
<1>t. /\ pc \in [Conns -> PcStates] /\ job \in [Conns -> Job]
      /\ told \in [Conns -> [Hosts -> {"unknown", "online", "offline"}]]
      /\ asked \in [Conns -> SUBSET Hosts] /\ entry \in [Peers -> PeerEntry]
      /\ sent \in [Conns -> Nat] /\ subs \in [Hosts -> SUBSET Clients]
      /\ OwnerOf[c] \notin Hosts /\ hst \in Peers /\ Clients \subseteq Peers
    BY SignalingAssumption DEF Followable, Typed, Peers
<1>1. /\ crossed \subseteq crossed' /\ Frozen(hst) /\ hst \in Hosts
      /\ Copied(hst) /\ Followed(hst)
    BY DEF Followable
<1>2. \A k \in Conns \ {c} : pc'[k] = pc[k] /\ job'[k] = job[k]
    BY <1>t DEF Enter, Remove, Unsubscribe, Subscribe, FanOut, Closed, Goto
<1>3. entry'[hst] = entry[hst]
    BY <1>t DEF Enter, Remove, Unsubscribe, Subscribe
<1>4. \A x \in Clients : PresenceIn(entry', hst, x) = PresenceIn(entry, hst, x)
    BY <1>3 DEF PresenceIn
<1>5. OwnerOf[c] # hst
    BY <1>t
<1>6. ASSUME NEW x \in Clients \ crossed', entry'[x].conn # NoConn,
             hst \in asked'[entry'[x].conn]
      PROVE  Stays(x, hst) \/ JustTold(x, hst)
    <2>1. CASE Enter(c)
      <3>1. x # OwnerOf[c]
        <4>1. CASE x = OwnerOf[c]
          <5>1. entry'[x].conn = c
            BY <1>t, <2>1, <4>1 DEF Enter, NoEntry
          <5>2. asked[c] = {}
            BY <2>1 DEF Enter, Followable, AskedLater, Entered
          <5> QED
            BY <1>6, <2>1, <5>1, <5>2 DEF Enter, historyVars
        <4> QED
          BY <4>1
      <3>2. entry'[x] = entry[x]
        BY <1>t, <2>1, <3>1 DEF Enter
      <3> QED
        BY <1>6, <2>1, <3>2 DEF Enter, Stays, historyVars
    <2>2. CASE Remove(c)
      <3>1. entry'[x] = entry[x]
        BY <1>t, <1>6, <2>2 DEF Remove, NoEntry
      <3> QED
        BY <1>6, <2>2, <3>1 DEF Remove, Stays, historyVars
    <2>3. CASE Unsubscribe(c)
      <3>1. Listed(x) /\ entry' = entry
        BY <1>6, <2>3 DEF Unsubscribe, Listed
      <3>2. /\ entry[x].conn \in Conns /\ OwnerOf[entry[x].conn] = x
            /\ entry[x].conn # c
        BY <2>3, <3>1, Owns DEF Unsubscribe, Left
      <3>3. x # OwnerOf[c]
        <4>1. CASE x = OwnerOf[c]
          <5>1. c \in Busy(x)
            BY <2>3, <4>1 DEF Unsubscribe, Busy
          <5>2. Outlived(x)
            BY <2>3, <3>1, <3>2, <5>1 DEF Outlived, Unsubscribe, Listed
          <5>3. x \in crossed
            BY <1>t, <5>2 DEF Followable, OutlivedMarked
          <5> QED
            BY <1>1, <5>3
        <4> QED
          BY <4>1
      <3>4. /\ told'[entry[x].conn] = told[entry[x].conn]
            /\ asked'[entry[x].conn] = asked[entry[x].conn]
        BY <1>t, <2>3, <3>2 DEF Unsubscribe, Closed
      <3>5. x \in subs[hst] => x \in subs'[hst]
        BY <1>t, <2>3, <3>3 DEF Unsubscribe
      <3> QED
        BY <1>6, <3>1, <3>4, <3>5 DEF Stays
    <2>4. CASE \E m \in Sent(c) : Subscribe(c, m)
      <3>1. PICK m \in Sent(c) : Subscribe(c, m)
        BY <2>4
      <3>2. m.to \in Hosts /\ entry' = entry
        BY <1>t, <3>1, SentType DEF Subscribe, TypeInvSent
      <3>3. Listed(x) /\ entry[x].conn \in Conns /\ OwnerOf[entry[x].conn] = x
        BY <1>6, <3>2, Owns DEF Listed
      <3>4. CASE entry[x].conn = c /\ m.to = hst
        <4>1. x = OwnerOf[c]
          BY <3>3, <3>4
        <4>2. told'[c][hst] = Word(PresenceIn(entry, hst, x)) /\ x \in subs'[hst]
          BY <1>t, <3>1, <3>4, <4>1 DEF Subscribe
        <4> QED
          BY <3>2, <3>4, <4>2 DEF JustTold
      <3>5. CASE ~(entry[x].conn = c /\ m.to = hst)
        <4>1. told'[entry[x].conn][hst] = told[entry[x].conn][hst]
          BY <1>t, <3>1, <3>2, <3>3, <3>5 DEF Subscribe
        <4>2. hst \in asked[entry[x].conn]
          BY <1>6, <1>t, <3>1, <3>2, <3>3, <3>5 DEF Subscribe
        <4>3. x \in subs[hst] => x \in subs'[hst]
          BY <1>t, <3>1, <3>2 DEF Subscribe
        <4> QED
          BY <3>2, <4>1, <4>2, <4>3 DEF Stays
      <3> QED
        BY <3>4, <3>5
    <2> QED
      BY <2>1, <2>2, <2>3, <2>4
<1> QED
    BY <1>1, <1>2, <1>4, <1>5, <1>6, PresenceKept DEF Goal

\* A client's registration is announced to nobody: if its task sends at all, not of
\* a host.
LEMMA ClientTell ==
    ASSUME Followable, NEW hst \in Hosts \ crossed', NEW c \in Conns,
           OwnerOf[c] \in Clients, NEW i \in Conns, NEW online \in BOOLEAN,
           Tell(c, i, online)
    PROVE  Goal(hst)
<1>t. /\ pc \in [Conns -> PcStates] /\ job \in [Conns -> Job]
      /\ told \in [Conns -> [Hosts -> {"unknown", "online", "offline"}]]
      /\ OwnerOf[c] # hst
    BY SignalingAssumption DEF Followable, Typed, Peers
<1>1. \A k \in Conns \ {c} : pc'[k] = pc[k] /\ job'[k] = job[k]
    BY <1>t DEF Tell, FanOut, Goto
<1>2. entry' = entry /\ subs' = subs /\ asked' = asked
    BY DEF Tell, historyVars
<1>3. \A k \in Conns : told'[k][hst] = told[k][hst]
    BY <1>t DEF Tell
<1>4. \A x \in Clients : Listed(x) => entry[x].conn \in Conns
    BY Owns
<1> QED
    BY <1>t, <1>1, <1>2, <1>3, <1>4, OtherStep

LEMMA PresenceStep ==
    ASSUME MapInv, PresenceInv, Step, Overlap
    PROVE  PresenceInv'
<1>a. Typed
    BY DEF MapInv, TypeInv, TypeOK, Typed
<1>1. BusyFinite' /\ OneBusy' /\ OutlivedMarked' /\ AskedLater'
    BY <1>a, BusyStep, AskedStep DEF PresenceInv
<1>2. Followable
    <2>1. crossed \subseteq crossed'
      BY DEF Overlap
    <2> QED
      BY <1>a, <2>1, FrozenStep DEF Followable, PresenceInv, MapInv
<1>3. ASSUME NEW hst \in Hosts \ crossed' PROVE Goal(hst)
    <2>1. ASSUME NEW c \in Conns, ConnTask(c) PROVE Goal(hst)
      <3>1. CASE HostTask(c)
        BY <1>1, <1>2, <3>1, OwnHost, OtherHost
      <3>2. CASE Authorize(c) \/ Pend(c) \/ Relay(c)
        BY <1>2, <3>2, QuietActions
      <3>3. CASE TimeOut(c)
        BY <1>2, <3>3, QuietCheck DEF TimeOut
      <3>4. CASE ~HostTask(c) /\ ~(Authorize(c) \/ Pend(c) \/ Relay(c)) /\ ~TimeOut(c)
        <4>1. OwnerOf[c] \in Hosts \/ OwnerOf[c] \in Clients
          BY SignalingAssumption DEF Peers
        <4>2. CASE OwnerOf[c] \in Clients
          <5>1. OwnerOf[c] \notin Hosts
            BY <4>2, SignalingAssumption
          <5>2. ~Register(c) /\ ~CopySubscribers(c) /\ ~SendOffline(c) /\ ~SetAcl(c)
            BY <1>a, <5>1
            DEF Typed, JobOK, Register, CopySubscribers, SendOffline, SetAcl
          <5>3. ASSUME NEW i \in Conns, NEW online \in BOOLEAN, Tell(c, i, online)
                PROVE  Goal(hst)
            BY <1>2, <4>2, <5>3, ClientTell
          <5> QED
            BY <1>2, <2>1, <3>4, <4>2, <5>2, <5>3, ClientTask DEF ConnTask
        <4>3. CASE OwnerOf[c] \in Hosts
          <5>1. ~Unsubscribe(c)
            BY <1>a, <4>3, SignalingAssumption DEF Typed, JobOK, Unsubscribe
          <5> QED
            BY <2>1, <3>4, <4>3, <5>1 DEF ConnTask, HostTask
        <4> QED
          BY <4>1, <4>2, <4>3
      <3> QED
        BY <3>1, <3>2, <3>3, <3>4
    <2>2. ASSUME NEW c \in Conns, NEW m \in Sent(c),
                 Subscribe(c, m) \/ UpdateAcl(c, m) \/ Verify(c, m)
          PROVE  Goal(hst)
      <3>1. TypeInvSent(c, m)
        BY <1>a, SentType DEF Typed
      <3>2. CASE Subscribe(c, m)
        <4>1. OwnerOf[c] \in Clients
          BY <3>1, <3>2 DEF TypeInvSent, Subscribe
        <4> QED
          BY <1>2, <3>2, <4>1, ClientTask
      <3>3. CASE UpdateAcl(c, m)
        <4>1. OwnerOf[c] \in Hosts
          BY <3>1, <3>3 DEF TypeInvSent, UpdateAcl
        <4>2. HostTask(c)
          BY <3>3, <4>1 DEF HostTask
        <4> QED
          BY <1>1, <1>2, <4>2, OwnHost, OtherHost
      <3>4. CASE Verify(c, m)
        BY <1>2, <3>4, QuietVerify
      <3> QED
        BY <2>2, <3>2, <3>3, <3>4
    <2>3. ASSUME NEW c \in Conns, Leave(c) \/ GoSilent(c) PROVE Goal(hst)
      BY <1>2, <2>3, QuietCheck, QuietActions DEF Leave
    <2>4. ASSUME NEW g \in Hosts, NEW x \in Clients, Expire(g, x) PROVE Goal(hst)
      BY <1>2, <2>4, QuietExpire
    <2> QED
      BY <2>1, <2>2, <2>3, <2>4 DEF Step, Receive
<1> QED
    BY <1>1, <1>3 DEF PresenceInv, Goal

\* What a client was last told of a host is what the host's entry and list say,
\* once the host is at rest, unless operations of the two overlapped.
THEOREM PresenceIsExact == Spec => []PresenceExact
<1> DEFINE Inv == MapInv /\ PresenceInv
<1>1. Init => Inv
    <2> SUFFICES ASSUME Init PROVE MapInv /\ PresenceInv
      OBVIOUS
    <2>1. MapInv
      BY TypeInvInit, SignalingAssumption
      DEF Init, MapInv, NoGhostEntry, Listed, NoEntry
    <2>2. \A p \in Peers : Busy(p) = {}
      BY DEF Init, Busy
    <2>3. BusyFinite /\ OneBusy /\ OutlivedMarked /\ AskedLater
      BY <2>2, FS_EmptySet
      DEF BusyFinite, OneBusy, OutlivedMarked, Outlived, AskedLater, Init
    <2>4. \A hst \in Hosts : Copied(hst) /\ Followed(hst)
      BY <2>2, SignalingAssumption DEF Init, Copied, Followed, Listed, NoEntry, Peers
    <2> QED
      BY <2>1, <2>3, <2>4 DEF PresenceInv
<1>2. Inv /\ [Next]_vars => Inv'
    <2> SUFFICES ASSUME Inv, [Next]_vars PROVE PresenceInv'
      BY MapInvStep
    <2>1. CASE Next
      BY <2>1, PresenceStep DEF Next
    <2>2. CASE UNCHANGED vars
      BY <2>2 DEF vars, PresenceInv, BusyFinite, OneBusy, OutlivedMarked, Outlived,
                  AskedLater, Copied, Followed, Exact, Busy, Listed, peerVars, historyVars
    <2> QED
      BY <2>1, <2>2
<1>3. Inv => PresenceExact
    <2> SUFFICES ASSUME Inv, NEW x \in Clients, NEW hst \in Hosts,
                        Settled(x), Settled(hst), Listed(x), hst \in asked[entry[x].conn]
                 PROVE  told[entry[x].conn][hst] = Word(PresenceIn(entry, hst, x))
      BY DEF PresenceExact
    <2> QED
      BY DEF PresenceInv, Followed, Exact, Settled
<1> QED
    BY <1>1, <1>2, <1>3, PTL DEF Spec

=============================================================================
