-------------------------- MODULE NodeRuntimeProofs --------------------------
(***************************************************************************)
(* Theorems about a node, for any number of sessions, control links,       *)
(* capture loops and faults.                                               *)
(***************************************************************************)
EXTENDS NodeRuntime, TLAPS

\* What an activation has done when it is at a place.
ActOK ==
    \A s \in Sess :
        /\ act[s].pc \in {"none", "spawned"} =>
               /\ entry[s] = "none" /\ conn[s] = "none"
               /\ \A t \in CloserTasks : ~closer[s][t].found
        /\ act[s].pc \in {"none", "spawned", "track", "arm"} => stop[s] = "none"
        /\ act[s].pc \in {"none", "spawned", "track", "arm", "subscribe"} =>
               waiter[s] = "none"
        /\ act[s].pc = "subscribe" \/ waiter[s] = "waiting" => stop[s] # "none"

TypeInv == TypeOK /\ ActOK

LEMMA Constants ==
    /\ 1 \in Links
    /\ NoStream \notin Streams
    /\ \A k \in Links : k < MaxLinks => k + 1 \in Links
BY NodeAssumption DEF Links, Streams, NoStream

-----------------------------------------------------------------------------
(* The types *)

LEMMA TypeInvInit == Init => TypeInv
BY Constants DEF Init, TypeInv, TypeOK, ActOK, RunPcs, RtcStates, ActPcs,
   CloserTasks, CloserPcs, NoCloser

Closer == [pc : CloserPcs, found : BOOLEAN, k : Links]
Stream == [st : {"none", "running", "ended", "gone"}, subs : SUBSET Sess,
           stopped : BOOLEAN]

\* The types, one by one.
Typed ==
    /\ run \in [pc : RunPcs, k : Links]
    /\ rtc \in [Links -> RtcStates]
    /\ notice \subseteq Links
    /\ act \in [Sess -> [pc : ActPcs, k : Links]]
    /\ entry \in [Sess -> {"none", "bare", "armed"}]
    /\ conn \in [Sess -> {"none", "new", "open", "bad"}]
    /\ stop \in [Sess -> {"none", "held", "sent", "dropped"}]
    /\ waiter \in [Sess -> {"none", "waiting", "done"}]
    /\ closer \in [Sess -> [CloserTasks -> Closer]]
    /\ camera \in {NoStream} \cup Streams
    /\ stream \in [Streams -> Stream]
    /\ faults \in Nat
    /\ told \in [Sess -> {"none", "active", "closed"}]
    /\ overtaken \subseteq Sess /\ lost \subseteq Sess

Armed == \A s \in Sess : stop[s] = "held" <=> entry[s] = "armed"

LEMMA TypeInvParts == TypeInv <=> Typed /\ Armed /\ ActOK
BY DEF TypeInv, TypeOK, Typed, Armed, Closer, Stream

\* The link part changes by itself, and so do the sessions and the camera.
LinkStep ==
    \/ Connect \/ Handshake \/ Lose \/ SignalingLost \/ Retry
    \/ \E k \in Links : \/ \E st \in RtcStates : Change(k, st)
                        \/ Recheck(k) \/ Refused(k)

LEMMA LinkStepTyped ==
    ASSUME Typed, Armed, ActOK, LinkStep
    PROVE  /\ Typed' /\ Armed' /\ ActOK'
           /\ UNCHANGED <<sessVars, waiter, cameraVars>>
<1> USE DEF RunPcs, RtcStates, Fault
<1>1. UNCHANGED <<sessVars, waiter, cameraVars>>
    BY DEF LinkStep, Connect, Handshake, Lose, SignalingLost, Retry, Change,
           Recheck, Refused
<1>2. Armed' /\ ActOK'
    BY <1>1 DEF Armed, ActOK, sessVars
<1>3. /\ run' \in [pc : RunPcs, k : Links] /\ rtc' \in [Links -> RtcStates]
      /\ notice' \subseteq Links /\ faults' \in Nat
    <2>t. /\ run \in [pc : RunPcs, k : Links] /\ rtc \in [Links -> RtcStates]
          /\ notice \subseteq Links /\ faults \in Nat
      BY DEF Typed
    <2>1. CASE Connect \/ Handshake \/ Lose \/ SignalingLost
      BY <2>t, <2>1 DEF Connect, Handshake, Lose, SignalingLost
    <2>2. CASE Retry
      BY <2>t, <2>2, Constants DEF Retry
    <2>3. CASE \E k \in Links : \/ \E st \in RtcStates : Change(k, st)
                                \/ Recheck(k) \/ Refused(k)
      BY <2>t, <2>3 DEF Change, Recheck, Refused
    <2> QED
      BY <2>1, <2>2, <2>3 DEF LinkStep
<1> QED
    BY <1>1, <1>2, <1>3 DEF Typed, sessVars, cameraVars

LEMMA ActivationTyped ==
    ASSUME Typed, Armed, ActOK, NEW s \in Sess, Activation(s)
    PROVE  Typed' /\ Armed' /\ ActOK'
<1>a. act \in [Sess -> [pc : ActPcs, k : Links]]
    BY DEF Typed
<1> USE DEF At, ActPcs
\* The task moves on to a later place.
<1>1. ASSUME NEW pc \in ActPcs, At(s, pc)
      PROVE  /\ act' \in [Sess -> [pc : ActPcs, k : Links]]
             /\ act'[s].pc = pc /\ \A r \in Sess \ {s} : act'[r] = act[r]
    BY <1>a, <1>1
<1>2. CASE Insert(s)
    <2>1. PICK pc \in {"track", "done"} : At(s, pc)
      BY <1>2 DEF Insert
    <2>2. /\ act' \in [Sess -> [pc : ActPcs, k : Links]]
          /\ act'[s].pc = pc /\ \A r \in Sess \ {s} : act'[r] = act[r]
      BY <1>1, <2>1
    <2>3. stop[s] = "none" /\ entry[s] = "none" /\ waiter[s] = "none"
      BY <1>2 DEF Insert, ActOK
    <2>4. Typed'
      BY <1>2, <2>2 DEF Insert, Typed, linkVars, cameraVars
    <2>5. Armed'
      BY <1>2, <2>3 DEF Insert, Armed, Typed
    <2> QED
      <3>1. UNCHANGED <<stop, waiter, closer>>
        BY <1>2 DEF Insert
      <3>2. \A x \in Sess \ {s} : entry'[x] = entry[x] /\ conn'[x] = conn[x]
        BY <1>2 DEF Insert, Typed
      <3>3. ActOK'
        BY <2>1, <2>2, <2>3, <3>1, <3>2 DEF ActOK
      <3> QED
        BY <2>4, <2>5, <3>3
<1>3. CASE AddTrack(s) \/ MakeOffer(s) \/ ReportActive(s)
    <2>1. PICK pc \in {"arm", "offer", "report", "done"} :
             /\ At(s, pc)
             /\ pc = "arm" => act[s].pc = "track"
      BY <1>3 DEF AddTrack, MakeOffer, ReportActive
    <2>2. /\ act' \in [Sess -> [pc : ActPcs, k : Links]]
          /\ act'[s].pc = pc /\ \A r \in Sess \ {s} : act'[r] = act[r]
      BY <1>1, <2>1
    <2>3. told' \in [Sess -> {"none", "active", "closed"}]
      BY <1>3 DEF AddTrack, MakeOffer, ReportActive, Status, Typed
    <2>4. UNCHANGED <<linkVars, entry, conn, stop, waiter, closer, overtaken,
                      cameraVars>>
      BY <1>3 DEF AddTrack, MakeOffer, ReportActive
    <2>5. act[s].pc \notin {"none", "spawned"}
      BY <1>3 DEF AddTrack, MakeOffer, ReportActive
    <2> QED
      BY <2>1, <2>2, <2>3, <2>4, <2>5 DEF Typed, Armed, ActOK, linkVars, cameraVars
<1>4. CASE Arm(s)
    <2>2. /\ act' \in [Sess -> [pc : ActPcs, k : Links]]
          /\ act'[s].pc = "subscribe" /\ \A r \in Sess \ {s} : act'[r] = act[r]
      BY <1>1, <1>4 DEF Arm
    <2>3. act[s].pc = "arm" /\ stop[s] = "none" /\ entry[s] # "armed"
      BY <1>4 DEF Arm, ActOK, Armed
    <2>4. Typed'
      <3>1. /\ entry' \in [Sess -> {"none", "bare", "armed"}]
            /\ stop' \in [Sess -> {"none", "held", "sent", "dropped"}]
        BY <1>4 DEF Arm, Typed
      <3> QED
        BY <1>4, <2>2, <3>1 DEF Arm, Typed, linkVars, cameraVars
    <2>5. Armed'
      BY <1>4, <2>3 DEF Arm, Armed, Typed
    <2> QED
      BY <1>4, <2>2, <2>3, <2>4, <2>5 DEF Arm, ActOK, Typed
<1>5. CASE Subscribe(s)
    <2>2. /\ act' \in [Sess -> [pc : ActPcs, k : Links]]
          /\ act'[s].pc = "offer" /\ \A r \in Sess \ {s} : act'[r] = act[r]
      BY <1>1, <1>5 DEF Subscribe
    <2>3. /\ waiter' = [waiter EXCEPT ![s] = "waiting"]
          /\ act[s].pc = "subscribe"
          /\ UNCHANGED <<linkVars, entry, conn, stop, closer, told, overtaken>>
      BY <1>5 DEF Subscribe
    <2>4. stream' \in [Streams -> Stream] /\ camera' \in {NoStream} \cup Streams
              /\ lost' \subseteq Sess
      <3>1. stream \in [Streams -> Stream] /\ camera \in {NoStream} \cup Streams
               /\ lost \subseteq Sess
        BY DEF Typed
      <3>2. CASE camera # NoStream
        <4>1. camera \in Streams
          BY <3>1, <3>2
        <4>2. [stream[camera] EXCEPT !.subs = @ \cup {s}] \in Stream
          BY <3>1, <4>1 DEF Stream
        <4>3. stream' = [stream EXCEPT ![camera] =
                            [stream[camera] EXCEPT !.subs = @ \cup {s}]]
          BY <1>5, <3>2 DEF Subscribe
        <4> QED
          BY <1>5, <3>1, <3>2, <4>2, <4>3 DEF Subscribe
      <3>3. CASE camera = NoStream
        <4>1. PICK g \in Streams :
                 /\ camera' = g /\ lost' = lost
                 /\ stream' = [stream EXCEPT ![g] =
                       [st |-> "running", subs |-> {s}, stopped |-> FALSE]]
          BY <1>5, <3>3 DEF Subscribe
        <4>2. [st |-> "running", subs |-> {s}, stopped |-> FALSE] \in Stream
          BY DEF Stream
        <4> QED
          BY <3>1, <4>1, <4>2
      <3> QED
        BY <3>2, <3>3
    <2>5. Typed'
      BY <2>2, <2>3, <2>4 DEF Typed, linkVars
    <2> QED
      BY <2>2, <2>3, <2>5 DEF Armed, ActOK, Typed
<1> QED
    BY <1>2, <1>3, <1>4, <1>5 DEF Activation

LEMMA SessionTyped ==
    ASSUME Typed, Armed, ActOK, NEW s \in Sess, NEW k \in Links,
           \/ RecvActivate(k, s) \/ RecvDeactivate(k, s) \/ RecvSignal(k, s)
           \/ ConnDown(s) \/ Closing(s)
    PROVE  Typed' /\ Armed' /\ ActOK'
<1>c. closer \in [Sess -> [CloserTasks -> Closer]] /\ act \in [Sess -> [pc : ActPcs, k : Links]]
    BY DEF Typed
<1>1. CASE RecvActivate(k, s)
    <2>1. act' \in [Sess -> [pc : ActPcs, k : Links]]
      BY <1>c, <1>1 DEF RecvActivate, ActPcs
    <2>2. Typed' /\ Armed'
      BY <1>1, <2>1 DEF RecvActivate, Typed, Armed, linkVars, cameraVars
    <2> QED
      BY <1>c, <1>1, <2>2 DEF RecvActivate, ActOK
<1>2. CASE RecvSignal(k, s)
    BY <1>2 DEF RecvSignal, Typed, Armed, ActOK, linkVars, cameraVars
<1>3. ASSUME NEW t \in CloserTasks, NEW i \in Links, Spawn(s, t, i)
      PROVE  /\ closer' \in [Sess -> [CloserTasks -> Closer]]
             /\ \A x \in Sess, j \in CloserTasks :
                   closer'[x][j].found => closer[x][j].found
    <2>1. [pc |-> "spawned", found |-> FALSE, k |-> i] \in Closer
      BY DEF Closer, CloserPcs
    <2> QED
      BY <1>c, <1>3, <2>1 DEF Spawn
<1>4. CASE RecvDeactivate(k, s)
    <2>1. closer' \in [Sess -> [CloserTasks -> Closer]]
      BY <1>3, <1>4 DEF RecvDeactivate, CloserTasks
    <2>2. \A x \in Sess, j \in CloserTasks : closer'[x][j].found => closer[x][j].found
      BY <1>3, <1>4 DEF RecvDeactivate, CloserTasks
    <2>3. Typed' /\ Armed'
      BY <1>4, <2>1 DEF RecvDeactivate, Typed, Armed, linkVars, cameraVars
    <2> QED
      BY <1>4, <2>2, <2>3 DEF RecvDeactivate, ActOK
<1>5. CASE ConnDown(s)
    <2>1. closer' \in [Sess -> [CloserTasks -> Closer]]
      BY <1>c, <1>3, <1>5 DEF ConnDown, CloserTasks
    <2>2. \A x \in Sess, j \in CloserTasks : closer'[x][j].found => closer[x][j].found
      BY <1>c, <1>3, <1>5 DEF ConnDown, CloserTasks
    <2>3. Typed' /\ Armed'
      BY <1>5, <2>1 DEF ConnDown, Typed, Armed, linkVars, cameraVars
    <2> QED
      <3>1. /\ UNCHANGED <<act, entry, stop, waiter>>
            /\ act[s].pc \notin {"none", "spawned"}
            /\ \A x \in Sess \ {s} : conn'[x] = conn[x]
        BY <1>5 DEF ConnDown, Typed
      <3> QED
        BY <2>2, <2>3, <3>1 DEF ActOK
<1>6. ASSUME NEW t \in CloserTasks, TakeOut(s, t) PROVE Typed' /\ Armed' /\ ActOK'
    <2>1. closer' \in [Sess -> [CloserTasks -> Closer]]
      <3>1. [closer[s][t] EXCEPT !.pc = "close", !.found = entry[s] # "none"]
                \in Closer
        <4>1. closer[s][t] \in Closer /\ (entry[s] # "none") \in BOOLEAN
          BY <1>c
        <4> QED
          BY <4>1 DEF Closer, CloserPcs
      <3>2. closer' = [closer EXCEPT ![s] = [closer[s] EXCEPT ![t] =
               [closer[s][t] EXCEPT !.pc = "close", !.found = entry[s] # "none"]]]
        BY <1>6 DEF TakeOut
      <3> QED
        BY <1>c, <3>1, <3>2
    <2>2. Typed'
      BY <1>6, <2>1 DEF TakeOut, Typed, linkVars, cameraVars
    <2>3. \A x \in Sess, j \in CloserTasks :
             closer'[x][j].found => closer[x][j].found \/ entry[x] # "none"
      BY <1>c, <1>6 DEF TakeOut, Closer
    <2>4. Armed'
      BY <1>6 DEF TakeOut, Typed, Armed
    <2>5. UNCHANGED <<act, conn, waiter>>
      BY <1>6 DEF TakeOut
    <2>6. \A x \in Sess : /\ entry[x] = "none" => entry'[x] = "none"
                          /\ stop'[x] = "none" <=> stop[x] = "none"
      BY <1>6 DEF TakeOut, Typed, Armed
    <2> QED
      BY <2>2, <2>3, <2>4, <2>5, <2>6 DEF ActOK
<1>7. ASSUME NEW t \in CloserTasks, CloseConn(s, t) PROVE Typed' /\ Armed' /\ ActOK'
    <2> DEFINE c == closer[s][t]
               d == [c EXCEPT !.pc = "done"]
               e == IF c.found /\ conn[s] # "bad" /\ t = "deactivate"
                    THEN [pc |-> "spawned", found |-> FALSE, k |-> act[s].k]
                    ELSE IF t = "callback" THEN d
                    ELSE closer[s]["callback"]
    <2>1. d \in Closer /\ e \in Closer
      BY <1>c DEF Closer, CloserPcs, CloserTasks
    <2>2. closer' = [closer EXCEPT ![s] =
                        [[closer[s] EXCEPT ![t] = d] EXCEPT !["callback"] = e]]
      BY <1>c, <1>7 DEF CloseConn, CloserTasks
    <2>3. closer' \in [Sess -> [CloserTasks -> Closer]]
      <3> HIDE DEF d, e
      <3> QED
        BY <1>c, <2>1, <2>2
    <2>4. /\ told' \in [Sess -> {"none", "active", "closed"}]
          /\ conn' \in [Sess -> {"none", "new", "open", "bad"}]
      BY <1>7 DEF CloseConn, Status, Typed
    <2>5. Typed' /\ Armed'
      BY <1>7, <2>3, <2>4 DEF CloseConn, Typed, Armed, linkVars, cameraVars
    <2>6. ASSUME NEW x \in Sess, act[x].pc \in {"none", "spawned"}
          PROVE  conn'[x] = "none" /\ \A i \in CloserTasks : ~closer'[x][i].found
      <3>1. CASE x = s
        <4>1. ~c.found /\ conn[s] = "none"
          BY <2>6, <3>1 DEF ActOK
        <4>2. ~d.found /\ ~e.found
          BY <1>c, <2>6, <3>1, <4>1 DEF ActOK, Closer, CloserTasks
        <4>3. conn'[s] = "none"
          BY <1>7, <4>1 DEF CloseConn
        <4> HIDE DEF d, e
        <4> QED
          BY <1>c, <2>2, <2>6, <3>1, <4>2, <4>3 DEF ActOK
      <3>2. CASE x # s
        BY <1>c, <1>7, <2>2, <2>6, <3>2 DEF CloseConn, Typed, ActOK
      <3> QED
        BY <3>1, <3>2
    <2>7. UNCHANGED <<act, entry, stop, waiter>>
      BY <1>7 DEF CloseConn
    <2> QED
      BY <2>5, <2>6, <2>7 DEF ActOK
<1> QED
    BY <1>1, <1>2, <1>4, <1>5, <1>6, <1>7 DEF Closing

LEMMA CameraTyped ==
    ASSUME Typed, Armed, ActOK,
           (\E s \in Sess : Unsubscribe(s)) \/ (\E g \in Streams : Capture(g))
    PROVE  Typed' /\ Armed' /\ ActOK'
<1>t. stream \in [Streams -> Stream] /\ camera \in {NoStream} \cup Streams
         /\ lost \subseteq Sess
    BY DEF Typed
<1>1. ASSUME NEW s \in Sess, Unsubscribe(s) PROVE Typed' /\ Armed' /\ ActOK'
    <2>1. stream' \in [Streams -> Stream] /\ camera' \in {NoStream} \cup Streams
      <3>1. CASE camera = NoStream
        BY <1>t, <1>1, <3>1 DEF Unsubscribe
      <3>2. CASE camera # NoStream
        <4> DEFINE left == stream[camera].subs \ {s}
                   new == [stream[camera] EXCEPT !.subs = left,
                             !.stopped = @ \/ Remaining(left) = {}]
        <4>1. camera \in Streams /\ stream[camera] \in Stream
          BY <1>t, <3>2
        <4>2. left \in SUBSET Sess
                 /\ (stream[camera].stopped \/ Remaining(left) = {}) \in BOOLEAN
          BY <4>1 DEF Stream
        <4>3. new \in Stream
          <5> HIDE DEF left
          <5> QED
            BY <4>1, <4>2 DEF Stream
        <4>4. /\ stream' = [stream EXCEPT ![camera] = new]
              /\ camera' \in {NoStream, camera}
          BY <1>1, <3>2 DEF Unsubscribe
        <4> HIDE DEF new
        <4> QED
          BY <1>t, <4>1, <4>3, <4>4
      <3> QED
        BY <3>1, <3>2
    <2>2. Typed'
      BY <1>1, <2>1 DEF Unsubscribe, Typed, linkVars, sessVars
    <2> QED
      BY <1>1, <2>2 DEF Unsubscribe, Armed, ActOK, Typed, sessVars
<1>2. ASSUME NEW g \in Streams, EndStream(g) PROVE Typed' /\ Armed' /\ ActOK'
    <2>1. stream' \in [Streams -> Stream]
      BY <1>t, <1>2 DEF EndStream, Stream
    <2>2. lost' \subseteq Sess /\ faults' \in Nat
      BY <1>t, <1>2 DEF EndStream, Stream, Fault, Typed
    <2>3. Typed'
      BY <1>2, <2>1, <2>2 DEF EndStream, Typed, sessVars
    <2> QED
      BY <1>2, <2>3 DEF EndStream, Armed, ActOK, sessVars
<1>3. ASSUME NEW g \in Streams, CleanStream(g) PROVE Typed' /\ Armed' /\ ActOK'
    <2>1. stream' \in [Streams -> Stream]
      BY <1>t, <1>3 DEF CleanStream, Stream
    <2>2. lost' \subseteq Sess
      BY <1>t, <1>3 DEF CleanStream, Stream
    <2>3. Typed'
      BY <1>3, <2>1, <2>2 DEF CleanStream, Typed, sessVars, linkVars
    <2> QED
      BY <1>3, <2>3 DEF CleanStream, Armed, ActOK, sessVars
<1> QED
    BY <1>1, <1>2, <1>3 DEF Capture

\* What a step can be.
LEMMA NextCases ==
    ASSUME Next
    PROVE  \/ LinkStep
           \/ \E s \in Sess : Activation(s)
           \/ \E s \in Sess, k \in Links :
                 RecvActivate(k, s) \/ RecvDeactivate(k, s) \/ RecvSignal(k, s)
           \/ \E s \in Sess : ConnDown(s) \/ Closing(s) \/ Unsubscribe(s)
           \/ \E g \in Streams : Capture(g)
BY DEF Next, LinkStep

LEMMA TypeInvStep == TypeInv /\ [Next]_vars => TypeInv'
<1> SUFFICES ASSUME Typed, Armed, ActOK, [Next]_vars PROVE Typed' /\ Armed' /\ ActOK'
    BY TypeInvParts DEF TypeInv, TypeOK, Typed, Armed, Closer, Stream
<1>1. CASE Next
    BY <1>1, NextCases, LinkStepTyped, ActivationTyped, SessionTyped, CameraTyped,
       Constants
<1>2. CASE UNCHANGED vars
    BY <1>2 DEF vars, Typed, Armed, ActOK
<1> QED
    BY <1>1, <1>2

\* TypeOK holds, and a stop channel is held by the session's entry only.
THEOREM TypeCorrect == Spec => []TypeOK
<1>1. TypeInv => TypeOK
    BY DEF TypeInv
<1> QED
    BY <1>1, TypeInvInit, TypeInvStep, PTL DEF Spec

-----------------------------------------------------------------------------
(* The control link *)

\* The end of a link is in its close channel, and a link the node waits on, or
\* has left, has been set up.
LinkInv ==
    \A k \in Links :
        /\ rtc[k] \in {"failed", "closed"} => k \in notice
        /\ k < run.k \/ (k = run.k /\ run.pc \in {"linked", "retry", "ended"})
               => rtc[k] \notin {"none", "new"}

LEMMA LinkInvStep ==
    ASSUME Typed, LinkInv, [Next]_vars
    PROVE  LinkInv'
<1>t. /\ run \in [pc : RunPcs, k : Links] /\ rtc \in [Links -> RtcStates]
      /\ notice \subseteq Links
    BY DEF Typed
<1>1. ASSUME UNCHANGED <<run, rtc, notice>> PROVE LinkInv'
    BY <1>1 DEF LinkInv
<1>n. run.k \in Nat /\ \A k \in Links : k \in Nat
    BY <1>t DEF Links
<1>2. CASE Connect \/ Handshake
    <2>1. /\ run'.k = run.k /\ run.pc \in {"connect", "handshake"}
          /\ run'.pc \in {"linked", "retry"} => rtc'[run.k] \notin {"none", "new"}
          /\ run'.pc \in {"handshake", "linked", "retry"}
          /\ \A i \in Links \ {run.k} : rtc'[i] = rtc[i]
      BY <1>t, <1>2 DEF Connect, Handshake, Up, RunPcs
    <2>2. \A i \in Links : rtc'[i] \in {"failed", "closed"} => i \in notice'
      BY <1>t, <1>2 DEF Connect, Handshake, LinkInv
    <2> QED
      BY <1>t, <1>n, <2>1, <2>2 DEF LinkInv
<1>3. CASE Lose \/ SignalingLost \/ Retry
    <2>1. UNCHANGED <<rtc, notice>>
      BY <1>3 DEF Lose, SignalingLost, Retry
    <2>2. /\ run.pc \in {"linked", "retry"}
          /\ \/ run'.k = run.k
             \/ run'.k = run.k + 1 /\ run'.pc = "connect"
      BY <1>t, <1>3 DEF Lose, SignalingLost, Retry, RunPcs
    <2> QED
      BY <1>t, <1>n, <2>1, <2>2 DEF LinkInv
<1>4. ASSUME NEW i \in Links, NEW st \in RtcStates, Change(i, st) PROVE LinkInv'
    BY <1>t, <1>4 DEF Change, LinkInv, Noticed
<1>5. ASSUME NEW i \in Links, Recheck(i) \/ Refused(i) PROVE LinkInv'
    BY <1>t, <1>5 DEF Recheck, Refused, LinkInv, Noticed, Up
<1>6. ASSUME NEW s \in Sess, Activation(s) PROVE LinkInv'
    BY <1>1, <1>6 DEF Activation, Insert, AddTrack, Arm, Subscribe, MakeOffer,
       ReportActive, linkVars
<1>7. ASSUME NEW s \in Sess, NEW k \in Links,
             \/ RecvActivate(k, s) \/ RecvDeactivate(k, s) \/ RecvSignal(k, s)
             \/ ConnDown(s) \/ Closing(s) \/ Unsubscribe(s)
      PROVE  LinkInv'
    BY <1>1, <1>7 DEF RecvActivate, RecvDeactivate, RecvSignal, ConnDown, Closing,
       TakeOut, CloseConn, Unsubscribe, linkVars
<1>8. ASSUME NEW g \in Streams, Capture(g) PROVE LinkInv'
    BY <1>1, <1>8 DEF Capture, EndStream, CleanStream, linkVars
<1>9. CASE UNCHANGED vars
    BY <1>1, <1>9 DEF vars
<1> QED
    BY <1>2, <1>3, <1>4, <1>5, <1>6, <1>7, <1>8, <1>9, NextCases, Constants
    DEF LinkStep

\* The node never sits on a control link that is gone.
THEOREM LossIsNoticed == Spec => []LossNoticed
<1> DEFINE Inv == TypeInv /\ LinkInv
<1>1. Init => Inv
    BY TypeInvInit DEF Init, LinkInv, Links
<1>2. Inv /\ [Next]_vars => Inv'
    BY TypeInvStep, TypeInvParts, LinkInvStep
<1>3. Inv => LossNoticed
    BY TypeInvParts DEF LinkInv, LossNoticed, Typed, RtcStates, Up
<1> QED
    BY <1>1, <1>2, <1>3, PTL DEF Spec

-----------------------------------------------------------------------------
(* The camera *)

\* A loop that goes on is the device's, the device's loop has not been stopped,
\* and whoever is served by a loop that goes on waits for the end of its session.
CameraInv ==
    /\ \A g \in Streams : /\ camera = g => stream[g].st # "none"
                                           /\ ~stream[g].stopped
                          /\ (stream[g].st = "running" /\ ~stream[g].stopped) =>
                                 /\ camera = g
                                 /\ \A s \in stream[g].subs : waiter[s] = "waiting"
    /\ StreamServed

LEMMA CameraInvStep ==
    ASSUME Typed, Armed, ActOK, CameraInv, [Next]_vars
    PROVE  CameraInv'
<1>t. /\ stream \in [Streams -> Stream] /\ camera \in {NoStream} \cup Streams
      /\ lost \subseteq Sess /\ waiter \in [Sess -> {"none", "waiting", "done"}]
      /\ NoStream \notin Streams
    BY Constants DEF Typed
<1>1. ASSUME UNCHANGED <<cameraVars, waiter>>,
             \A s \in Sess : waiter[s] = "waiting" /\ stop'[s] = "held" => stop[s] = "held"
      PROVE  CameraInv'
    BY <1>1 DEF CameraInv, StreamServed, cameraVars
<1>2. CASE LinkStep
    BY <1>1, <1>2, LinkStepTyped DEF sessVars
<1>3. ASSUME NEW s \in Sess, Activation(s), ~Subscribe(s) PROVE CameraInv'
    <2>1. CASE Arm(s)
      BY <1>1, <2>1 DEF Arm, ActOK, Typed
    <2>2. CASE ~Arm(s)
      BY <1>1, <1>3, <2>2 DEF Activation, Insert, AddTrack, MakeOffer, ReportActive
    <2> QED
      BY <2>1, <2>2
<1>4. ASSUME NEW s \in Sess, NEW k \in Links,
             \/ RecvActivate(k, s) \/ RecvDeactivate(k, s) \/ RecvSignal(k, s)
             \/ ConnDown(s) \/ Closing(s)
      PROVE  CameraInv'
    <2>1. ASSUME NEW t \in CloserTasks, TakeOut(s, t) PROVE CameraInv'
      BY <1>1, <2>1 DEF TakeOut, Typed
    <2> QED
      BY <1>1, <1>4, <2>1
      DEF RecvActivate, RecvDeactivate, RecvSignal, ConnDown, Closing, CloseConn
<1>5. ASSUME NEW s \in Sess, Subscribe(s) PROVE CameraInv'
    <2>s. stop' = stop /\ waiter' = [waiter EXCEPT ![s] = "waiting"] /\ waiter[s] = "none"
      BY <1>5 DEF Subscribe, ActOK
    <2>1. CASE camera # NoStream
      <3>1. camera \in Streams /\ camera' = camera
        BY <1>t, <1>5, <2>1 DEF Subscribe
      <3> DEFINE new == [stream[camera] EXCEPT !.subs = @ \cup {s}]
      <3>2. stream' = [stream EXCEPT ![camera] = new]
        BY <1>5, <2>1 DEF Subscribe
      <3>3. /\ stream'[camera].st = stream[camera].st
            /\ stream'[camera].stopped = stream[camera].stopped
            /\ stream'[camera].subs = stream[camera].subs \cup {s}
            /\ \A f \in Streams \ {camera} : stream'[f] = stream[f]
        <4>1. stream[camera] \in Stream
          BY <1>t, <3>1
        <4>2. /\ new.st = stream[camera].st
              /\ new.stopped = stream[camera].stopped
              /\ new.subs = stream[camera].subs \cup {s}
          BY <4>1 DEF Stream
        <4> HIDE DEF new
        <4> QED
          BY <1>t, <3>1, <3>2, <4>2
      <3>4. lost' = IF stream[camera].st = "running" THEN lost ELSE lost \cup {s}
        BY <1>5, <2>1 DEF Subscribe
      <3>5. StreamServed'
        BY <1>t, <2>s, <3>1, <3>3, <3>4 DEF CameraInv, StreamServed
      <3> QED
        BY <1>t, <2>s, <3>1, <3>3, <3>5 DEF CameraInv, Stream
    <2>2. CASE camera = NoStream
      <3>1. PICK g \in Streams :
               /\ camera' = g /\ lost' = lost /\ stream[g].st = "none"
               /\ stream' = [stream EXCEPT ![g] =
                     [st |-> "running", subs |-> {s}, stopped |-> FALSE]]
        BY <1>5, <2>2 DEF Subscribe
      <3>2. /\ stream'[g] = [st |-> "running", subs |-> {s}, stopped |-> FALSE]
            /\ \A f \in Streams \ {g} : stream'[f] = stream[f]
        BY <1>t, <3>1
      <3>3. \A x \in Sess \ lost : ~(waiter[x] = "waiting" /\ stop[x] = "held")
        BY <2>2 DEF CameraInv, StreamServed
      <3>4. StreamServed'
        BY <1>t, <2>s, <3>1, <3>2, <3>3 DEF StreamServed
      <3>5. \A f \in Streams : ~(stream[f].st = "running" /\ ~stream[f].stopped)
        BY <1>t, <2>2 DEF CameraInv
      <3> QED
        BY <1>t, <2>s, <3>1, <3>2, <3>4, <3>5 DEF CameraInv
    <2> QED
      BY <2>1, <2>2
<1>6. ASSUME NEW s \in Sess, Unsubscribe(s) PROVE CameraInv'
    <2>s. /\ stop' = stop /\ lost' = lost /\ stop[s] # "held"
          /\ waiter' = [waiter EXCEPT ![s] = "done"]
      BY <1>6 DEF Unsubscribe, Stopped, sessVars
    <2>1. CASE camera = NoStream
      <3>1. UNCHANGED <<camera, stream>>
        BY <1>6, <2>1 DEF Unsubscribe
      <3> QED
        BY <1>t, <2>1, <2>s, <3>1 DEF CameraInv, StreamServed
    <2>2. CASE camera # NoStream
      <3> DEFINE left == stream[camera].subs \ {s}
      <3>1. camera \in Streams
        BY <1>t, <2>2
      <3> DEFINE new == [stream[camera] EXCEPT !.subs = left,
                                               !.stopped = @ \/ left = {}]
      <3>2. /\ stream' = [stream EXCEPT ![camera] = new]
            /\ camera' = IF left = {} THEN NoStream ELSE camera
        BY <1>6, <2>2 DEF Unsubscribe, Remaining
      <3>3. /\ stream'[camera].st = stream[camera].st
            /\ stream'[camera].subs = left
            /\ stream'[camera].stopped <=> left = {}
            /\ \A f \in Streams \ {camera} : stream'[f] = stream[f]
        <4>1. ~stream[camera].stopped /\ stream[camera] \in Stream
          BY <1>t, <3>1 DEF CameraInv
        <4>2. new.st = stream[camera].st /\ new.subs = left
          BY <4>1 DEF Stream
        <4>3. new.stopped <=> left = {}
          BY <4>1, Zenon DEF Stream
        <4> HIDE DEF new
        <4> QED
          BY <1>t, <3>1, <3>2, <4>2, <4>3
      <3>4. StreamServed'
        BY <1>t, <2>s, <3>1, <3>2, <3>3 DEF CameraInv, StreamServed
      <3> QED
        BY <1>t, <2>s, <3>1, <3>2, <3>3, <3>4 DEF CameraInv, Stream
    <2> QED
      BY <2>1, <2>2
<1>7. ASSUME NEW g \in Streams, EndStream(g) PROVE CameraInv'
    <2>1. /\ stream'[g].st = "ended" /\ stream'[g].subs = stream[g].subs
          /\ stream'[g].stopped = stream[g].stopped
          /\ \A f \in Streams \ {g} : stream'[f] = stream[f]
          /\ camera' = camera /\ stop' = stop /\ waiter' = waiter
      BY <1>t, <1>7 DEF EndStream, Stream, sessVars
    <2>2. \/ stream[g].stopped /\ lost' = lost
          \/ lost' = lost \cup stream[g].subs
      BY <1>7 DEF EndStream
    <2>3. StreamServed'
      BY <1>t, <2>1, <2>2 DEF CameraInv, StreamServed
    <2> QED
      BY <1>t, <2>1, <2>3 DEF CameraInv
<1>8. ASSUME NEW g \in Streams, CleanStream(g) PROVE CameraInv'
    <2>1. /\ stream'[g].st = "gone"
          /\ camera \in Streams \ {g} => stream'[camera].stopped
          /\ \A f \in Streams \ {g, camera} : stream'[f] = stream[f]
          /\ camera' = NoStream /\ stop' = stop /\ waiter' = waiter
          /\ stream[g].st = "ended"
          /\ lost' = IF camera \in Streams \ {g} THEN lost \cup stream[camera].subs
                     ELSE lost
      BY <1>t, <1>8 DEF CleanStream, Stream, sessVars
    <2>2. StreamServed'
      BY <1>t, <2>1 DEF CameraInv, StreamServed
    <2> QED
      BY <1>t, <2>1, <2>2 DEF CameraInv
<1>9. CASE UNCHANGED vars
    BY <1>1, <1>9 DEF vars, cameraVars
<1> QED
    BY <1>2, <1>3, <1>4, <1>5, <1>6, <1>7, <1>8, <1>9, NextCases, Constants
    DEF Capture

LEMMA CameraInvariance == Spec => [](TypeInv /\ CameraInv)
<1>1. Init => TypeInv /\ CameraInv
    BY TypeInvInit, Constants DEF Init, CameraInv, StreamServed
<1>2. TypeInv /\ CameraInv /\ [Next]_vars => (TypeInv /\ CameraInv)'
    BY TypeInvStep, TypeInvParts, CameraInvStep
<1> QED
    BY <1>1, <1>2, PTL DEF Spec

\* A session that was taken out gives the camera back, however its task was
\* stopped and whatever became of the stream meanwhile.
THEOREM CameraIsReleased == Spec => []CameraReleased
<1>1. TypeInv /\ CameraInv => CameraReleased
    BY TypeInvParts DEF CameraInv, CameraReleased, Typed, Armed, ActOK
<1> QED
    BY <1>1, CameraInvariance, PTL

\* A session that is served has its stream: it is among the subscribers of the
\* device's running loop, whatever other sessions and older streams did to it.
THEOREM StreamIsServed == Spec => []StreamServed
<1>1. CameraInv => StreamServed
    BY DEF CameraInv
<1> QED
    BY <1>1, CameraInvariance, PTL
-----------------------------------------------------------------------------
(* What the host was told of a session *)

\* A link on which the host hears what is sent.
Heard(k) == rtc[k] \in {"connected", "disconnected"}

\* A link the node has not come to does not exist yet.
Fresh ==
    \A k \in Links : (k > run.k \/ (k = run.k /\ run.pc = "connect"))
                        => rtc[k] = "none"

\* A session's tasks come after the session, on a link that was up; and who
\* broke its connection has left the callback to deal with it.
Known(s) ==
    /\ act[s].pc = "none" => \A t \in CloserTasks : closer[s][t].pc = "none"
    /\ act[s].pc # "none" => rtc[act[s].k] \notin {"none", "new"}
    /\ closer[s]["callback"].pc # "none" => closer[s]["callback"].k = act[s].k
    /\ conn[s] = "bad" => closer[s]["callback"].pc # "none"

\* The callback has yet to report, or the deactivation has yet to call it.
Pending(s) ==
    \/ closer[s]["callback"].pc \in {"spawned", "close"}
    \/ /\ closer[s]["deactivate"].pc = "close"
       /\ closer[s]["deactivate"].found
       /\ conn[s] # "bad"

\* Of a session that was not closed while it was being activated.
Truth(s) ==
    /\ act[s].pc # "done" =>
          /\ told[s] = "none"
          /\ \A t \in CloserTasks : closer[s][t].pc \in {"none", "spawned"}
    /\ act[s].pc \in {"track", "arm", "subscribe", "offer", "report"} =>
          entry[s] # "none"
    /\ (\E t \in CloserTasks : closer[s][t].pc \in {"close", "done"}) =>
          entry[s] = "none"
    /\ told[s] = "closed" => entry[s] = "none"
    /\ Heard(act[s].k) =>
          /\ closer[s]["callback"].pc = "done" => told[s] = "closed"
          /\ (entry[s] = "none" /\ told[s] = "active") => Pending(s)

TellInv ==
    /\ Fresh
    /\ \A s \in Sess : Known(s) /\ (s \notin overtaken => Truth(s))

\* What a step leaves of a session it is not about.
Same(s) ==
    /\ act'[s] = act[s] /\ entry'[s] = entry[s] /\ conn'[s] = conn[s]
    /\ closer'[s] = closer[s] /\ told'[s] = told[s]

\* A link that was up comes up no more once the host has stopped to hear.
Fading ==
    \A k \in Links : rtc[k] \notin {"none", "new"} =>
        /\ rtc'[k] \notin {"none", "new"}
        /\ Heard(k)' => Heard(k)

LEMMA LinkFades ==
    ASSUME Typed, Fresh, LinkStep
    PROVE  Fresh' /\ Fading
<1>t. run \in [pc : RunPcs, k : Links] /\ rtc \in [Links -> RtcStates]
    BY DEF Typed
<1>n. run.k \in Nat /\ \A k \in Links : k \in Nat
    BY <1>t DEF Links
<1>1. CASE Connect
    <2>1. /\ rtc[run.k] = "none" /\ rtc' = [rtc EXCEPT ![run.k] = "new"]
          /\ run'.k = run.k /\ run'.pc = "handshake"
      BY <1>t, <1>1 DEF Connect, Fresh
    <2> QED
      BY <1>t, <1>n, <2>1 DEF Fresh, Fading, Heard
<1>2. CASE Handshake
    <2>1. /\ run'.k = run.k /\ run'.pc # "connect" /\ run.pc = "handshake"
          /\ rtc' = rtc \/ rtc' = [rtc EXCEPT ![run.k] = "closed"]
      BY <1>t, <1>2 DEF Handshake
    <2> QED
      BY <1>t, <1>n, <2>1 DEF Fresh, Fading, Heard
<1>3. CASE Lose \/ SignalingLost \/ Retry
    <2>1. /\ rtc' = rtc
          /\ run.pc \in {"linked", "retry"}
          /\ \/ run'.k = run.k /\ run'.pc # "connect"
             \/ run'.k = run.k + 1
      BY <1>t, <1>3 DEF Lose, SignalingLost, Retry
    <2> QED
      BY <1>t, <1>n, <2>1 DEF Fresh, Fading, Heard
<1>4. ASSUME NEW k \in Links, NEW st \in RtcStates, Change(k, st)
      PROVE  Fresh' /\ Fading
    <2>1. /\ run' = run /\ rtc' = [rtc EXCEPT ![k] = st]
          /\ \/ rtc[k] = "new"
             \/ rtc[k] = "connected" /\ st = "disconnected"
             \/ rtc[k] = "disconnected" /\ st \in {"connected", "failed"}
      BY <1>4 DEF Change
    <2> QED
      BY <1>t, <2>1 DEF Fresh, Fading, Heard
<1>5. ASSUME NEW k \in Links, Recheck(k) PROVE Fresh' /\ Fading
    BY <1>5 DEF Recheck, Fresh, Fading, Heard
<1>6. ASSUME NEW k \in Links, Refused(k) PROVE Fresh' /\ Fading
    <2>1. run' = run /\ rtc[k] = "connected" /\ rtc' = [rtc EXCEPT ![k] = "closed"]
      BY <1>6 DEF Refused, Up
    <2> QED
      BY <1>t, <2>1 DEF Fresh, Fading, Heard
<1> QED
    BY <1>1, <1>2, <1>3, <1>4, <1>5, <1>6 DEF LinkStep

LEMMA SameKept ==
    ASSUME Typed, NEW s \in Sess, Same(s), Known(s), Fading
    PROVE  Known(s)' /\ (Truth(s) => Truth(s)')
<1>1. act[s].k \in Links
    BY DEF Typed
<1>2. Known(s)'
    BY <1>1 DEF Known, Same, Fading
<1>3. Heard(act[s].k)' => Heard(act[s].k) \/ act[s].pc = "none"
    BY <1>1 DEF Known, Fading, Same, Heard
<1>4. ASSUME Truth(s) PROVE Truth(s)'
    <2>1. CASE act[s].pc = "none"
      BY <2>1, <1>4 DEF Truth, Same, Known, CloserTasks, Pending
    <2>2. CASE act[s].pc # "none"
      BY <2>2, <1>3, <1>4 DEF Truth, Same, Pending
    <2> QED
      BY <2>1, <2>2
<1> QED
    BY <1>2, <1>4

\* A step about session s leaves the links and the other sessions alone.
Alone(s) ==
    /\ UNCHANGED <<run, rtc>>
    /\ \A x \in Sess \ {s} : Same(x)

LEMMA ActivationTells ==
    ASSUME Typed, ActOK, TellInv, NEW s \in Sess, Activation(s)
    PROVE  /\ Alone(s) /\ overtaken' = overtaken
           /\ Known(s)' /\ (s \notin overtaken => Truth(s)')
<1>a. act \in [Sess -> [pc : ActPcs, k : Links]] /\ told \in [Sess -> {"none", "active", "closed"}]
      /\ entry \in [Sess -> {"none", "bare", "armed"}]
      /\ conn \in [Sess -> {"none", "new", "open", "bad"}]
    BY DEF Typed
<1>k. Known(s) /\ (s \notin overtaken => Truth(s))
    BY DEF TellInv
<1>1. PICK pc \in ActPcs : At(s, pc)
    BY DEF Activation, Insert, AddTrack, Arm, Subscribe, MakeOffer, ReportActive, ActPcs
<1>2. /\ act'[s].pc = pc /\ act'[s].k = act[s].k
      /\ \A x \in Sess \ {s} : act'[x] = act[x]
    BY <1>a, <1>1 DEF At
<1>3. UNCHANGED <<run, rtc, closer, overtaken>>
    BY DEF Activation, Insert, AddTrack, Arm, Subscribe, MakeOffer, ReportActive, linkVars
<1>4. /\ act[s].pc \in {"spawned", "track", "arm", "subscribe", "offer", "report"}
      /\ pc \notin {"none", "spawned"}
    <2>1. CASE Insert(s)
      BY <1>a, <1>2, <2>1 DEF Insert, At
    <2>2. CASE AddTrack(s) \/ MakeOffer(s) \/ ReportActive(s)
      BY <1>a, <1>2, <2>2 DEF AddTrack, MakeOffer, ReportActive, At
    <2>3. CASE Arm(s)
      BY <1>a, <1>2, <2>3 DEF Arm, At
    <2>4. CASE Subscribe(s)
      BY <1>a, <1>2, <2>4 DEF Subscribe, At
    <2> QED
      BY <2>1, <2>2, <2>3, <2>4 DEF Activation
<1>5. /\ \A x \in Sess \ {s} : entry'[x] = entry[x] /\ conn'[x] = conn[x]
                               /\ told'[x] = told[x]
      /\ conn'[s] = "bad" => conn[s] = "bad"
      /\ told'[s] # told[s] => pc = "done" /\ act[s].pc = "report"
                               /\ told'[s] = "active" /\ entry'[s] = entry[s]
    <2>1. CASE Insert(s)
      BY <1>a, <1>2, <2>1 DEF Insert, At
    <2>2. CASE AddTrack(s) \/ Subscribe(s) \/ MakeOffer(s)
      BY <1>a, <2>2 DEF AddTrack, Subscribe, MakeOffer
    <2>3. CASE Arm(s)
      BY <1>a, <2>3 DEF Arm
    <2>4. CASE ReportActive(s)
      BY <1>a, <1>2, <2>4 DEF ReportActive, Status, At
    <2> QED
      BY <2>1, <2>2, <2>3, <2>4 DEF Activation
<1>6. Alone(s)
    BY <1>2, <1>3, <1>5 DEF Alone, Same
<1>7. Known(s)'
    BY <1>k, <1>2, <1>3, <1>4, <1>5 DEF Known
<1>8. ASSUME s \notin overtaken PROVE Truth(s)'
    <2>1. /\ told[s] = "none"
          /\ \A t \in CloserTasks : closer[s][t].pc \in {"none", "spawned"}
          /\ act[s].pc # "spawned" => entry[s] # "none"
      BY <1>k, <1>4, <1>8 DEF Truth
    <2>2. /\ pc # "done" => entry'[s] # "none"
          /\ told'[s] = "active" => entry'[s] # "none"
          /\ told'[s] \in {"none", "active"}
          /\ pc # "done" => told'[s] = "none"
      <3>1. CASE Insert(s)
        BY <1>a, <1>2, <2>1, <3>1 DEF Insert, At
      <3>2. CASE AddTrack(s) \/ Subscribe(s) \/ MakeOffer(s)
        BY <1>a, <2>1, <3>2 DEF AddTrack, Subscribe, MakeOffer
      <3>3. CASE Arm(s)
        BY <1>a, <2>1, <3>3 DEF Arm
      <3>4. CASE ReportActive(s)
        BY <1>a, <1>2, <2>1, <3>4 DEF ReportActive, Status, At
      <3> QED
        BY <3>1, <3>2, <3>3, <3>4 DEF Activation
    <2> QED
      BY <1>2, <1>3, <1>4, <2>1, <2>2 DEF Truth, CloserTasks
<1> QED
    BY <1>3, <1>6, <1>7, <1>8

LEMMA ClosingTells ==
    ASSUME Typed, ActOK, TellInv, NEW s \in Sess, NEW t \in CloserTasks,
           TakeOut(s, t) \/ CloseConn(s, t)
    PROVE  /\ Alone(s) /\ overtaken \subseteq overtaken'
           /\ Known(s)' /\ (s \notin overtaken' => Truth(s)')
<1>a. /\ act \in [Sess -> [pc : ActPcs, k : Links]]
      /\ entry \in [Sess -> {"none", "bare", "armed"}]
      /\ conn \in [Sess -> {"none", "new", "open", "bad"}]
      /\ told \in [Sess -> {"none", "active", "closed"}]
      /\ closer \in [Sess -> [CloserTasks -> Closer]]
    BY DEF Typed
<1>k. Known(s) /\ (s \notin overtaken => Truth(s))
    BY DEF TellInv
<1>o. closer[s][t] \in Closer /\ closer[s]["callback"] \in Closer
      /\ "callback" \in CloserTasks /\ "deactivate" \in CloserTasks
      /\ (t = "callback" \/ t = "deactivate")
    BY <1>a DEF CloserTasks
<1>1. CASE TakeOut(s, t)
    <2> DEFINE c == [closer[s][t] EXCEPT !.pc = "close",
                                         !.found = entry[s] # "none"]
    <2>1. c.pc = "close" /\ c.k = closer[s][t].k
      BY <1>o DEF Closer
    <2>2. c.found <=> entry[s] # "none"
      BY <1>o, Zenon DEF Closer
    <2>3. closer' = [closer EXCEPT ![s] = [closer[s] EXCEPT ![t] = c]]
      BY <1>1 DEF TakeOut
    <2> HIDE DEF c
    <2>4. /\ closer'[s][t] = c
          /\ \A i \in CloserTasks \ {t} : closer'[s][i] = closer[s][i]
          /\ \A x \in Sess \ {s} : closer'[x] = closer[x]
      BY <1>a, <2>3
    <2>5. /\ UNCHANGED <<run, rtc, act, conn, told>> /\ closer[s][t].pc = "spawned"
          /\ entry'[s] = "none" /\ \A x \in Sess \ {s} : entry'[x] = entry[x]
          /\ overtaken' = IF act[s].pc = "done" THEN overtaken ELSE overtaken \cup {s}
      BY <1>a, <1>1 DEF TakeOut, linkVars
    <2>6. Alone(s)
      BY <2>4, <2>5 DEF Alone, Same
    <2>7. Known(s)'
      BY <1>k, <1>o, <2>1, <2>4, <2>5 DEF Known
    <2>8. ASSUME s \notin overtaken' PROVE Truth(s)'
      <3>1. act[s].pc = "done" /\ Truth(s)
        BY <1>k, <2>5, <2>8
      <3>2. /\ closer'[s]["callback"].pc = "done" => closer[s]["callback"].pc = "done"
        BY <1>o, <2>1, <2>4
      <3>3. (Heard(act[s].k) /\ told[s] = "active") => Pending(s)'
        <4>1. CASE t = "callback"
          BY <2>1, <2>4, <4>1 DEF Pending
        <4>2. CASE t = "deactivate" /\ entry[s] # "none"
          <5>1. closer'[s]["callback"] = closer[s]["callback"]
            BY <1>o, <2>4, <4>2
          <5>2. (Heard(act[s].k) /\ told[s] = "active") =>
                    closer[s]["callback"].pc # "done"
            BY <3>1 DEF Truth
          <5>3. conn[s] = "bad" => closer[s]["callback"].pc # "none"
            BY <1>k DEF Known
          <5>4. closer[s]["callback"].pc \in {"none", "spawned", "close", "done"}
            BY <1>o DEF Closer, CloserPcs
          <5> QED
            BY <2>1, <2>2, <2>4, <2>5, <4>2, <5>1, <5>2, <5>3, <5>4 DEF Pending
        <4>3. CASE t = "deactivate" /\ entry[s] = "none"
          BY <1>o, <2>4, <2>5, <3>1, <4>3 DEF Pending, Truth
        <4> QED
          BY <1>o, <4>1, <4>2, <4>3
      <3> QED
        BY <2>5, <3>1, <3>2, <3>3 DEF Truth, Heard
    <2> QED
      BY <2>5, <2>6, <2>7, <2>8
<1>2. CASE CloseConn(s, t)
    <2> DEFINE c == closer[s][t]
               d == [c EXCEPT !.pc = "done"]
               again == c.found /\ conn[s] # "bad" /\ t = "deactivate"
               e == IF again THEN [pc |-> "spawned", found |-> FALSE, k |-> act[s].k]
                    ELSE IF t = "callback" THEN d
                    ELSE closer[s]["callback"]
    <2>1. d.pc = "done" /\ d.k = c.k
      BY <1>o DEF Closer
    <2>2. /\ again => e.pc = "spawned" /\ e.k = act[s].k
          /\ ~again => e = IF t = "callback" THEN d ELSE closer[s]["callback"]
      OBVIOUS
    <2>3. closer' = [closer EXCEPT ![s] =
                        [[closer[s] EXCEPT ![t] = d] EXCEPT !["callback"] = e]]
      BY <1>a, <1>2 DEF CloseConn, CloserTasks
    <2>p. c.pc = "close" /\ act' = act /\ entry' = entry /\ overtaken' = overtaken
          /\ UNCHANGED <<run, rtc>>
      BY <1>2 DEF CloseConn, linkVars
    <2>v. /\ conn'[s] = IF c.found THEN "bad" ELSE conn[s]
          /\ \A x \in Sess \ {s} : conn'[x] = conn[x] /\ told'[x] = told[x]
          /\ told'[s] = IF Heard(c.k) THEN "closed" ELSE told[s]
      BY <1>a, <1>2 DEF CloseConn, Status, Heard
    <2> HIDE DEF d, e
    <2>4. /\ closer'[s]["callback"] = e
          /\ t = "deactivate" => closer'[s]["deactivate"] = d
          /\ t = "callback" => closer'[s]["deactivate"] = closer[s]["deactivate"]
          /\ \A x \in Sess \ {s} : closer'[x] = closer[x]
      BY <1>a, <1>o, <2>3
    <2>6. Alone(s)
      BY <2>4, <2>p, <2>v DEF Alone, Same
    <2>7. Known(s)'
      <3>1. act[s].pc # "none"
        BY <1>k, <2>p DEF Known
      <3>2. t = "callback" => c.k = act[s].k
        BY <1>k, <2>p DEF Known
      <3>3. e.pc # "none" => e.k = act[s].k
        BY <1>k, <2>1, <2>2, <3>2 DEF Known
      <3>4. conn'[s] = "bad" => e.pc # "none"
        BY <1>k, <1>o, <2>1, <2>2, <2>v DEF Known
      <3> QED
        BY <1>k, <2>4, <2>p, <3>1, <3>3, <3>4 DEF Known
    <2>8. ASSUME s \notin overtaken' PROVE Truth(s)'
      <3>1. Truth(s)
        BY <1>k, <2>8, <2>p
      <3>2. act[s].pc = "done" /\ entry[s] = "none"
        BY <2>p, <3>1 DEF Truth
      <3>3. ASSUME Heard(act[s].k), e.pc = "done" PROVE told'[s] = "closed"
        <4>1. CASE t = "callback"
          BY <1>k, <2>p, <2>v, <3>3, <4>1 DEF Known
        <4>2. CASE t = "deactivate"
          BY <2>2, <2>v, <3>1, <3>3, <4>2 DEF Truth
        <4> QED
          BY <1>o, <4>1, <4>2
      <3>4. ASSUME Heard(act[s].k), told'[s] = "active"
            PROVE  e.pc \in {"spawned", "close"}
        <4>1. told[s] = "active" /\ ~Heard(c.k)
          BY <2>v, <3>4
        <4>2. t = "deactivate"
          BY <1>k, <1>o, <2>p, <3>4, <4>1 DEF Known
        <4>3. Pending(s)
          BY <3>1, <3>2, <3>4, <4>1 DEF Truth
        <4> QED
          BY <2>2, <4>2, <4>3 DEF Pending
      <3> QED
        BY <2>4, <2>p, <3>2, <3>3, <3>4 DEF Truth, Heard, Pending
    <2> QED
      BY <2>6, <2>7, <2>8, <2>p
<1> QED
    BY <1>1, <1>2

LEMMA SessionTells ==
    ASSUME Typed, ActOK, TellInv, NEW s \in Sess, NEW k \in Links,
           \/ RecvActivate(k, s) \/ RecvDeactivate(k, s) \/ RecvSignal(k, s)
           \/ ConnDown(s)
    PROVE  /\ Alone(s) /\ overtaken' = overtaken
           /\ Known(s)' /\ (s \notin overtaken => Truth(s)')
<1>a. /\ act \in [Sess -> [pc : ActPcs, k : Links]]
      /\ conn \in [Sess -> {"none", "new", "open", "bad"}]
      /\ closer \in [Sess -> [CloserTasks -> Closer]]
    BY DEF Typed
<1>k. Known(s) /\ (s \notin overtaken => Truth(s))
    BY DEF TellInv
<1>1. CASE RecvActivate(k, s)
    <2>1. /\ act'[s].pc = "spawned" /\ act'[s].k = k /\ act[s].pc = "none"
          /\ \A x \in Sess \ {s} : act'[x] = act[x]
          /\ UNCHANGED <<run, rtc, entry, conn, closer, told, overtaken>>
          /\ rtc[k] = "connected"
      BY <1>a, <1>1 DEF RecvActivate, Up, linkVars
    <2>2. Alone(s)
      BY <2>1 DEF Alone, Same
    <2>3. \A t \in CloserTasks : closer[s][t].pc = "none"
      BY <1>k, <2>1 DEF Known
    <2> QED
      BY <1>k, <2>1, <2>2, <2>3 DEF Known, Truth, CloserTasks
<1>2. CASE RecvSignal(k, s)
    <2>1. /\ conn[s] = "new" /\ conn'[s] = "open"
          /\ \A x \in Sess \ {s} : conn'[x] = conn[x]
          /\ UNCHANGED <<run, rtc, act, entry, closer, told, overtaken>>
      BY <1>a, <1>2 DEF RecvSignal, linkVars
    <2> QED
      BY <1>k, <2>1 DEF Alone, Same, Known, Truth, Pending, Heard
<1>3. ASSUME NEW t \in CloserTasks, NEW i \in Links, Spawn(s, t, i)
      PROVE  /\ closer'[s][t].pc = "spawned" /\ closer'[s][t].k = i
             /\ \A j \in CloserTasks \ {t} : closer'[s][j] = closer[s][j]
             /\ \A x \in Sess \ {s} : closer'[x] = closer[x]
    <2> DEFINE c == [pc |-> "spawned", found |-> FALSE, k |-> i]
    <2>1. closer' = [closer EXCEPT ![s] = [closer[s] EXCEPT ![t] = c]]
             /\ c.pc = "spawned" /\ c.k = i
      BY <1>3 DEF Spawn
    <2> HIDE DEF c
    <2> QED
      BY <1>a, <2>1
<1>4. CASE RecvDeactivate(k, s)
    <2>1. /\ UNCHANGED <<run, rtc, act, entry, conn, told, overtaken>>
          /\ act[s].pc # "none" /\ closer[s]["deactivate"].pc = "none"
      BY <1>4 DEF RecvDeactivate, linkVars
    <2>2. /\ closer'[s]["deactivate"].pc = "spawned"
          /\ closer'[s]["callback"] = closer[s]["callback"]
          /\ \A x \in Sess \ {s} : closer'[x] = closer[x]
      BY <1>3, <1>4 DEF RecvDeactivate, CloserTasks
    <2>3. Alone(s)
      BY <2>1, <2>2 DEF Alone, Same
    <2>4. Known(s)'
      BY <1>k, <2>1, <2>2 DEF Known
    <2> QED
      BY <1>k, <2>1, <2>2, <2>3, <2>4 DEF Truth, CloserTasks, Pending, Heard
<1>5. CASE ConnDown(s)
    <2>1. /\ UNCHANGED <<run, rtc, act, entry, told, overtaken>>
          /\ act[s].pc \in {"report", "done"} /\ closer[s]["callback"].pc = "none"
          /\ \A x \in Sess \ {s} : conn'[x] = conn[x]
      BY <1>a, <1>5 DEF ConnDown, linkVars
    <2>2. /\ closer'[s]["callback"].pc = "spawned"
          /\ closer'[s]["callback"].k = act[s].k
          /\ closer'[s]["deactivate"] = closer[s]["deactivate"]
          /\ \A x \in Sess \ {s} : closer'[x] = closer[x]
      <3>1. act[s].k \in Links /\ Spawn(s, "callback", act[s].k)
        BY <1>a, <1>5 DEF ConnDown
      <3> QED
        BY <1>3, <3>1 DEF CloserTasks
    <2>3. Alone(s)
      BY <2>1, <2>2 DEF Alone, Same
    <2>4. Known(s)'
      BY <1>k, <2>1, <2>2 DEF Known
    <2> QED
      BY <1>k, <2>1, <2>2, <2>3, <2>4 DEF Truth, CloserTasks, Pending, Heard
<1> QED
    BY <1>1, <1>2, <1>4, <1>5

LEMMA TellInvStep ==
    ASSUME Typed, Armed, ActOK, TellInv, [Next]_vars
    PROVE  TellInv'
<1>1. ASSUME Fresh', Fading, \A s \in Sess : Same(s), overtaken \subseteq overtaken'
      PROVE  TellInv'
    BY <1>1, SameKept DEF TellInv
<1>2. ASSUME UNCHANGED <<run, rtc>> PROVE Fresh' /\ Fading
    BY <1>2 DEF TellInv, Fresh, Fading, Heard
<1>3. ASSUME NEW s \in Sess, Alone(s), overtaken \subseteq overtaken',
             Known(s)', s \notin overtaken' => Truth(s)'
      PROVE  TellInv'
    <2>1. Fresh' /\ Fading
      BY <1>2, <1>3 DEF Alone
    <2>2. ASSUME NEW x \in Sess \ {s}
          PROVE  Known(x)' /\ (x \notin overtaken' => Truth(x)')
      BY <1>3, <2>1, <2>2, SameKept DEF Alone, TellInv
    <2> QED
      BY <1>3, <2>1, <2>2 DEF TellInv
<1>4. CASE LinkStep
    <2>1. Fresh' /\ Fading
      BY <1>4, LinkFades DEF TellInv
    <2>2. UNCHANGED sessVars
      BY <1>4, LinkStepTyped
    <2> QED
      BY <1>1, <2>1, <2>2 DEF Same, sessVars
<1>5. ASSUME NEW s \in Sess, Activation(s) PROVE TellInv'
    BY <1>3, <1>5, ActivationTells
<1>6. ASSUME NEW s \in Sess, NEW k \in Links,
             RecvActivate(k, s) \/ RecvDeactivate(k, s) \/ RecvSignal(k, s)
      PROVE  TellInv'
    BY <1>3, <1>6, SessionTells
<1>7. ASSUME NEW s \in Sess, ConnDown(s) PROVE TellInv'
    BY <1>3, <1>7, SessionTells, Constants
<1>8. ASSUME NEW s \in Sess, Closing(s) PROVE TellInv'
    BY <1>3, <1>8, ClosingTells DEF Closing
<1>9. CASE \/ \E s \in Sess : Unsubscribe(s)
           \/ \E g \in Streams : Capture(g)
           \/ UNCHANGED vars
    <2>1. UNCHANGED sessVars /\ UNCHANGED <<run, rtc>>
      BY <1>9 DEF Unsubscribe, Capture, EndStream, CleanStream, vars, sessVars, linkVars
    <2> QED
      BY <1>1, <1>2, <2>1 DEF Same, sessVars
<1> QED
    BY <1>4, <1>5, <1>6, <1>7, <1>8, <1>9, NextCases

\* At rest, the last status the host received of a session is true, unless the
\* session was closed while it was being activated.
THEOREM StatusIsTrue == Spec => []StatusTrue
<1> DEFINE Inv == TypeInv /\ TellInv
<1>1. Init => Inv
    BY TypeInvInit, Constants DEF Init, TellInv, Fresh, Known, Truth, NoCloser,
       CloserTasks
<1>2. Inv /\ [Next]_vars => Inv'
    BY TypeInvStep, TypeInvParts, TellInvStep
<1>3. Inv => StatusTrue
    <2> SUFFICES ASSUME Inv, NEW s \in Sess \ overtaken,
                        act[s].pc = "done", ~Ending(s), Up(act[s].k)
                 PROVE  /\ told[s] = "active" => entry[s] # "none"
                        /\ told[s] = "closed" => entry[s] = "none"
      BY DEF StatusTrue
    <2>1. Truth(s) /\ Heard(act[s].k)
      BY DEF TellInv, Up, Heard
    <2>2. ~Pending(s)
      BY DEF Ending, Pending, CloserTasks
    <2> QED
      BY <2>1, <2>2 DEF Truth
<1> QED
    BY <1>1, <1>2, <1>3, PTL DEF Spec

=============================================================================
