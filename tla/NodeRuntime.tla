----------------------------- MODULE NodeRuntime -----------------------------
(***************************************************************************)
(* A node: the loop that keeps its control link to the host, the tasks of  *)
(* the capability sessions the host asks for, and the broadcaster that     *)
(* shares the node's camera among them.                                    *)
(*                                                                         *)
(* Every control message runs in a task of its own, and so does every      *)
(* reaction to a connection that goes down: they meet at the map of active *)
(* sessions and at the map of broadcaster sessions, each behind a lock that *)
(* is taken for one look.  Sessions are not tied to the control link they  *)
(* came from: they outlive it, and report on it even when it is gone.      *)
(*                                                                         *)
(* One camera.  Left out: ICE candidates, sequence numbers, mock frames,   *)
(* heartbeats, the delays before a retry.                                  *)
(***************************************************************************)
EXTENDS Naturals, FiniteSets

CONSTANTS
    Sess,           \* session ids the host hands out
    MaxLinks,       \* control links a node sets up in an instance
    MaxStreams,     \* capture loops started in an instance
    MaxFaults,      \* times a control link, signaling or a capture is lost
    MayDeactivate,  \* sessions the host deactivates
    MayFail         \* sessions whose set-up fails or connection goes down

Links   == 1 .. MaxLinks
Streams == 1 .. MaxStreams

ASSUME NodeAssumption ==
    /\ MaxLinks \in Nat \ {0} /\ MaxStreams \in Nat
    /\ MaxFaults \in Nat
    /\ MayDeactivate \subseteq Sess /\ MayFail \subseteq Sess

VARIABLES
    run,        \* where NodeRuntime::run is, and with which link
    rtc,        \* link -> state of its RTCPeerConnection
    notice,     \* links whose close channel holds a message
    act,        \* session -> its activation task, and its control link
    entry,      \* active_sessions: session -> none, without or with stop_tx
    conn,       \* session -> state of its own RTCPeerConnection
    stop,       \* session -> the oneshot channel of stop_tx
    waiter,     \* session -> the task that waits for stop_rx
    closer,     \* session -> its tasks that close it
    camera,     \* sessions of the broadcaster: the stream of the device
    stream,     \* capture loop -> its state and its subscribers
    faults,     \* counter of the bound
    told,       \* session -> the last status the host received
    overtaken,  \* history: sessions closed while they were being activated
    lost        \* history: sessions whose stream ended under them

vars == <<run, rtc, notice, act, entry, conn, stop, waiter, closer, camera,
          stream, faults, told, overtaken, lost>>

linkVars   == <<run, rtc, notice, faults>>
sessVars   == <<act, entry, conn, stop, closer, told, overtaken>>
cameraVars == <<camera, stream, lost>>

-----------------------------------------------------------------------------
(* Types *)

RunPcs == {"connect", "handshake", "linked", "retry", "ended"}
RtcStates == {"none", "new", "connected", "disconnected", "failed", "closed"}
ActPcs == {"none", "spawned", "track", "arm", "subscribe", "offer", "report",
           "done"}
CloserTasks == {"deactivate", "callback"}
CloserPcs == {"none", "spawned", "close", "done"}
NoStream == 0

\* The last conjunct: a oneshot sender lives in the entry that holds it.
TypeOK ==
    /\ run \in [pc : RunPcs, k : Links]
    /\ rtc \in [Links -> RtcStates]
    /\ notice \subseteq Links
    /\ act \in [Sess -> [pc : ActPcs, k : Links]]
    /\ entry \in [Sess -> {"none", "bare", "armed"}]
    /\ conn \in [Sess -> {"none", "new", "open", "bad"}]
    /\ stop \in [Sess -> {"none", "held", "sent", "dropped"}]
    /\ waiter \in [Sess -> {"none", "waiting", "done"}]
    /\ closer \in [Sess -> [CloserTasks -> [pc : CloserPcs, found : BOOLEAN,
                                            k : Links]]]
    /\ camera \in {NoStream} \cup Streams
    /\ stream \in [Streams -> [st : {"none", "running", "ended", "gone"},
                               subs : SUBSET Sess, stopped : BOOLEAN]]
    /\ faults \in Nat
    /\ told \in [Sess -> {"none", "active", "closed"}]
    /\ overtaken \subseteq Sess /\ lost \subseteq Sess
    /\ \A s \in Sess : stop[s] = "held" <=> entry[s] = "armed"

-----------------------------------------------------------------------------
(* Helpers *)

Up(k) == rtc[k] = "connected"
Ending(s) == \E t \in CloserTasks : closer[s][t].pc \in {"spawned", "close"}
At(s, pc) == act' = [act EXCEPT ![s].pc = pc]
\* A status is sent on the link the task was started for, and its loss ignored;
\* a channel keeps what is sent while its connection is disconnected.
Status(s, k, word) ==
    told' = IF rtc[k] \in {"connected", "disconnected"}
            THEN [told EXCEPT ![s] = word] ELSE told

NoCloser == [pc |-> "none", found |-> FALSE, k |-> 1]

Init ==
    /\ run = [pc |-> "connect", k |-> 1]
    /\ rtc = [k \in Links |-> "none"]
    /\ notice = {}
    /\ act = [s \in Sess |-> [pc |-> "none", k |-> 1]]
    /\ entry = [s \in Sess |-> "none"]
    /\ conn = [s \in Sess |-> "none"]
    /\ stop = [s \in Sess |-> "none"]
    /\ waiter = [s \in Sess |-> "none"]
    /\ closer = [s \in Sess |-> [t \in CloserTasks |-> NoCloser]]
    /\ camera = NoStream
    /\ stream = [g \in Streams |->
                    [st |-> "none", subs |-> {}, stopped |-> FALSE]]
    /\ faults = 0
    /\ told = [s \in Sess |-> "none"]
    /\ overtaken = {} /\ lost = {}

-----------------------------------------------------------------------------
(* NodeRuntime::run *)

\* Signaling, the connection, its channel, the Offer and the state callback;
\* whatever fails before the Offer leaves nothing behind and is tried again.
Connect ==
    /\ run.pc = "connect"
    /\ rtc' = [rtc EXCEPT ![run.k] = "new"]
    /\ run' = [run EXCEPT !.pc = "handshake"]
    /\ UNCHANGED <<notice, faults, sessVars, waiter, cameraVars>>

\* Mutant: only a failure is passed on.
NoticedFailed == {"failed"}
\* The states the callback passes on, a disconnection that lasts 15 s included.
Noticed == {"failed", "closed", "disconnected"}

Fault == faults < MaxFaults /\ faults' = faults + 1

\* The connection changes its state by itself.
Change(k, st) ==
    /\ \/ rtc[k] = "new" /\ st \in {"connected", "failed"}
       \/ rtc[k] = "connected" /\ st = "disconnected"
       \/ rtc[k] = "disconnected" /\ st \in {"connected", "failed"}
    /\ rtc' = [rtc EXCEPT ![k] = st]
    /\ notice' = IF st \in Noticed /\ st # "disconnected"
                 THEN notice \cup {k} ELSE notice
    /\ IF rtc[k] = "connected" \/ st = "failed" THEN Fault ELSE UNCHANGED faults
    /\ UNCHANGED <<run, sessVars, waiter, cameraVars>>

\* Disconnected for 15 s.
Recheck(k) ==
    /\ rtc[k] = "disconnected" /\ "disconnected" \in Noticed
    /\ k \notin notice
    /\ notice' = notice \cup {k}
    /\ UNCHANGED <<run, rtc, faults, sessVars, waiter, cameraVars>>

\* The poll finds the connection up; or it finds it down, is woken by the
\* close channel or reaches its deadline of 30 s: then it is closed.
Handshake ==
    /\ run.pc = "handshake"
    /\ \/ /\ Up(run.k)
          /\ run' = [run EXCEPT !.pc = "linked"]
          /\ UNCHANGED <<rtc, notice, faults>>
       \/ /\ ~Up(run.k)
          /\ run' = [run EXCEPT !.pc = "retry"]
          /\ rtc' = [rtc EXCEPT ![run.k] = "closed"]
          /\ notice' = notice \cup {run.k}
          /\ IF rtc[run.k] = "new" THEN Fault ELSE UNCHANGED faults
    /\ UNCHANGED <<sessVars, waiter, cameraVars>>

\* select: the close channel, or the end of the signaling connection.  The
\* connection itself is left as it is.
Lose ==
    /\ run.pc = "linked"
    /\ run.k \in notice
    /\ run' = [run EXCEPT !.pc = "retry"]
    /\ UNCHANGED <<rtc, notice, faults, sessVars, waiter, cameraVars>>
SignalingLost ==
    /\ run.pc = "linked"
    /\ run' = [run EXCEPT !.pc = "retry"]
    /\ Fault
    /\ UNCHANGED <<rtc, notice, sessVars, waiter, cameraVars>>

Retry ==
    /\ run.pc = "retry"
    /\ run' = IF run.k < MaxLinks THEN [pc |-> "connect", k |-> run.k + 1]
              ELSE [run EXCEPT !.pc = "ended"]
    /\ UNCHANGED <<rtc, notice, faults, sessVars, waiter, cameraVars>>

\* NodeRegisterAck with an error closes the link it came on.
Refused(k) ==
    /\ Up(k)
    /\ rtc' = [rtc EXCEPT ![k] = "closed"]
    /\ notice' = IF "closed" \in Noticed THEN notice \cup {k} ELSE notice
    /\ Fault
    /\ UNCHANGED <<run, sessVars, waiter, cameraVars>>

-----------------------------------------------------------------------------
(* NodeActivateCapability, in a task of its own *)

RecvActivate(k, s) ==
    /\ Up(k) /\ act[s].pc = "none"
    /\ act' = [act EXCEPT ![s] = [pc |-> "spawned", k |-> k]]
    /\ UNCHANGED <<linkVars, entry, conn, stop, waiter, closer, told,
                   overtaken, cameraVars>>

\* Without a connection the task returns, and nobody is told.  The state
\* callback is installed with the entry.
Insert(s) ==
    /\ act[s].pc = "spawned"
    /\ \/ /\ entry' = [entry EXCEPT ![s] = "bare"]
          /\ conn' = [conn EXCEPT ![s] = "new"]
          /\ At(s, "track")
       \/ /\ s \in MayFail /\ At(s, "done")
          /\ UNCHANGED <<entry, conn>>
    /\ UNCHANGED <<linkVars, stop, waiter, closer, told, overtaken, cameraVars>>

\* The media channel and the video track; without a track no camera is used, and
\* a closed connection takes none.
AddTrack(s) ==
    /\ act[s].pc = "track"
    /\ \/ conn[s] # "bad" /\ At(s, "arm")
       \/ (s \in MayFail \/ conn[s] = "bad") /\ At(s, "offer")
    /\ UNCHANGED <<linkVars, entry, conn, stop, waiter, closer, told,
                   overtaken, cameraVars>>

\* Mutant: the task keeps a stop_tx that found no entry.
ArmHeld(s) ==
    /\ act[s].pc = "arm"
    /\ stop' = [stop EXCEPT ![s] = "held"]
    /\ entry' = IF entry[s] = "none" THEN entry
                ELSE [entry EXCEPT ![s] = "armed"]
    /\ At(s, "subscribe")
    /\ UNCHANGED <<linkVars, conn, waiter, closer, told, overtaken, cameraVars>>
\* stop_tx goes into the entry; if that is gone it is dropped.
Arm(s) ==
    /\ act[s].pc = "arm"
    /\ IF entry[s] = "none"
       THEN stop' = [stop EXCEPT ![s] = "dropped"] /\ UNCHANGED entry
       ELSE /\ stop' = [stop EXCEPT ![s] = "held"]
            /\ entry' = [entry EXCEPT ![s] = "armed"]
    /\ At(s, "subscribe")
    /\ UNCHANGED <<linkVars, conn, waiter, closer, told, overtaken, cameraVars>>

\* CameraBroadcaster::subscribe, and the task that waits to unsubscribe.  The
\* entry of a loop that has ended is joined like any other.
Subscribe(s) ==
    /\ act[s].pc = "subscribe"
    /\ IF camera # NoStream
       THEN /\ stream' = [stream EXCEPT ![camera].subs = @ \cup {s}]
            /\ lost' = IF stream[camera].st = "running" THEN lost
                       ELSE lost \cup {s}
            /\ UNCHANGED camera
       ELSE \E g \in Streams :
            /\ stream[g].st = "none"
            /\ \A f \in Streams : f < g => stream[f].st # "none"
            /\ camera' = g
            /\ stream' = [stream EXCEPT ![g] = [st |-> "running", subs |-> {s},
                                                stopped |-> FALSE]]
            /\ UNCHANGED lost
    /\ waiter' = [waiter EXCEPT ![s] = "waiting"]
    /\ At(s, "offer")
    /\ UNCHANGED <<linkVars, entry, conn, stop, closer, told, overtaken>>

\* The Offer to the client; on an error the task returns and says nothing.  A
\* closed connection makes none.
MakeOffer(s) ==
    /\ act[s].pc = "offer"
    /\ \/ conn[s] # "bad" /\ At(s, "report")
       \/ (s \in MayFail \/ conn[s] = "bad") /\ At(s, "done")
    /\ UNCHANGED <<linkVars, entry, conn, stop, waiter, closer, told,
                   overtaken, cameraVars>>

ReportActive(s) ==
    /\ act[s].pc = "report"
    /\ Status(s, act[s].k, "active")
    /\ At(s, "done")
    /\ UNCHANGED <<linkVars, entry, conn, stop, waiter, closer, overtaken,
                   cameraVars>>

Activation(s) == Insert(s) \/ AddTrack(s) \/ Arm(s) \/ Subscribe(s)
                 \/ MakeOffer(s) \/ ReportActive(s)

-----------------------------------------------------------------------------
(* The end of a session *)

\* HostSignal: the client's answer, if the session is there.
RecvSignal(k, s) ==
    /\ Up(k) /\ act[s].pc \in {"report", "done"}
    /\ entry[s] # "none" /\ conn[s] = "new"
    /\ conn' = [conn EXCEPT ![s] = "open"]
    /\ UNCHANGED <<linkVars, act, entry, stop, waiter, closer, told, overtaken,
                   cameraVars>>

Spawn(s, t, k) ==
    closer' = [closer EXCEPT ![s][t] =
                 [pc |-> "spawned", found |-> FALSE, k |-> k]]

\* NodeDeactivateCapability: the host may send it right after the activation.
RecvDeactivate(k, s) ==
    /\ s \in MayDeactivate
    /\ Up(k) /\ act[s].pc # "none" /\ closer[s]["deactivate"].pc = "none"
    /\ Spawn(s, "deactivate", k)
    /\ UNCHANGED <<linkVars, act, entry, conn, stop, waiter, told, overtaken,
                   cameraVars>>

\* The connection fails, closes, or stays disconnected for 15 s.
ConnDown(s) ==
    /\ s \in MayFail /\ conn[s] \in {"new", "open"}
    /\ act[s].pc \in {"report", "done"}
    /\ closer[s]["callback"].pc = "none"
    /\ conn' = [conn EXCEPT ![s] = "bad"]
    /\ Spawn(s, "callback", act[s].k)
    /\ UNCHANGED <<linkVars, act, entry, stop, waiter, told, overtaken,
                   cameraVars>>

\* Mutant: the session stays in the map for the reader of a late signal.
TakeOutLater(s, t) ==
    /\ closer[s][t].pc = "spawned"
    /\ stop' = IF entry[s] = "armed" THEN [stop EXCEPT ![s] = "sent"] ELSE stop
    /\ closer' = [closer EXCEPT ![s][t].pc = "close",
                                ![s][t].found = entry[s] # "none"]
    /\ overtaken' = IF act[s].pc = "done" THEN overtaken ELSE overtaken \cup {s}
    /\ UNCHANGED <<linkVars, act, entry, conn, waiter, told, cameraVars>>
\* Both tasks take the session out of the map and send its stop signal...
TakeOut(s, t) ==
    /\ closer[s][t].pc = "spawned"
    /\ entry' = [entry EXCEPT ![s] = "none"]
    /\ stop' = IF entry[s] = "armed" THEN [stop EXCEPT ![s] = "sent"] ELSE stop
    /\ closer' = [closer EXCEPT ![s][t].pc = "close",
                                ![s][t].found = entry[s] # "none"]
    /\ overtaken' = IF act[s].pc = "done" THEN overtaken ELSE overtaken \cup {s}
    /\ UNCHANGED <<linkVars, act, conn, waiter, told, cameraVars>>

\* ... close its connection, which calls the callback, and report Closed,
\* whether they found it or not.
CloseConn(s, t) ==
    LET c == closer[s][t] IN
    /\ c.pc = "close"
    /\ conn' = IF c.found THEN [conn EXCEPT ![s] = "bad"] ELSE conn
    /\ closer' = [closer EXCEPT ![s][t].pc = "done",
                    ![s]["callback"] =
                        IF c.found /\ conn[s] # "bad" /\ t = "deactivate"
                        THEN [pc |-> "spawned", found |-> FALSE, k |-> act[s].k]
                        ELSE IF t = "callback" THEN [c EXCEPT !.pc = "done"]
                        ELSE @]
    /\ Status(s, c.k, "closed")
    /\ UNCHANGED <<linkVars, act, entry, stop, waiter, overtaken, cameraVars>>

Closing(s) == \E t \in CloserTasks : TakeOut(s, t) \/ CloseConn(s, t)

-----------------------------------------------------------------------------
(* The camera broadcaster *)

\* "let _ = stop_rx.await": sent or dropped.
Stopped(s) == stop[s] \in {"sent", "dropped"}

\* Mutant: the stream is stopped whoever is left.
RemainingNone(subs) == {}
\* Who is left decides whether the stream goes on.
Remaining(subs) == subs

\* CameraBroadcaster::unsubscribe looks at the device's entry of the moment.
Unsubscribe(s) ==
    /\ waiter[s] = "waiting" /\ Stopped(s)
    /\ waiter' = [waiter EXCEPT ![s] = "done"]
    /\ IF camera = NoStream THEN UNCHANGED <<camera, stream>>
       ELSE LET left == stream[camera].subs \ {s} IN
            /\ stream' = [stream EXCEPT ![camera].subs = left,
                            ![camera].stopped = @ \/ Remaining(left) = {}]
            /\ camera' = IF Remaining(left) = {} THEN NoStream ELSE camera
    /\ UNCHANGED <<linkVars, sessVars, lost>>

\* The loop ends when it is stopped, or when its capture process does.
EndStream(g) ==
    /\ stream[g].st = "running"
    /\ \/ stream[g].stopped /\ UNCHANGED <<faults, lost>>
       \/ /\ ~stream[g].stopped /\ Fault
          /\ lost' = lost \cup stream[g].subs
    /\ stream' = [stream EXCEPT ![g].st = "ended"]
    /\ UNCHANGED <<run, rtc, notice, sessVars, waiter, camera>>

\* Its cleanup removes the device's entry, whichever loop it is of: with the
\* entry goes the stop_tx of that loop.
CleanStream(g) ==
    /\ stream[g].st = "ended"
    /\ camera' = NoStream
    /\ stream' = [f \in Streams |->
                    IF f = g THEN [stream[f] EXCEPT !.st = "gone"]
                    ELSE IF f = camera THEN [stream[f] EXCEPT !.stopped = TRUE]
                    ELSE stream[f]]
    /\ lost' = IF camera \in Streams \ {g} THEN lost \cup stream[camera].subs
               ELSE lost
    /\ UNCHANGED <<linkVars, sessVars, waiter>>

Capture(g) == EndStream(g) \/ CleanStream(g)

Next ==
    \/ Connect \/ Handshake \/ Lose \/ SignalingLost \/ Retry
    \/ \E k \in Links :
        \/ \E st \in RtcStates : Change(k, st)
        \/ Recheck(k) \/ Refused(k)
        \/ \E s \in Sess : RecvActivate(k, s) \/ RecvDeactivate(k, s)
                           \/ RecvSignal(k, s)
    \/ \E s \in Sess : Activation(s) \/ ConnDown(s) \/ Closing(s)
                       \/ Unsubscribe(s)
    \/ \E g \in Streams : Capture(g)

Spec == Init /\ [][Next]_vars

-----------------------------------------------------------------------------
(* Properties *)

\* A session that is being served has its stream: its subscription is with the
\* device's running loop, whatever the other sessions of the device did.  Lost
\* are those whose capture ended by itself, and those whose stream was taken
\* away by the cleanup of an older one.
StreamServed ==
    \A s \in Sess \ lost : (waiter[s] = "waiting" /\ stop[s] = "held") =>
        /\ camera # NoStream
        /\ s \in stream[camera].subs
        /\ stream[camera].st = "running" /\ ~stream[camera].stopped

\* At rest, the last status the host received of a session is true: no answer
\* of the activation came after the one of the close, and nothing the host holds
\* for closed is still in the map.  Overtaken are the sessions closed before
\* their activation had reported; the control link must still be there.
StatusTrue ==
    \A s \in Sess \ overtaken :
        (act[s].pc = "done" /\ ~Ending(s) /\ Up(act[s].k)) =>
            /\ told[s] = "active" => entry[s] # "none"
            /\ told[s] = "closed" => entry[s] = "none"

\* A session that was taken out, even while it was being activated, gives the
\* camera back: what it waits for has come, or it is with no loop that goes on.
CameraReleased ==
    \A s \in Sess : (act[s].pc = "done" /\ entry[s] = "none") =>
        IF waiter[s] = "waiting" THEN stop[s] \in {"sent", "dropped"}
        ELSE \A g \in Streams :
                stream[g].st = "running" /\ ~stream[g].stopped
                    => s \notin stream[g].subs

\* The node does not sit on a control link that is gone: once it waits on a
\* link, the end of that link is in the close channel, also when it came between
\* the last poll of the handshake and the wait.  And a link it left without
\* being told of its end was not closed: it lost its signaling.
LossNoticed ==
    \A k \in Links :
        /\ (run = [pc |-> "linked", k |-> k] /\ rtc[k] \in {"failed", "closed"})
               => k \in notice
        /\ (k < run.k /\ k \notin notice) => Up(k) \/ rtc[k] = "disconnected"

=============================================================================
