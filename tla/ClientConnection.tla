-------------------------- MODULE ClientConnection --------------------------
(***************************************************************************)
(* The Frankn client's connection to a host: the RtcClient of the app's    *)
(* background isolate, with its state machine (currentHostState), the      *)
(* attempts connectToHost makes, their timers, the cleanup of what earlier *)
(* attempts left, the signaling connection underneath, and the handler of  *)
(* network changes.                                                        *)
(*                                                                         *)
(* An isolate runs one event at a time: a step is what an event handler    *)
(* does up to its next wait for a timer, the network or the WebRTC library.*)
(* A continuation that waits for nothing real (a microtask) runs before    *)
(* the next event; the one of a cleanup nobody awaits is the step Drain,   *)
(* and every other step waits for it (tail).                               *)
(*                                                                         *)
(* One host.  Left out: candidates (the client sends none), presence, the  *)
(* host list and notifications; logins are in module Login, the messages   *)
(* of a session's capabilities are not modelled.                           *)
(***************************************************************************)
EXTENDS Naturals, FiniteSets

CONSTANTS
    \* Bounds of the instances that are checked:
    MaxCalls,       \* calls of connectToHost
    MaxFaults,      \* links and sockets lost, errors, refusals
    MaxSwitches     \* changes of the network interface

ASSUME ClientAssumption ==
    MaxCalls \in Nat \ {0} /\ MaxFaults \in Nat /\ MaxSwitches \in Nat

Calls == 1 .. MaxCalls
None  == 0
Ids   == Calls \cup {None}

VARIABLES
    cl,         \* the client's own fields
    call,       \* call of connectToHost -> where it is
    link,       \* call -> how far its peer connection has come
    hears,      \* call -> the generation its channels' messages need
    asked,      \* call -> the attempt whose login its link carries
    sig,        \* the signaling connection
    net,        \* the handler of a network change
    faults, switches,
    mixed,      \* history: an attempt began before the last one was gone
    unheard     \* history: a connect that was under way was not told of an end

vars == <<cl, call, link, hears, asked, sig, net, faults, switches, mixed, unheard>>
linkVars  == <<link, hears, asked>>
otherVars == <<net, switches, mixed, unheard>>
callVars  == <<call, linkVars>>

States == {"disconnected", "reconnectWaiting", "connecting", "signaling",
           "iceConnecting", "authenticating", "authenticated", "failed"}
Trying  == {"connecting", "signaling", "iceConnecting", "authenticating"}
Resting == {"disconnected", "reconnectWaiting", "failed"}

\* HostConnectionStateValidation.  Nothing asks for "connected" or "disconnecting".
NextStates(s) ==
    CASE s = "disconnected"     -> {"connecting", "reconnectWaiting"}
      [] s = "reconnectWaiting" -> {"connecting", "disconnected"}
      [] s = "connecting"       -> {"signaling", "failed", "disconnected"}
      [] s = "signaling"        -> {"iceConnecting", "failed", "disconnected"}
      [] s = "iceConnecting"    -> {"authenticating", "connecting", "failed", "disconnected"}
      [] s = "authenticating"   -> {"authenticated", "failed", "disconnected"}
      [] s = "authenticated"    -> {"disconnected", "failed"}
      [] s = "failed"           -> {"reconnectWaiting", "disconnected", "connecting"}

\* The entry of the host manager; the cleanups of it that are still running.
Entry == [pc : Ids, dc : Ids, attempt : Ids]
Sweep == [channels : Nat, pc : Nat]

ClientRec ==
    [host : States,
     target : BOOLEAN, last : BOOLEAN,      \* currentHostId, lastConnectedHostId
     intentional : BOOLEAN, authFailed : BOOLEAN,
     first : {"none", "young", "old"},      \* firstDisconnectTime: younger than 30 s?
     busy : BOOLEAN,                        \* _isConnectingInternal
     current : Ids,                         \* connectionGeneration: the last call
     attempt : Ids,                         \* activeAttempt
     stage : [Calls -> Ids],                \* timeoutTimer of an attempt: its generation
     retry : BOOLEAN, ping : BOOLEAN,       \* _reconnectTimer, _bgPingTimer
     entry : Entry, sweep : Sweep,
     open : SUBSET Calls,                   \* peer connections not yet disposed
     tail : BOOLEAN]                        \* a cleanup has its second half to run

CallStates == {"idle", "barrier", "create", "setup", "done"}
LinkStates == {"new", "offered", "answered", "open", "broken", "closed"}

TypeOK ==
    /\ cl \in ClientRec
    /\ call \in [Calls -> CallStates]
    /\ link \in [Calls -> LinkStates]
    /\ hears \in [Calls -> Ids] /\ asked \in [Calls -> Ids]
    /\ sig \in [state : {"disconnected", "connecting", "connected"},
                ws : BOOLEAN, session : BOOLEAN]
    /\ net \in {"idle", "check", "wait"}
    /\ faults \in 0 .. MaxFaults /\ switches \in 0 .. MaxSwitches
    /\ mixed \in BOOLEAN /\ unheard \in BOOLEAN

Init ==
    /\ cl = [host |-> "disconnected", target |-> FALSE, last |-> FALSE,
             intentional |-> FALSE, authFailed |-> FALSE, first |-> "none",
             busy |-> FALSE, current |-> None, attempt |-> None,
             stage |-> [a \in Calls |-> None], retry |-> FALSE, ping |-> FALSE,
             entry |-> [pc |-> None, dc |-> None, attempt |-> None],
             sweep |-> [channels |-> 0, pc |-> 0], open |-> {}, tail |-> FALSE]
    /\ call = [r \in Calls |-> "idle"]
    /\ link = [r \in Calls |-> "new"]
    /\ hears = [r \in Calls |-> None] /\ asked = [r \in Calls |-> None]
    /\ sig = [state |-> "disconnected", ws |-> FALSE, session |-> FALSE]
    /\ net = "idle" /\ faults = 0 /\ switches = 0
    /\ mixed = FALSE /\ unheard = FALSE

-----------------------------------------------------------------------------
(* Cleaning up *)

\* RtcConnectionAttempt::dispose: the timer, the callbacks and the connection.
Dispose(x, a) ==
    IF a = None THEN x ELSE [x EXCEPT !.open = @ \ {a}, !.stage[a] = None]

\* RtcHost::clearConnections up to its first wait: with channels to close it
\* waits for them first, with a peer connection alone it closes that.
StartSweep(x) ==
    IF x.entry.dc # None THEN [x EXCEPT !.sweep.channels = @ + 1]
    ELSE IF x.entry.pc # None
         THEN [x EXCEPT !.sweep.pc = @ + 1, !.open = @ \ {x.entry.pc}]
         ELSE x

\* _clearHostConnections up to the await of closeAllSessions...
FirstHalf(x) ==
    LET y == [x EXCEPT !.ping = FALSE, !.tail = TRUE] IN
    IF y.target
    THEN StartSweep([Dispose(y, y.entry.attempt) EXCEPT !.entry.attempt = None])
    ELSE y
\* Mutant: the attempt is left to the host manager.
SecondHalfKept(x) == [x EXCEPT !.retry = FALSE, !.busy = FALSE, !.tail = FALSE]
\* ... and after it.
SecondHalf(x) ==
    [Dispose(x, x.attempt) EXCEPT !.attempt = None, !.retry = FALSE,
                                  !.busy = FALSE, !.tail = FALSE]
Clear(x) == SecondHalf(FirstHalf(x))

-----------------------------------------------------------------------------
(* _transitionTo and _handleStateEffects *)

\* The timer of the stage belongs to the attempt; without one there is none.
SetStage(x, gen) ==
    IF x.attempt = None THEN x ELSE [x EXCEPT !.stage[x.attempt] = gen]

\* Mutant: the user's wish is forgotten.
RetriesAnyway(x) == x.target /\ ~x.authFailed
Retries(x) == x.target /\ ~x.intentional /\ ~x.authFailed
\* After a failure: wait for a retry, or give up.
WaitOrStop(x) ==
    IF Retries(x)
    THEN IF x.first = "old"
         THEN [x EXCEPT !.first = "none", !.target = FALSE, !.host = "disconnected"]
         ELSE [x EXCEPT !.first = "young", !.host = "reconnectWaiting", !.retry = TRUE]
    ELSE [x EXCEPT !.first = "none", !.target = @ /\ ~x.intentional]

\* Mutant: an Answer only cancels the timer of the stage before it.
StageTimerNoIce(x) ==
    SetStage(x, IF x.host \in Trying \ {"iceConnecting"} THEN x.current ELSE None)
StageTimer(x) == SetStage(x, IF x.host \in Trying THEN x.current ELSE None)

Effects(x) ==
    LET y == StageTimer(x) IN
    CASE x.host = "authenticated" -> [y EXCEPT !.last = @ \/ x.target]
      [] x.host \in {"disconnected", "failed"} -> WaitOrStop(FirstHalf(y))
      [] OTHER -> y

\* A transition the table does not list is ignored, and so is one to the same state.
Move(x, s) ==
    IF s # x.host /\ s \in NextStates(x.host) THEN Effects([x EXCEPT !.host = s]) ELSE x

\* The events that come next: the microtask first.
Event == ~cl.tail
Drain == /\ cl.tail
         /\ cl' = SecondHalf(cl)
         /\ UNCHANGED <<callVars, sig, faults, otherVars>>

\* The calls of connectToHost that have not returned.
Active == {r \in Calls : call[r] \in {"barrier", "create", "setup"}}
\* An end that they do not hear of.
Interrupts == unheard' = (unheard \/ Active # {})

\* What goes wrong outside of the client.
Fault == faults < MaxFaults /\ faults' = faults + 1

-----------------------------------------------------------------------------
(* The signaling connection *)

Ready == sig.state = "connected" /\ sig.session

\* connectToSignaling: only from "disconnected".  The socket counts as connected
\* at once; what becomes of it is reported to the transport alone.
Dialled == IF sig.state = "disconnected"
           THEN [sig EXCEPT !.state = "connecting", !.ws = TRUE] ELSE sig

\* The start of the app, an intent of the user or the timer of a refusal.
Dial == /\ Event /\ sig.state = "disconnected"
        /\ sig' = Dialled
        /\ UNCHANGED <<cl, callVars, faults, otherVars>>

\* Challenge, register, RegisterSuccess.
Registered ==
    /\ Event /\ sig.state = "connecting" /\ sig.ws
    /\ sig' = [sig EXCEPT !.state = "connected", !.session = TRUE]
    /\ UNCHANGED <<cl, callVars, faults, otherVars>>

\* RegisterFailure, or a challenge that cannot be answered: _handleDisconnection.
Refused ==
    /\ Event /\ sig.state = "connecting" /\ sig.ws /\ Fault
    /\ sig' = [state |-> "disconnected", ws |-> FALSE, session |-> FALSE]
    /\ UNCHANGED <<cl, callVars, otherVars>>

\* The socket closes, fails or falls silent: the transport knows, and no one
\* listens to its states.
SocketLost ==
    /\ Event /\ sig.ws /\ Fault
    /\ sig' = [sig EXCEPT !.ws = FALSE]
    /\ UNCHANGED <<cl, callVars, otherVars>>

\* An error the server reports, to whatever request.
SignalingError ==
    /\ Event /\ sig.ws /\ cl.host # "disconnected" /\ Fault
    /\ cl' = Move(cl, "failed")
    /\ Interrupts
    /\ UNCHANGED <<callVars, sig, net, switches, mixed>>

-----------------------------------------------------------------------------
(* connectToHost *)

\* Something of an earlier attempt is still there.
Leftover(r) == \/ Active \ {r} # {} \/ cl.attempt # None
               \/ cl.host \notin Resting
               \/ cl.sweep.channels + cl.sweep.pc > 0
NextCall(r) == call[r] = "idle" /\ \A q \in Calls : q < r => call[q] # "idle"

\* The fields the method sets before anything else.
Called(x) == [x EXCEPT !.busy = TRUE, !.target = TRUE, !.authFailed = FALSE,
                       !.intentional = FALSE, !.first = "none"]

\* The generation is this call's; what was there is cleaned up, which takes the
\* mark of a connect under way away; then the peer connection is created.
Start(r, x) ==
    /\ cl' = Move(Clear([x EXCEPT !.current = r]), "connecting")
    /\ call' = [call EXCEPT ![r] = "create"]
    /\ mixed' = (mixed \/ Leftover(r))

Connect(r) ==
    /\ Event /\ NextCall(r) /\ ~cl.busy
    /\ IF Ready
       THEN Start(r, Called(cl)) /\ UNCHANGED sig
       ELSE /\ cl' = Called(cl)
            /\ call' = [call EXCEPT ![r] = "barrier"]
            /\ sig' = Dialled
            /\ UNCHANGED mixed
    /\ UNCHANGED <<linkVars, net, faults, switches, unheard>>

\* waitForSignalingReady returns true...
PassBarrier(r) ==
    /\ Event /\ call[r] = "barrier" /\ Ready
    /\ Start(r, cl)
    /\ UNCHANGED <<linkVars, sig, net, faults, switches, unheard>>
\* ... or false after 10 s.
MissBarrier(r) ==
    /\ Event /\ call[r] = "barrier" /\ ~Ready
    /\ cl' = Move([cl EXCEPT !.busy = FALSE], "failed")
    /\ call' = [call EXCEPT ![r] = "done"]
    /\ UNCHANGED <<linkVars, sig, faults, otherVars>>

\* An exception: catch and finally.
Throw(r, x) ==
    /\ cl' = [Move([x EXCEPT !.authFailed = FALSE], "failed") EXCEPT !.busy = FALSE]
    /\ call' = [call EXCEPT ![r] = "done"]

\* createPeerConnection returns.  Without a socket there is no channel to build
\* the attempt with.
Created(r) ==
    LET x == [cl EXCEPT !.entry.pc = r, !.open = @ \cup {r}] IN
    /\ Event /\ call[r] = "create"
    /\ IF sig.ws
       THEN /\ cl' = [x EXCEPT !.attempt = r, !.entry.attempt = r]
            /\ call' = [call EXCEPT ![r] = "setup"]
       ELSE Throw(r, x)
    /\ UNCHANGED <<linkVars, sig, faults, otherVars>>

\* The channels, the offer and the local description.  On a connection that was
\* disposed meanwhile the library throws.  The Offer is sent if there is a
\* registered socket, whatever became of the transition.
SetUp(r) ==
    /\ Event /\ call[r] = "setup"
    /\ IF r \in cl.open
       THEN /\ cl' = [Move([cl EXCEPT !.entry.dc = r], "signaling") EXCEPT !.busy = FALSE]
            /\ call' = [call EXCEPT ![r] = "done"]
            /\ hears' = [hears EXCEPT ![r] = cl.current]
            /\ link' = [link EXCEPT ![r] = IF sig.ws /\ sig.session
                                           THEN "offered" ELSE "broken"]
       ELSE Throw(r, cl) /\ UNCHANGED <<hears, link>>
    /\ UNCHANGED <<asked, sig, faults, otherVars>>

\* The library fails in either of them.
LibraryFails(r) ==
    /\ Event /\ call[r] \in {"create", "setup"} /\ Fault
    /\ Throw(r, cl)
    /\ UNCHANGED <<linkVars, sig, otherVars>>

-----------------------------------------------------------------------------
(* What a link reports.  An event of a call counts if its generation is current. *)

\* An Answer is taken by the attempt there is, if it comes from the host the
\* client wants; nothing tells which Offer it answers.
Answer(r) ==
    /\ Event /\ link[r] = "offered" /\ sig.ws /\ sig.session
    /\ LET a == cl.attempt IN
       IF a = None \/ ~cl.target
       THEN UNCHANGED cl /\ link' = [link EXCEPT ![r] = "broken"]
       ELSE /\ cl' = Move(cl, "iceConnecting")
            /\ link' = IF a = r THEN [link EXCEPT ![r] = "answered"]
                       ELSE [link EXCEPT ![r] = "broken",
                                         ![a] = IF @ = "offered" THEN "broken" ELSE @]
    /\ UNCHANGED <<call, hears, asked, sig, faults, otherVars>>

\* authenticate: over the channel of the entry, for the attempt there is.
LoginSent(x) == [x EXCEPT !.authFailed = x.attempt = None]
LinkUp(r) ==
    /\ Event /\ link[r] = "answered" /\ r \in cl.open
    /\ link' = [link EXCEPT ![r] = "open"]
    /\ IF r = cl.current
       THEN /\ cl' = LoginSent(Move([cl EXCEPT !.first = "none"], "authenticating"))
            /\ asked' = [asked EXCEPT ![r] = IF cl.entry.dc = r THEN cl.attempt ELSE None]
       ELSE UNCHANGED <<cl, asked>>
    /\ UNCHANGED <<call, hears, sig, faults, otherVars>>

\* The host's answer to the login comes over an open link.
Reply(r) == /\ Event /\ link[r] = "open" /\ r \in cl.open
            /\ asked[r] # None /\ hears[r] = cl.current
            /\ asked' = [asked EXCEPT ![r] = None]
\* Mutant: the heartbeat is started for the first session only.
GrantedOnce(x) ==
    [Move([x EXCEPT !.authFailed = FALSE], "authenticated") EXCEPT !.ping = ~x.last]
Granted(x) ==
    [Move([x EXCEPT !.authFailed = FALSE], "authenticated") EXCEPT !.ping = TRUE]
AuthSuccess(r) ==
    /\ Reply(r)
    /\ cl' = IF asked[r] = cl.attempt THEN Granted(cl) ELSE cl
    /\ UNCHANGED <<call, link, hears, sig, faults, otherVars>>
AuthFailed(r) ==
    /\ Reply(r) /\ Fault
    /\ cl' = Move([cl EXCEPT !.authFailed = TRUE], "failed")
    /\ UNCHANGED <<call, link, hears, sig, otherVars>>

\* The peer connection fails; a wrong description never comes up.
LinkFails(r) ==
    /\ Event /\ r \in cl.open
    /\ \/ link[r] \in {"answered", "open"} /\ Fault
       \/ link[r] = "broken" /\ UNCHANGED faults
    /\ link' = [link EXCEPT ![r] = "closed"]
    /\ cl' = IF r = cl.current THEN Move(cl, "failed") ELSE cl
    /\ UNCHANGED <<call, hears, asked, sig, otherVars>>
\* The command channel closes, with its peer connection or by the host.
ChannelCloses(r) ==
    /\ Event /\ link[r] = "open"
    /\ IF r \in cl.open THEN Fault ELSE UNCHANGED faults
    /\ link' = [link EXCEPT ![r] = "closed"]
    /\ cl' = IF r = cl.current THEN Move(cl, "disconnected") ELSE cl
    /\ UNCHANGED <<call, hears, asked, sig, otherVars>>

\* The cleanup of the entry goes on: it reads the fields again after each wait.
SweepChannels ==
    /\ Event /\ cl.sweep.channels > 0
    /\ cl' = [cl EXCEPT !.sweep.channels = @ - 1, !.entry.dc = None,
                        !.sweep.pc = IF cl.entry.pc = None THEN @ ELSE @ + 1,
                        !.open = @ \ {cl.entry.pc}]
    /\ UNCHANGED <<callVars, sig, faults, otherVars>>
\* Mutant: whoever finds a connection closes it.
SweepConnectionTwice ==
    /\ Event /\ cl.entry.pc # None
    /\ cl' = [cl EXCEPT !.sweep.pc = @ - 1, !.entry.pc = None,
                        !.open = @ \ {cl.entry.pc}]
    /\ UNCHANGED <<callVars, sig, faults, otherVars>>
SweepConnection ==
    /\ Event /\ cl.sweep.pc > 0
    /\ cl' = [cl EXCEPT !.sweep.pc = @ - 1, !.entry.pc = None,
                        !.open = @ \ {cl.entry.pc}]
    /\ UNCHANGED <<callVars, sig, faults, otherVars>>

-----------------------------------------------------------------------------
(* Timers and the user.  The timer of a retry (retry) has no action: it is armed *)
(* only while the cleanup before it has its second half to run, which cancels it *)
(* before any event (RetryDisarmed of ClientConnectionProofs).                   *)

\* Mutant: only the stages before the Answer can time out.
EscapesEarly(gen) == gen = cl.current /\ cl.host \in {"connecting", "signaling"}
Escapes(gen) ==
    gen = cl.current /\ cl.host \notin {"authenticated", "disconnected"}
\* The escape timeout of a stage.
StageTimeout(a) ==
    /\ Event /\ cl.stage[a] # None
    /\ LET x == [cl EXCEPT !.stage[a] = None] IN
       cl' = IF Escapes(cl.stage[a]) THEN Move(x, "failed") ELSE x
    /\ UNCHANGED <<callVars, sig, faults, otherVars>>

\* No pong for 15 s.
PongLost ==
    /\ Event /\ cl.ping /\ cl.host = "authenticated" /\ Fault
    /\ cl' = Move([cl EXCEPT !.ping = FALSE], "disconnected")
    /\ UNCHANGED <<callVars, sig, otherVars>>

\* 30 s since the first failure.
Age ==
    /\ Event /\ cl.first = "young"
    /\ cl' = [cl EXCEPT !.first = "old"]
    /\ UNCHANGED <<callVars, sig, faults, otherVars>>

Disconnect ==
    /\ Event /\ ~cl.intentional
    /\ cl' = Move([cl EXCEPT !.intentional = TRUE], "disconnected")
    /\ unheard' = (unheard \/ Active # {} \/ net # "idle")
    /\ UNCHANGED <<callVars, sig, faults, net, switches, mixed>>

-----------------------------------------------------------------------------
(* initNetworkConnectivityListener *)

NetworkChange ==
    /\ Event /\ net = "idle" /\ switches < MaxSwitches
    /\ net' = "check" /\ switches' = switches + 1
    /\ UNCHANGED <<cl, callVars, sig, faults, mixed, unheard>>

\* There is internet: everything is torn down, signaling dialled anew.
Switch ==
    /\ Event /\ net = "check"
    /\ IF (cl.target \/ cl.last) /\ ~cl.intentional
       THEN /\ cl' = [Clear(Move([cl EXCEPT !.busy = FALSE], "disconnected"))
                        EXCEPT !.target = TRUE, !.last = TRUE, !.first = "young"]
            /\ sig' = [state |-> "connecting", ws |-> TRUE, session |-> FALSE]
            /\ net' = "wait"
       ELSE UNCHANGED <<cl, sig>> /\ net' = "idle"
    /\ Interrupts
    /\ UNCHANGED <<callVars, faults, switches, mixed>>

\* waitForSignalingReady: the handler connects, without asking again...
SwitchReady(r) ==
    /\ Event /\ net = "wait" /\ Ready /\ NextCall(r)
    /\ net' = "idle"
    /\ IF cl.busy THEN UNCHANGED <<cl, call, mixed>> ELSE Start(r, Called(cl))
    /\ UNCHANGED <<linkVars, sig, faults, switches, unheard>>
\* ... or gives up after 5 s.
SwitchFails ==
    /\ Event /\ net = "wait" /\ ~Ready
    /\ net' = "idle"
    /\ cl' = Move(cl, "failed")
    /\ Interrupts
    /\ UNCHANGED <<callVars, sig, faults, switches, mixed>>

-----------------------------------------------------------------------------

CallStep(r) == PassBarrier(r) \/ MissBarrier(r) \/ Created(r) \/ SetUp(r)

Next ==
    \/ Drain \/ Dial \/ Registered \/ Refused \/ SocketLost \/ SignalingError
    \/ \E r \in Calls :
        \/ Connect(r) \/ CallStep(r) \/ LibraryFails(r)
        \/ Answer(r) \/ LinkUp(r) \/ AuthSuccess(r) \/ AuthFailed(r)
        \/ LinkFails(r) \/ ChannelCloses(r)
        \/ StageTimeout(r) \/ SwitchReady(r)
    \/ SweepChannels \/ SweepConnection
    \/ PongLost \/ Age \/ Disconnect
    \/ NetworkChange \/ Switch \/ SwitchFails

Spec == Init /\ [][Next]_vars

\* Microtasks run, timers fire, and the library answers.
FairSpec ==
    /\ Spec /\ WF_vars(Drain)
    /\ \A r \in Calls : WF_vars(CallStep(r)) /\ WF_vars(StageTimeout(r))

-----------------------------------------------------------------------------
(* Properties *)

\* No attempt began beside an earlier one, and no connect missed an end.  The
\* code has no defence in those cases; MC instances do not continue them.
Quiet == ~mixed /\ ~unheard

\* No stage hangs: while the client is on its way to a host, either the call
\* that leads it there has not returned, or the current attempt has a timer
\* that was set for the current generation and so will count when it fires
\* (_startTimeoutTimer: "escape timeouts to prevent hangs").
EscapeTimer ==
    (Quiet /\ Event /\ cl.host \in Trying) =>
        \/ Active # {}
        \/ cl.attempt # None /\ cl.stage[cl.attempt] = cl.current

\* Every attempt ends: authenticated, failed or disconnected, whatever the host,
\* the network and the signaling server do not answer.
AttemptEnds == (Quiet /\ cl.host \in Trying) ~> (~Quiet \/ cl.host \notin Trying)

\* Whichever way an attempt fails or ends (its own exception, a timer, the
\* link, the user, the network), nothing of it is left: no peer connection, no
\* attempt, no heartbeat, and the mark of a connect under way is gone, so that
\* the next connect is not refused for ever.
NothingLeft ==
    (Quiet /\ Event /\ cl.host \in Resting /\ Active = {}) =>
        cl.open = {} /\ cl.attempt = None /\ ~cl.ping /\ ~cl.busy

\* After the user disconnects the client stays disconnected until the next
\* connect: no retry, timer, late reply or change of network takes it back.
DisconnectHolds ==
    (Quiet /\ Event /\ cl.intentional) =>
        cl.host = "disconnected" /\ cl.attempt = None /\ cl.open = {}

\* "Backoff timer active" (host_connection_state.dart, of this state; rtc.dart
\* promises "Automatic reconnection with 30-second recovery window"): a client that
\* waits for its next try has the timer that will make it.  It has not: the second
\* half of the cleanup that nobody awaits cancels the timer as soon as it is armed.
BackoffActive == (Quiet /\ Event /\ cl.host = "reconnectWaiting") => cl.retry

\* An authenticated client has what a session needs, all of one attempt: its
\* peer connection is open, the host's entry sends over its channels, the
\* heartbeat that would notice a dead link runs, and the host is remembered.
AuthenticatedIsLive ==
    (Quiet /\ Event /\ cl.host = "authenticated") =>
        /\ cl.attempt = cl.current /\ cl.attempt \in cl.open
        /\ cl.entry.dc = cl.attempt /\ cl.ping /\ cl.target

=============================================================================
