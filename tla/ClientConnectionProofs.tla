------------------------- MODULE ClientConnectionProofs -------------------------
(***************************************************************************)
(* Theorems about the client's connection to a host, for any number of     *)
(* calls, faults and changes of the network.                               *)
(***************************************************************************)
EXTENDS ClientConnection, TLAPS

-----------------------------------------------------------------------------
(* The inductive invariant, part by part *)

\* What every state has, quiet or not.
Typed ==
    /\ TypeOK
    /\ cl.retry => cl.tail
    /\ \A r \in Calls : call[r] # "done" => link[r] = "new" /\ asked[r] = None

\* What the host manager still holds is being swept.
Swept(x) ==
    /\ x.entry.dc # None => x.sweep.channels > 0
    /\ x.entry.pc # None => x.sweep.channels > 0 \/ x.sweep.pc > 0
NoSweep(x) == x.sweep.channels = 0 /\ x.sweep.pc = 0

\* Nothing of an attempt is left.
Bare(x) ==
    /\ x.open = {} /\ x.attempt = None /\ ~x.ping /\ Swept(x)
    /\ \A a \in Calls : x.stage[a] = None

\* A call is at the peer connection and the offer.
AtWork(r) == call[r] \in {"create", "setup"}
Making(x, r) ==
    /\ AtWork(r) /\ Active = {r} /\ Ready
    /\ x.current = r /\ x.target /\ ~x.ping
    /\ NoSweep(x) /\ x.entry.dc = None
    /\ \A a \in Calls : x.stage[a] = None
    /\ call[r] = "create" => x.open = {} /\ x.attempt = None /\ x.entry.pc = None
    /\ call[r] = "setup"  => x.open = {r} /\ x.attempt = r /\ x.entry.pc = r

\* The offer is out, and everything is the current attempt's.
LiveStates == {"signaling", "iceConnecting", "authenticating", "authenticated"}
LinkOf(s) == CASE s = "signaling"     -> {"offered", "broken"}
               [] s = "iceConnecting" -> {"answered", "broken"}
               [] OTHER               -> {"open"}
Live(x) ==
    LET r == x.current IN
    /\ Active = {} /\ Ready
    /\ r \in Calls /\ call[r] = "done" /\ x.attempt = r /\ x.open = {r}
    /\ x.entry.dc = r /\ NoSweep(x) /\ x.target
    /\ x.ping <=> x.host = "authenticated"
    /\ x.stage[r] = IF x.host = "authenticated" THEN None ELSE r
    /\ \A a \in Calls \ {r} : x.stage[a] = None
    /\ link[r] \in LinkOf(x.host)
    /\ asked[r] \in {None, r}
    /\ asked[r] # None => x.host = "authenticating"

\* A call waits for the signaling connection.
AtBarrier == \E q \in Calls : call[q] = "barrier"
Waiting(x) ==
    /\ x.host \in Resting /\ x.target
    /\ x.first = "none" \/ x.current = None \/ link[x.current] # "open"

Sound(x) ==
    /\ x.busy => AtBarrier
    /\ x.intentional => x.host = "disconnected" /\ Active = {} /\ net # "wait"
    /\ AtBarrier => Waiting(x)
    /\ x.host \in Resting => Bare(x) /\ \A r \in Calls : ~AtWork(r)
    /\ x.host = "connecting" => \E r \in Calls : Making(x, r)
    /\ x.host \in LiveStates => Live(x)

\* The client once the cleanup that is under way has run.
Drained == IF cl.tail THEN SecondHalf(cl) ELSE cl

IInv == Typed /\ (Quiet => Sound(Drained))

-----------------------------------------------------------------------------
(* What the operators of the model do to the client's record *)

\* The fields that say what the client is about are those of another record.
Aims(x, y) ==
    /\ y.host = x.host /\ y.target = x.target /\ y.intentional = x.intentional
    /\ y.first = x.first /\ y.current = x.current

LEMMA CallIds == Calls \subseteq Ids /\ None \in Ids /\ None \notin Calls
BY DEF Calls, Ids, None

LEMMA Table ==
    /\ \A h \in States \ Resting : {"failed", "disconnected"} \subseteq NextStates(h)
    /\ \A h \in Resting : "connecting" \in NextStates(h) /\ "failed" \notin NextStates(h)
    /\ \A h \in States : /\ "signaling" \in NextStates(h) <=> h = "connecting"
                         /\ "iceConnecting" \in NextStates(h) <=> h = "signaling"
                         /\ "authenticating" \in NextStates(h) <=> h = "iceConnecting"
                         /\ "authenticated" \in NextStates(h) <=> h = "authenticating"
BY DEF NextStates, States, Resting

LEMMA StateSets ==
    /\ States = Resting \cup {"connecting"} \cup LiveStates
    /\ Trying = {"connecting"} \cup (LiveStates \ {"authenticated"})
    /\ Resting \cap LiveStates = {} /\ "connecting" \notin Resting \cup LiveStates
BY DEF States, Resting, LiveStates, Trying

LEMMA DisposeEffect ==
    ASSUME NEW x \in ClientRec, NEW a \in Ids
    PROVE  LET y == Dispose(x, a) IN
           /\ y \in ClientRec /\ Aims(x, y)
           /\ y.open = x.open \ {a} /\ y.attempt = x.attempt
           /\ \A b \in Calls : y.stage[b] = IF b = a THEN None ELSE x.stage[b]
           /\ y.entry = x.entry /\ y.sweep = x.sweep /\ y.retry = x.retry
           /\ y.ping = x.ping /\ y.busy = x.busy /\ y.tail = x.tail
<1>1. CASE a = None
    <2>1. x.open \ {a} = x.open
      BY <1>1, CallIds DEF ClientRec
    <2> QED
      BY <1>1, <2>1, CallIds DEF Dispose, Aims
<1>2. CASE a # None
    <2> DEFINE stage == [x.stage EXCEPT ![a] = None]
               open == x.open \ {a}
               y == [x EXCEPT !.open = open, !.stage = stage]
    <2>1. /\ stage \in [Calls -> Ids] /\ open \subseteq Calls
          /\ \A b \in Calls : stage[b] = IF b = a THEN None ELSE x.stage[b]
      BY CallIds DEF ClientRec
    <2>2. Dispose(x, a) = y
      BY <1>2 DEF Dispose
    <2> HIDE DEF stage, open
    <2>3. /\ y \in ClientRec /\ Aims(x, y) /\ y.open = open /\ y.stage = stage
          /\ y.attempt = x.attempt /\ y.entry = x.entry /\ y.sweep = x.sweep
          /\ y.retry = x.retry /\ y.ping = x.ping /\ y.busy = x.busy /\ y.tail = x.tail
      BY <2>1 DEF ClientRec, Aims
    <2> HIDE DEF y
    <2> QED
      BY <2>1, <2>2, <2>3 DEF open
<1> QED
    BY <1>1, <1>2

LEMMA StartSweepEffect ==
    ASSUME NEW x \in ClientRec
    PROVE  LET y == StartSweep(x) IN
           /\ y \in ClientRec /\ Aims(x, y) /\ Swept(y)
           /\ y.open \subseteq x.open
           /\ x.entry.dc = None => y.open = x.open \ {x.entry.pc}
           /\ x.entry.dc = None /\ x.entry.pc = None => y = x
           /\ y.attempt = x.attempt /\ y.stage = x.stage
           /\ y.entry = x.entry /\ y.retry = x.retry
           /\ y.ping = x.ping /\ y.busy = x.busy /\ y.tail = x.tail
<1>0. x.entry \in Entry /\ x.sweep \in Sweep /\ x.open \subseteq Calls
    BY DEF ClientRec
<1>1. CASE x.entry.dc # None
    <2> DEFINE sweep == [x.sweep EXCEPT !.channels = x.sweep.channels + 1]
               y == [x EXCEPT !.sweep = sweep]
    <2>1. sweep \in Sweep /\ sweep.channels > 0
      BY <1>0 DEF Sweep
    <2>2. StartSweep(x) = y
      BY <1>1 DEF StartSweep
    <2> HIDE DEF sweep
    <2>3. /\ y \in ClientRec /\ Aims(x, y) /\ y.open = x.open /\ y.stage = x.stage
          /\ y.attempt = x.attempt /\ y.entry = x.entry /\ y.sweep = sweep
          /\ y.retry = x.retry /\ y.ping = x.ping /\ y.busy = x.busy /\ y.tail = x.tail
      BY <2>1 DEF ClientRec, Aims
    <2> HIDE DEF y
    <2> QED
      BY <1>1, <2>1, <2>2, <2>3 DEF Swept
<1>2. CASE x.entry.dc = None /\ x.entry.pc # None
    <2> DEFINE sweep == [x.sweep EXCEPT !.pc = x.sweep.pc + 1]
               open == x.open \ {x.entry.pc}
               y == [x EXCEPT !.sweep = sweep, !.open = open]
    <2>1. sweep \in Sweep /\ sweep.pc > 0 /\ open \subseteq Calls
      BY <1>0 DEF Sweep
    <2>2. StartSweep(x) = y
      BY <1>2 DEF StartSweep
    <2> HIDE DEF sweep, open
    <2>3. /\ y \in ClientRec /\ Aims(x, y) /\ y.open = open /\ y.stage = x.stage
          /\ y.attempt = x.attempt /\ y.entry = x.entry /\ y.sweep = sweep
          /\ y.retry = x.retry /\ y.ping = x.ping /\ y.busy = x.busy /\ y.tail = x.tail
      BY <2>1 DEF ClientRec, Aims
    <2> HIDE DEF y
    <2> QED
      BY <1>2, <2>1, <2>2, <2>3 DEF Swept, open
<1>3. CASE x.entry.dc = None /\ x.entry.pc = None
    <2>1. x.open \ {x.entry.pc} = x.open
      BY <1>0, <1>3, CallIds
    <2> QED
      BY <1>3, <2>1 DEF StartSweep, Swept, Aims
<1> QED
    BY <1>1, <1>2, <1>3

LEMMA FirstHalfEffect ==
    ASSUME NEW x \in ClientRec
    PROVE  LET y == FirstHalf(x) IN
           /\ y \in ClientRec /\ Aims(x, y) /\ y.tail /\ ~y.ping
           /\ y.open \subseteq x.open
           /\ x.target /\ x.entry.dc = None => y.open \subseteq x.open \ {x.entry.pc}
           /\ \A a \in Calls : y.stage[a] \in {None, x.stage[a]}
           /\ x.target \/ Swept(x) => Swept(y)
           /\ x.entry.dc = None /\ x.entry.pc = None =>
                 y.entry.dc = None /\ y.entry.pc = None /\ y.sweep = x.sweep
           /\ y.attempt = x.attempt /\ y.retry = x.retry /\ y.busy = x.busy
<1> DEFINE w == [x EXCEPT !.ping = FALSE, !.tail = TRUE]
<1>1. /\ w \in ClientRec /\ Aims(x, w) /\ w.tail /\ ~w.ping /\ w.open = x.open
      /\ w.attempt = x.attempt /\ w.stage = x.stage /\ w.entry = x.entry
      /\ w.sweep = x.sweep /\ w.retry = x.retry /\ w.busy = x.busy
    BY DEF ClientRec, Aims
<1>2. FirstHalf(x) = IF w.target
                     THEN StartSweep([Dispose(w, w.entry.attempt)
                                        EXCEPT !.entry.attempt = None])
                     ELSE w
    BY DEF FirstHalf
<1> HIDE DEF w
<1>3. CASE ~w.target
    BY <1>1, <1>2, <1>3 DEF Aims, Swept
<1>4. CASE w.target
    <2> DEFINE d == Dispose(w, w.entry.attempt)
               entry == [d.entry EXCEPT !.attempt = None]
               e == [d EXCEPT !.entry = entry]
               y == StartSweep(e)
    <2>1. FirstHalf(x) = y
      BY <1>2, <1>4
    <2>2. w.entry \in Entry /\ w.entry.attempt \in Ids
      BY <1>1 DEF ClientRec, Entry
    <2>3. /\ d \in ClientRec /\ Aims(w, d) /\ d.open \subseteq w.open
          /\ \A a \in Calls : d.stage[a] \in {None, w.stage[a]}
          /\ d.attempt = w.attempt /\ d.entry = w.entry /\ d.sweep = w.sweep
          /\ d.retry = w.retry /\ d.ping = w.ping /\ d.busy = w.busy /\ d.tail = w.tail
      <3> DEFINE a == w.entry.attempt
      <3>1. a \in Ids
        BY <2>2
      <3> HIDE DEF a
      <3> DEFINE z == Dispose(w, a)
      <3>2. /\ z \in ClientRec /\ Aims(w, z) /\ z.open = w.open \ {a}
            /\ \A b \in Calls : z.stage[b] = IF b = a THEN None ELSE w.stage[b]
            /\ z.attempt = w.attempt /\ z.entry = w.entry /\ z.sweep = w.sweep
            /\ z.retry = w.retry /\ z.ping = w.ping /\ z.busy = w.busy
            /\ z.tail = w.tail
        <4>1. w \in ClientRec
          BY <1>1
        <4> HIDE DEF d
        <4> QED
          BY <3>1, <4>1, DisposeEffect
      <3>3. d = z
        BY DEF a, d
      <3> HIDE DEF z, d
      <3> QED
        BY <3>2, <3>3
    <2> HIDE DEF d
    <2>4. entry \in Entry /\ entry.dc = x.entry.dc /\ entry.pc = x.entry.pc
      BY <1>1, <2>2, <2>3, CallIds DEF Entry
    <2> HIDE DEF entry
    <2>5. /\ e \in ClientRec /\ Aims(d, e) /\ e.open = d.open /\ e.entry = entry
          /\ e.stage = d.stage /\ e.attempt = d.attempt /\ e.sweep = d.sweep
          /\ e.retry = d.retry /\ e.ping = d.ping /\ e.busy = d.busy /\ e.tail = d.tail
      BY <2>3, <2>4 DEF ClientRec, Aims
    <2> HIDE DEF e
    <2>6. /\ y \in ClientRec /\ Aims(e, y) /\ Swept(y) /\ y.open \subseteq e.open
          /\ e.entry.dc = None => y.open = e.open \ {e.entry.pc}
          /\ e.entry.dc = None /\ e.entry.pc = None => y = e
          /\ y.attempt = e.attempt /\ y.stage = e.stage
          /\ y.entry = e.entry /\ y.retry = e.retry
          /\ y.ping = e.ping /\ y.busy = e.busy /\ y.tail = e.tail
      BY <2>5, StartSweepEffect
    <2> HIDE DEF y
    <2>7. Aims(x, y)
      BY <1>1, <2>3, <2>5, <2>6 DEF Aims
    <2> QED
      BY <1>1, <2>1, <2>3, <2>4, <2>5, <2>6, <2>7
<1> QED
    BY <1>3, <1>4

LEMMA SecondHalfEffect ==
    ASSUME NEW x \in ClientRec
    PROVE  LET y == SecondHalf(x) IN
           /\ y \in ClientRec /\ Aims(x, y)
           /\ y.open = x.open \ {x.attempt} /\ y.attempt = None
           /\ \A a \in Calls : y.stage[a] = IF a = x.attempt THEN None ELSE x.stage[a]
           /\ y.entry = x.entry /\ y.sweep = x.sweep /\ y.ping = x.ping
           /\ ~y.retry /\ ~y.busy /\ ~y.tail
<1> DEFINE d == Dispose(x, x.attempt)
           y == [d EXCEPT !.attempt = None, !.retry = FALSE, !.busy = FALSE,
                          !.tail = FALSE]
<1>1. /\ d \in ClientRec /\ Aims(x, d)
      /\ d.open = x.open \ {x.attempt}
      /\ \A a \in Calls : d.stage[a] = IF a = x.attempt THEN None ELSE x.stage[a]
      /\ d.entry = x.entry /\ d.sweep = x.sweep /\ d.ping = x.ping
    <2>1. x.attempt \in Ids
      BY DEF ClientRec
    <2> QED
      BY <2>1, DisposeEffect
<1>2. SecondHalf(x) = y
    BY DEF SecondHalf
<1> HIDE DEF d
<1>3. /\ y \in ClientRec /\ Aims(d, y) /\ y.open = d.open /\ y.attempt = None
      /\ y.stage = d.stage /\ y.entry = d.entry /\ y.sweep = d.sweep /\ y.ping = d.ping
      /\ ~y.retry /\ ~y.busy /\ ~y.tail
    BY <1>1, CallIds DEF ClientRec, Aims
<1> HIDE DEF y
<1>4. Aims(x, y)
    BY <1>1, <1>3 DEF Aims
<1> QED
    BY <1>1, <1>2, <1>3, <1>4

LEMMA SetStageEffect ==
    ASSUME NEW x \in ClientRec, NEW g \in Ids
    PROVE  LET y == SetStage(x, g) IN
           /\ y \in ClientRec /\ Aims(x, y)
           /\ \A a \in Calls : y.stage[a] = IF a = x.attempt THEN g ELSE x.stage[a]
           /\ y.open = x.open /\ y.attempt = x.attempt /\ y.entry = x.entry
           /\ y.sweep = x.sweep /\ y.retry = x.retry /\ y.ping = x.ping
           /\ y.busy = x.busy /\ y.tail = x.tail
<1>1. CASE x.attempt = None
    BY <1>1, CallIds DEF SetStage, Aims
<1>2. CASE x.attempt # None
    <2> DEFINE stage == [x.stage EXCEPT ![x.attempt] = g]
               y == [x EXCEPT !.stage = stage]
    <2>1. /\ stage \in [Calls -> Ids]
          /\ \A a \in Calls : stage[a] = IF a = x.attempt THEN g ELSE x.stage[a]
      BY DEF ClientRec
    <2>2. SetStage(x, g) = y
      BY <1>2 DEF SetStage
    <2> HIDE DEF stage
    <2>3. /\ y \in ClientRec /\ Aims(x, y) /\ y.stage = stage
          /\ y.open = x.open /\ y.attempt = x.attempt /\ y.entry = x.entry
          /\ y.sweep = x.sweep /\ y.retry = x.retry /\ y.ping = x.ping
          /\ y.busy = x.busy /\ y.tail = x.tail
      BY <2>1 DEF ClientRec, Aims
    <2> HIDE DEF y
    <2> QED
      BY <2>1, <2>2, <2>3
<1> QED
    BY <1>1, <1>2

LEMMA WaitOrStopEffect ==
    ASSUME NEW f \in ClientRec, f.tail, f.host \in {"failed", "disconnected"}
    PROVE  LET y == WaitOrStop(f) IN
           /\ y \in ClientRec /\ y.tail
           /\ y.host \in {f.host, "disconnected", "reconnectWaiting"}
           /\ y.current = f.current /\ y.intentional = f.intentional
           /\ y.first = "young" \/ y.host # "reconnectWaiting"
           /\ f.target /\ ~f.intentional /\ f.first # "old" => y.target
           /\ f.intentional => y.host = f.host
           /\ y.open = f.open /\ y.attempt = f.attempt /\ y.stage = f.stage
           /\ y.entry = f.entry /\ y.sweep = f.sweep /\ y.ping = f.ping
<1> DEFINE y == WaitOrStop(f)
<1>1. CASE Retries(f) /\ f.first = "old"
    <2>1. y = [f EXCEPT !.first = "none", !.target = FALSE, !.host = "disconnected"]
      BY <1>1 DEF WaitOrStop
    <2> HIDE DEF y
    <2>2. ~f.intentional
      BY <1>1 DEF Retries
    <2> QED
      BY <1>1, <2>1, <2>2 DEF ClientRec, States, y
<1>2. CASE Retries(f) /\ f.first # "old"
    <2>1. y = [f EXCEPT !.first = "young", !.host = "reconnectWaiting", !.retry = TRUE]
      BY <1>2 DEF WaitOrStop
    <2> HIDE DEF y
    <2>2. ~f.intentional
      BY <1>2 DEF Retries
    <2> QED
      BY ZenonT(60), <1>2, <2>1, <2>2 DEF ClientRec, States, y
<1>3. CASE ~Retries(f)
    <2> DEFINE target == f.target /\ ~f.intentional
    <2>1. y = [f EXCEPT !.first = "none", !.target = target]
      BY <1>3 DEF WaitOrStop
    <2>2. target \in BOOLEAN /\ (f.target /\ ~f.intentional => target)
      OBVIOUS
    <2> HIDE DEF y, target
    <2>3. f.host # "reconnectWaiting"
      BY <1>3
    <2> QED
      BY ZenonT(60), <1>3, <2>1, <2>2, <2>3 DEF ClientRec, States, y
<1> QED
    BY <1>1, <1>2, <1>3

\* What is held is the attempt's, or can be swept.
Owned(x) ==
    /\ \/ x.open \subseteq {x.attempt}
       \/ x.target /\ x.entry.dc = None /\ x.open \subseteq {x.attempt, x.entry.pc}
    /\ \A a \in Calls : x.stage[a] # None => a = x.attempt
    /\ x.target \/ Swept(x)

\* What is held goes with the attempt, in the cleanup's second half.
Held(x) ==
    /\ x.open \subseteq {x.attempt} /\ ~x.ping /\ Swept(x)
    /\ \A a \in Calls : x.stage[a] # None => a = x.attempt

LEMMA HeldIsCleared ==
    ASSUME NEW x \in ClientRec, Held(x)
    PROVE  Bare(SecondHalf(x))
<1> DEFINE y == SecondHalf(x)
<1>1. /\ y.open = x.open \ {x.attempt} /\ y.attempt = None
      /\ \A a \in Calls : y.stage[a] = IF a = x.attempt THEN None ELSE x.stage[a]
      /\ y.entry = x.entry /\ y.sweep = x.sweep /\ y.ping = x.ping
    BY SecondHalfEffect
<1> HIDE DEF y
<1>2. Bare(y)
    BY <1>1 DEF Held, Bare, Swept
<1> QED
    BY <1>2 DEF y

\* The end of an attempt, up to the cleanup's second half.
Ended(x, y) ==
    /\ y \in ClientRec /\ y.tail /\ y.host \in Resting /\ Held(y)
    /\ y.current = x.current /\ y.intentional = x.intentional
    /\ y.first = "young" \/ y.host # "reconnectWaiting"
    /\ x.target /\ ~x.intentional /\ x.first # "old" => y.target

LEMMA EffectsEnd ==
    ASSUME NEW x \in ClientRec, Owned(x), x.host \in {"failed", "disconnected"}
    PROVE  LET y == Effects(x) IN
           Ended(x, y) /\ (x.intentional => y.host = x.host)
<1> DEFINE s == StageTimer(x)
           f == FirstHalf(s)
           y == WaitOrStop(f)
<1>1. Effects(x) = y
    BY DEF Effects
<1>2. /\ s \in ClientRec /\ Aims(x, s)
      /\ \A a \in Calls : s.stage[a] = IF a = x.attempt THEN None ELSE x.stage[a]
      /\ s.open = x.open /\ s.attempt = x.attempt /\ s.entry = x.entry
      /\ s.sweep = x.sweep
    <2>1. s = SetStage(x, None)
      BY DEF StageTimer, Trying
    <2> QED
      BY <2>1, CallIds, SetStageEffect
<1> HIDE DEF s
<1>3. /\ f \in ClientRec /\ Aims(x, f) /\ f.tail /\ ~f.ping
      /\ f.open \subseteq {x.attempt} /\ f.attempt = x.attempt
      /\ \A a \in Calls : f.stage[a] = None
      /\ Swept(f)
    <2>1. /\ f \in ClientRec /\ Aims(s, f) /\ f.tail /\ ~f.ping
          /\ f.open \subseteq s.open
          /\ s.target /\ s.entry.dc = None => f.open \subseteq s.open \ {s.entry.pc}
          /\ \A a \in Calls : f.stage[a] \in {None, s.stage[a]}
          /\ s.target \/ Swept(s) => Swept(f)
          /\ f.attempt = s.attempt
      BY <1>2, FirstHalfEffect
    <2> HIDE DEF f
    <2>2. Aims(x, f)
      BY <1>2, <2>1 DEF Aims
    <2>3. f.open \subseteq {x.attempt}
      BY <1>2, <2>1 DEF Owned, Aims
    <2>4. Swept(f)
      BY <1>2, <2>1 DEF Owned, Aims, Swept
    <2>5. \A a \in Calls : f.stage[a] = None
      BY <1>2, <2>1 DEF Owned
    <2> QED
      BY <1>2, <2>1, <2>2, <2>3, <2>4, <2>5
<1> HIDE DEF f
<1>4. /\ y \in ClientRec /\ y.tail /\ y.host \in {f.host, "disconnected", "reconnectWaiting"}
      /\ y.current = f.current /\ y.intentional = f.intentional
      /\ y.first = "young" \/ y.host # "reconnectWaiting"
      /\ f.target /\ ~f.intentional /\ f.first # "old" => y.target
      /\ f.intentional => y.host = f.host
      /\ y.open = f.open /\ y.attempt = f.attempt /\ y.stage = f.stage
      /\ y.entry = f.entry /\ y.sweep = f.sweep /\ ~y.ping
    BY <1>3, WaitOrStopEffect DEF Aims
<1> HIDE DEF y
<1>5. Held(y)
    BY <1>3, <1>4 DEF Held, Swept
<1>6. y.host \in Resting
    BY <1>3, <1>4 DEF Aims, Resting
<1> QED
    BY <1>1, <1>3, <1>4, <1>5, <1>6 DEF Ended, Aims

\* A transition the table does not have.
LEMMA MoveStays ==
    ASSUME NEW x, NEW s, s = x.host \/ s \notin NextStates(x.host)
    PROVE  Move(x, s) = x
BY DEF Move

\* A transition to an end.
LEMMA MoveEnds ==
    ASSUME NEW x \in ClientRec, NEW s \in {"failed", "disconnected"}, Owned(x),
           s # x.host, s \in NextStates(x.host)
    PROVE  LET y == Move(x, s) IN
           Ended(x, y) /\ (x.intentional => y.host = s)
<1> DEFINE h == [x EXCEPT !.host = s]
<1>1. Move(x, s) = Effects(h)
    BY DEF Move
<1>2. /\ h \in ClientRec /\ h.host = s /\ h.target = x.target /\ h.first = x.first
      /\ h.intentional = x.intentional /\ h.current = x.current
      /\ h.open = x.open /\ h.attempt = x.attempt /\ h.stage = x.stage
      /\ h.entry = x.entry /\ h.sweep = x.sweep
    BY DEF ClientRec, States
<1> HIDE DEF h
<1>3. Owned(h)
    BY <1>2 DEF Owned, Swept
<1> QED
    BY <1>1, <1>2, <1>3, EffectsEnd DEF Ended

\* A transition on the way.
LEMMA MoveGoesOn ==
    ASSUME NEW x \in ClientRec, NEW s \in States \ Resting, s # x.host,
           s \in NextStates(x.host)
    PROVE  LET y == Move(x, s) IN
           /\ y \in ClientRec /\ y.host = s /\ y.target = x.target
           /\ y.intentional = x.intentional /\ y.current = x.current
           /\ y.first = x.first
           /\ \A a \in Calls : y.stage[a] =
                 IF a # x.attempt THEN x.stage[a]
                 ELSE IF s = "authenticated" THEN None ELSE x.current
           /\ y.open = x.open /\ y.attempt = x.attempt /\ y.entry = x.entry
           /\ y.sweep = x.sweep /\ y.retry = x.retry /\ y.ping = x.ping
           /\ y.busy = x.busy /\ y.tail = x.tail
<1> DEFINE h == [x EXCEPT !.host = s]
           g == IF s = "authenticated" THEN None ELSE x.current
           y == SetStage(h, g)
<1>1. /\ h \in ClientRec /\ h.host = s /\ h.target = x.target /\ h.first = x.first
      /\ h.intentional = x.intentional /\ h.current = x.current
      /\ h.open = x.open /\ h.attempt = x.attempt /\ h.stage = x.stage
      /\ h.entry = x.entry /\ h.sweep = x.sweep /\ h.retry = x.retry
      /\ h.ping = x.ping /\ h.busy = x.busy /\ h.tail = x.tail
    BY DEF ClientRec
<1>2. Move(x, s) = Effects(h)
    BY DEF Move
<1> HIDE DEF h
<1>3. g \in Ids
    BY CallIds DEF ClientRec
<1>4. StageTimer(h) = y
    <2>1. s \in Trying <=> s # "authenticated"
      BY DEF States, Trying, Resting
    <2> QED
      BY <1>1, <2>1 DEF StageTimer
<1> HIDE DEF g
<1>5. /\ y \in ClientRec /\ Aims(h, y)
      /\ \A a \in Calls : y.stage[a] = IF a = h.attempt THEN g ELSE h.stage[a]
      /\ y.open = h.open /\ y.attempt = h.attempt /\ y.entry = h.entry
      /\ y.sweep = h.sweep /\ y.retry = h.retry /\ y.ping = h.ping
      /\ y.busy = h.busy /\ y.tail = h.tail
    BY <1>1, <1>3, SetStageEffect
<1> HIDE DEF y
<1>6. CASE s = "authenticated"
    <2> DEFINE last == y.last \/ h.target
               z == [y EXCEPT !.last = y.last \/ h.target]
    <2>1. Effects(h) = z
      BY <1>1, <1>4, <1>6, <1>5 DEF Effects, Aims
    <2>2. last \in BOOLEAN
      BY <1>5 DEF ClientRec
    <2> HIDE DEF last
    <2>3. z = [y EXCEPT !.last = last]
      BY DEF last
    <2> HIDE DEF z
    <2>4. /\ z \in ClientRec /\ Aims(y, z) /\ z.stage = y.stage
          /\ z.open = y.open /\ z.attempt = y.attempt /\ z.entry = y.entry
          /\ z.sweep = y.sweep /\ z.retry = y.retry /\ z.ping = y.ping
          /\ z.busy = y.busy /\ z.tail = y.tail
      BY <1>5, <2>2, <2>3 DEF ClientRec, Aims
    <2> QED
      BY <1>1, <1>2, <1>5, <2>1, <2>4 DEF Aims, g
<1>7. CASE s # "authenticated"
    <2>1. Effects(h) = y
      BY <1>1, <1>4, <1>7 DEF Effects, Resting
    <2> QED
      BY <1>1, <1>2, <1>5, <2>1 DEF Aims, g
<1> QED
    BY <1>6, <1>7

\* Whatever the state, the record keeps its type, and a retry is armed only
\* where the second half of a cleanup is to come.
Fit(x) == x \in ClientRec /\ (x.retry => x.tail)

LEMMA MoveFits ==
    ASSUME NEW x, Fit(x), NEW s \in States \ {"reconnectWaiting"}
    PROVE  Fit(Move(x, s))
<1>1. CASE s = x.host \/ s \notin NextStates(x.host)
    BY <1>1, MoveStays
<1>2. CASE s # x.host /\ s \in NextStates(x.host) /\ s \notin Resting
    <2> DEFINE y == Move(x, s)
    <2>1. y \in ClientRec /\ y.retry = x.retry /\ y.tail = x.tail
      BY <1>2, MoveGoesOn DEF Fit
    <2> HIDE DEF y
    <2>2. Fit(y)
      BY <2>1 DEF Fit
    <2> QED
      BY <2>2 DEF y
<1>3. CASE s # x.host /\ s \in NextStates(x.host) /\ s \in {"failed", "disconnected"}
    <2> DEFINE h == [x EXCEPT !.host = s]
               g == SetStage(h, None)
               f == FirstHalf(g)
               y == WaitOrStop(f)
    <2>1. h \in ClientRec /\ h.host = s
      BY DEF Fit, ClientRec
    <2>2. Move(x, s) = Effects(h)
      BY <1>3 DEF Move
    <2> HIDE DEF h
    <2>3. StageTimer(h) = g
      BY <1>3, <2>1 DEF StageTimer, Trying
    <2>4. Effects(h) = y
      BY <1>3, <2>1, <2>3 DEF Effects
    <2>5. g \in ClientRec /\ g.host = s
      BY <2>1, CallIds, SetStageEffect DEF Aims
    <2> HIDE DEF g
    <2>6. f \in ClientRec /\ f.host = s /\ f.tail
      BY <2>5, FirstHalfEffect DEF Aims
    <2> HIDE DEF f
    <2>7. y \in ClientRec /\ y.tail
      BY <1>3, <2>6, WaitOrStopEffect
    <2> QED
      BY <2>2, <2>4, <2>7 DEF Fit
<1> QED
    BY <1>1, <1>2, <1>3 DEF Resting

LEMMA ClearEffect ==
    ASSUME NEW x \in ClientRec
    PROVE  LET y == Clear(x) IN
           /\ y \in ClientRec /\ Aims(x, y) /\ ~y.retry /\ ~y.busy /\ ~y.tail
           /\ Held(x) => Bare(y)
           /\ x.entry.dc = None /\ x.entry.pc = None =>
                 y.entry.dc = None /\ y.entry.pc = None /\ y.sweep = x.sweep
<1> DEFINE f == FirstHalf(x)
           y == SecondHalf(f)
<1>1. Clear(x) = y
    BY DEF Clear
<1>2. /\ f \in ClientRec /\ Aims(x, f) /\ ~f.ping /\ f.open \subseteq x.open
      /\ \A a \in Calls : f.stage[a] \in {None, x.stage[a]}
      /\ Swept(x) => Swept(f)
      /\ x.entry.dc = None /\ x.entry.pc = None =>
            f.entry.dc = None /\ f.entry.pc = None /\ f.sweep = x.sweep
      /\ f.attempt = x.attempt
    BY FirstHalfEffect
<1> HIDE DEF f
<1>3. Held(x) => Held(f)
    BY <1>2 DEF Held
<1>4. /\ y \in ClientRec /\ Aims(f, y) /\ ~y.retry /\ ~y.busy /\ ~y.tail
      /\ y.entry = f.entry /\ y.sweep = f.sweep
    BY <1>2, SecondHalfEffect
<1>5. Held(f) => Bare(y)
    BY <1>2, HeldIsCleared
<1> HIDE DEF y
<1>6. Aims(x, y)
    BY <1>2, <1>4 DEF Aims
<1> QED
    BY <1>1, <1>2, <1>3, <1>4, <1>5, <1>6

LEMMA BareHeld ==
    ASSUME NEW x, Bare(x)
    PROVE  Held(x) /\ Owned(x)
BY DEF Bare, Held, Owned

-----------------------------------------------------------------------------
(* The initial states, and what an event finds *)

LEMMA InitHolds == Init => IInv
<1> SUFFICES ASSUME Init PROVE IInv
    OBVIOUS
<1>1. [channels |-> 0, pc |-> 0] \in Sweep
      /\ [pc |-> None, dc |-> None, attempt |-> None] \in Entry
    BY CallIds DEF Sweep, Entry
<1>2. cl \in ClientRec /\ ~cl.tail /\ ~cl.retry
    BY <1>1, CallIds DEF Init, ClientRec, States
<1>3. Bare(cl)
    BY CallIds DEF Init, Bare, Swept
<1>4. TypeOK
    <2>1. /\ call \in [Calls -> CallStates] /\ link \in [Calls -> LinkStates]
          /\ hears \in [Calls -> Ids] /\ asked \in [Calls -> Ids]
      BY CallIds DEF Init, CallStates, LinkStates
    <2>2. sig \in [state : {"disconnected", "connecting", "connected"},
                   ws : BOOLEAN, session : BOOLEAN]
      BY DEF Init
    <2>3. faults \in 0 .. MaxFaults /\ switches \in 0 .. MaxSwitches
      BY ClientAssumption DEF Init
    <2> QED
      BY <1>2, <2>1, <2>2, <2>3 DEF Init, TypeOK
<1>5. Typed
    BY <1>4 DEF Init, Typed
<1>6. Sound(Drained)
    <2>1. Drained = cl /\ cl.host = "disconnected" /\ ~cl.busy /\ ~cl.intentional
          /\ \A r \in Calls : call[r] = "idle"
      BY <1>2 DEF Init, Drained
    <2> QED
      BY <1>3, <2>1 DEF Sound, AtBarrier, AtWork, LiveStates
<1> QED
    BY <1>5, <1>6 DEF IInv

\* An event finds no cleanup under way.
LEMMA EventFinds ==
    ASSUME IInv, Event
    PROVE  /\ cl \in ClientRec /\ ~cl.tail /\ ~cl.retry /\ Fit(cl)
           /\ Quiet => Sound(cl)
BY DEF IInv, Event, Typed, TypeOK, Drained, Fit

LEMMA SoundOwned ==
    ASSUME NEW x \in ClientRec, Sound(x)
    PROVE  Owned(x)
<1>1. CASE x.host \in Resting
    BY <1>1, BareHeld DEF Sound
<1>2. CASE x.host = "connecting"
    <2>1. PICK r \in Calls : Making(x, r)
      BY <1>2 DEF Sound
    <2> QED
      BY <2>1 DEF Making, AtWork, Owned
<1>3. CASE x.host \in LiveStates
    BY <1>3 DEF Sound, Live, Owned
<1> QED
    BY <1>1, <1>2, <1>3, StateSets DEF ClientRec

\* A step that leads to an end: the record x, which is the client's up to what the
\* event itself sets, moves to s.
LEMMA Ending ==
    ASSUME NEW x \in ClientRec, NEW s \in {"failed", "disconnected"}, Owned(x),
           ~x.tail, x.host \in Resting => Bare(x),
           cl' = Move(x, s) \/ cl' = [Move(x, s) EXCEPT !.busy = FALSE],
           \A r \in Calls : ~AtWork(r)',
           x.busy /\ x.host \in Resting => AtBarrier',
           x.intentional => x.host = "disconnected" \/ s = "disconnected",
           x.intentional => Active' = {} /\ net' # "wait",
           AtBarrier' => /\ x.target /\ ~x.intentional /\ x.first # "old"
                         /\ x.current = None \/ link'[x.current] # "open"
    PROVE  Sound(Drained)'
<1> DEFINE y == Move(x, s)
<1>1. CASE s # x.host /\ s \in NextStates(x.host)
    <2>1. Ended(x, y) /\ (x.intentional => y.host = s)
      BY <1>1, MoveEnds
    <2> HIDE DEF y
    <2>2. /\ cl' \in ClientRec /\ cl'.tail /\ cl'.host \in Resting /\ Held(cl')
          /\ cl'.current = x.current /\ cl'.intentional = x.intentional
          /\ x.target /\ ~x.intentional /\ x.first # "old" => cl'.target
          /\ x.intentional => cl'.host = s
      <3>1. CASE cl' = y
        BY <2>1, <3>1 DEF Ended
      <3>2. CASE cl' = [y EXCEPT !.busy = FALSE]
        <4>1. /\ cl' \in ClientRec /\ cl'.tail = y.tail /\ cl'.host = y.host
              /\ cl'.open = y.open /\ cl'.attempt = y.attempt /\ cl'.ping = y.ping
              /\ cl'.stage = y.stage /\ cl'.entry = y.entry /\ cl'.sweep = y.sweep
              /\ cl'.current = y.current /\ cl'.intentional = y.intentional
              /\ cl'.target = y.target
          BY <2>1, <3>2 DEF Ended, ClientRec
        <4>2. Held(cl')
          BY <2>1, <4>1 DEF Ended, Held, Swept
        <4> QED
          BY <2>1, <4>1, <4>2 DEF Ended
      <3> QED
        BY <3>1, <3>2 DEF y
    <2> DEFINE c == cl'
               z == SecondHalf(c)
    <2>3. Drained' = z
      BY <2>2 DEF Drained, SecondHalf, Dispose
    <2>4. /\ Bare(z) /\ Aims(c, z) /\ ~z.busy
      BY <2>2, HeldIsCleared, SecondHalfEffect
    <2> HIDE DEF z
    <2>5. /\ z.host \in Resting /\ z.current = x.current
          /\ z.intentional = x.intentional
          /\ x.target /\ ~x.intentional /\ x.first # "old" => z.target
          /\ x.intentional => z.host = s
      BY <2>2, <2>4 DEF Aims
    <2>6. x.intentional => s = "disconnected"
      BY <1>1, Table DEF Resting
    <2> QED
      BY <2>3, <2>4, <2>5, <2>6 DEF Sound, Waiting, Resting, LiveStates
<1>2. CASE s = x.host \/ s \notin NextStates(x.host)
    <2>1. x.host \in Resting
      BY <1>2, Table DEF ClientRec, Resting
    <2>2. y = x
      BY <1>2, MoveStays
    <2>3. /\ cl'.tail = FALSE /\ cl'.host = x.host /\ Bare(cl')
          /\ cl'.target = x.target /\ cl'.current = x.current
          /\ cl'.intentional = x.intentional /\ (cl'.busy => x.busy)
      <3>1. CASE cl' = x
        BY <2>1, <3>1
      <3>2. CASE cl' = [x EXCEPT !.busy = FALSE]
        <4>1. /\ cl'.tail = x.tail /\ cl'.host = x.host /\ ~cl'.busy
              /\ cl'.open = x.open /\ cl'.attempt = x.attempt /\ cl'.ping = x.ping
              /\ cl'.stage = x.stage /\ cl'.entry = x.entry /\ cl'.sweep = x.sweep
              /\ cl'.current = x.current /\ cl'.intentional = x.intentional
              /\ cl'.target = x.target
          BY <3>2 DEF ClientRec
        <4>2. Bare(cl')
          BY <2>1, <4>1 DEF Bare, Swept
        <4> QED
          BY <4>1, <4>2
      <3> QED
        BY <2>2, <3>1, <3>2
    <2>4. Drained' = cl'
      BY <2>3 DEF Drained
    <2>5. x.intentional => x.host = "disconnected"
      BY <1>2, <2>1, Table DEF NextStates, Resting
    <2> QED
      BY <2>1, <2>3, <2>4, <2>5 DEF Sound, Waiting, Resting, LiveStates
<1> QED
    BY <1>1, <1>2

-----------------------------------------------------------------------------
(* Steps that leave the client's record alone *)

Signalings == [state : {"disconnected", "connecting", "connected"},
               ws : BOOLEAN, session : BOOLEAN]

\* The types, where no call and no link changes.
LEMMA TypedKeeps ==
    ASSUME Typed, Fit(cl'), UNCHANGED callVars, sig' \in Signalings,
           net' \in {"idle", "check", "wait"}, faults' = faults \/ Fault,
           switches' \in 0 .. MaxSwitches, mixed' \in BOOLEAN, unheard' \in BOOLEAN
    PROVE  Typed'
<1>1. /\ call' = call /\ link' = link /\ hears' = hears /\ asked' = asked
    BY DEF callVars, linkVars
<1>2. faults' \in 0 .. MaxFaults
    BY ClientAssumption DEF Typed, TypeOK, Fault
<1> QED
    BY <1>1, <1>2 DEF Typed, TypeOK, Fit, Signalings

\* The types, where the links change of calls that have returned.
LEMMA TypedLinks ==
    ASSUME Typed, Fit(cl'), call' = call, sig' = sig, net' = net,
           switches' = switches, mixed' = mixed, unheard' = unheard,
           faults' = faults \/ Fault,
           link' \in [Calls -> LinkStates], hears' = hears, asked' \in [Calls -> Ids],
           \A q \in Calls : call[q] # "done" => link'[q] = link[q] /\ asked'[q] = asked[q]
    PROVE  Typed'
<1>1. faults' \in 0 .. MaxFaults
    BY ClientAssumption DEF Typed, TypeOK, Fault
<1> QED
    BY <1>1 DEF Typed, TypeOK, Fit

\* The client, drained, and its calls and links are what they were.
LEMMA Unmoved ==
    ASSUME Sound(Drained), Drained' = Drained, call' = call, link' = link,
           asked' = asked, Ready => Ready', net' = net \/ net' # "wait"
    PROVE  Sound(Drained)'
<1>1. Active' = Active /\ (AtBarrier' <=> AtBarrier)
      /\ \A r \in Calls : AtWork(r)' <=> AtWork(r)
    BY DEF Active, AtBarrier, AtWork
<1>2. Waiting(Drained) => Waiting(Drained)'
    BY DEF Waiting
<1>3. Live(Drained) => Live(Drained)'
    BY <1>1 DEF Live
<1>4. \A r \in Calls : Making(Drained, r) => Making(Drained, r)'
    BY <1>1 DEF Making, AtWork
<1> QED
    BY <1>1, <1>2, <1>3, <1>4 DEF Sound

LEMMA DrainStep ==
    ASSUME IInv, Drain PROVE IInv'
<1>1. cl.tail /\ cl' = SecondHalf(cl) /\ cl \in ClientRec /\ sig' = sig /\ net' = net
      /\ call' = call /\ link' = link /\ asked' = asked /\ UNCHANGED callVars
      /\ faults' = faults /\ switches' = switches
      /\ mixed' = mixed /\ unheard' = unheard
    BY DEF Drain, IInv, Typed, TypeOK, otherVars, callVars, linkVars
<1>2. cl' \in ClientRec /\ ~cl'.tail /\ ~cl'.retry
    BY <1>1, SecondHalfEffect
<1>3. Drained' = Drained
    BY <1>1, <1>2 DEF Drained
<1>4. Typed'
    BY <1>1, <1>2, TypedKeeps DEF IInv, Typed, TypeOK, Fit, Signalings
<1>5. Quiet' => Sound(Drained)'
    BY <1>1, <1>3, Unmoved DEF Quiet, IInv, Ready
<1> QED
    BY <1>4, <1>5 DEF IInv

\* The signaling connection and the notice of a network change.
LEMMA OutsideStep ==
    ASSUME IInv, Dial \/ Registered \/ Refused \/ SocketLost \/ NetworkChange
    PROVE  IInv'
<1>1. /\ Event /\ cl' = cl /\ UNCHANGED callVars
      /\ call' = call /\ link' = link /\ asked' = asked
      /\ mixed' = mixed /\ unheard' = unheard
      /\ faults' = faults \/ Fault
      /\ net' = net \/ net' = "check"
    BY DEF Dial, Registered, Refused, SocketLost, NetworkChange, otherVars, callVars,
           linkVars
<1>2. sig' \in Signalings /\ (Ready => Ready')
    <2>1. sig \in Signalings
      BY DEF IInv, Typed, TypeOK, Signalings
    <2>2. CASE Dial
      BY <2>1, <2>2 DEF Dial, Dialled, Signalings, Ready
    <2>3. CASE Registered
      BY <2>1, <2>3 DEF Registered, Signalings, Ready
    <2>4. CASE Refused
      BY <2>1, <2>4 DEF Refused, Signalings, Ready
    <2>5. CASE SocketLost
      BY <2>1, <2>5 DEF SocketLost, Signalings, Ready
    <2>6. CASE NetworkChange
      BY <2>1, <2>6 DEF NetworkChange, Ready
    <2> QED
      BY <2>2, <2>3, <2>4, <2>5, <2>6
<1>3. switches' \in 0 .. MaxSwitches
    BY ClientAssumption DEF IInv, Typed, TypeOK, Dial, Registered, Refused, SocketLost,
       NetworkChange, otherVars
<1>4. Fit(cl')
    BY <1>1, EventFinds
<1>5. Typed'
    BY <1>1, <1>2, <1>3, <1>4, TypedKeeps DEF IInv, Typed, TypeOK
<1>6. Drained' = Drained
    BY <1>1 DEF Drained
<1>7. Quiet' => Sound(Drained)'
    BY <1>1, <1>2, <1>6, Unmoved DEF Quiet, IInv
<1> QED
    BY <1>5, <1>7 DEF IInv

\* A small change of the record that no part of the invariant looks at.
LEMMA AgeStep ==
    ASSUME IInv, Age PROVE IInv'
<1>1. /\ Event /\ cl.first = "young" /\ cl' = [cl EXCEPT !.first = "old"]
      /\ UNCHANGED callVars /\ call' = call /\ link' = link /\ asked' = asked
      /\ sig' = sig /\ net' = net /\ faults' = faults /\ switches' = switches
      /\ mixed' = mixed /\ unheard' = unheard
    BY DEF Age, otherVars, callVars, linkVars
<1>2. cl \in ClientRec /\ ~cl.tail /\ ~cl.retry /\ (Quiet => Sound(cl))
    BY <1>1, EventFinds
<1>3. /\ cl' \in ClientRec /\ Fit(cl') /\ ~cl'.tail
      /\ cl'.host = cl.host /\ cl'.target = cl.target /\ cl'.current = cl.current
      /\ cl'.intentional = cl.intentional /\ cl'.busy = cl.busy
      /\ cl'.open = cl.open /\ cl'.attempt = cl.attempt /\ cl'.ping = cl.ping
      /\ cl'.stage = cl.stage /\ cl'.entry = cl.entry /\ cl'.sweep = cl.sweep
    BY <1>1, <1>2 DEF ClientRec, Fit
<1>4. Typed'
    BY <1>1, <1>3, TypedKeeps DEF IInv, Typed, TypeOK, Signalings
<1>5. ASSUME Quiet' PROVE Sound(Drained)'
    <2>1. Sound(cl) /\ Drained' = cl'
      BY <1>1, <1>2, <1>3, <1>5 DEF Quiet, Drained
    <2>2. Active' = Active /\ (AtBarrier' <=> AtBarrier) /\ (Ready' <=> Ready)
          /\ \A r \in Calls : AtWork(r)' <=> AtWork(r)
      BY <1>1 DEF Active, AtBarrier, AtWork, Ready
    <2>3. AtBarrier => Waiting(cl)'
      BY <1>1, <1>3, <2>1 DEF Sound, Waiting
    <2>4. Bare(cl) => Bare(cl')
      BY <1>3 DEF Bare, Swept
    <2>5. Live(cl) => Live(cl)'
      BY <1>1, <1>3, <2>2 DEF Live, NoSweep
    <2>6. \A r \in Calls : Making(cl, r) => Making(cl, r)'
      BY <1>1, <1>3, <2>2 DEF Making, AtWork, NoSweep
    <2> QED
      BY <1>1, <1>3, <2>1, <2>2, <2>3, <2>4, <2>5, <2>6 DEF Sound
<1> QED
    BY <1>4, <1>5 DEF IInv

-----------------------------------------------------------------------------
(* Steps that lead to an end *)

\* Without a call under way nothing is at the barrier or at work.
LEMMA NoneActive ==
    /\ Active = {} => ~AtBarrier /\ \A r \in Calls : ~AtWork(r)
    /\ AtBarrier \/ (\E r \in Calls : AtWork(r)) => Active # {}
BY DEF Active, AtBarrier, AtWork

\* The same, for the state that follows a step that leaves the calls alone.
LEMMA NoneActiveThen ==
    ASSUME Active = {}, call' = call
    PROVE  Active' = {} /\ ~AtBarrier' /\ \A r \in Calls : ~AtWork(r)'
BY DEF Active, AtBarrier, AtWork

\* Nobody hears of a call's link until the Offer is out: what reports is the
\* current attempt's link.
LEMMA Reporting ==
    ASSUME Typed, Sound(cl), NEW r \in cl.open, link[r] # "new"
    PROVE  Live(cl) /\ r = cl.current /\ cl.host \in LiveStates
<1>1. r \in Calls /\ call[r] = "done" /\ cl \in ClientRec
    BY DEF Typed, TypeOK, ClientRec
<1>2. cl.host \notin Resting
    BY DEF Sound, Bare
<1>3. cl.host # "connecting"
    <2> SUFFICES ASSUME cl.host = "connecting" PROVE FALSE
      OBVIOUS
    <2>1. PICK q \in Calls : Making(cl, q)
      BY DEF Sound
    <2>2. r = q
      BY <2>1 DEF Making, AtWork
    <2> QED
      BY <1>1, <2>1, <2>2 DEF Making, AtWork
<1>4. Live(cl)
    BY <1>1, <1>2, <1>3, StateSets DEF Sound, ClientRec
<1> QED
    BY <1>1, <1>2, <1>3, <1>4, StateSets DEF Live, ClientRec

\* An end of which no call is left to hear.
LEMMA QuietEnding ==
    ASSUME NEW x \in ClientRec, NEW s \in {"failed", "disconnected"}, Sound(cl),
           Fit(cl), ~cl.tail,
           x.open = cl.open, x.attempt = cl.attempt, x.entry = cl.entry,
           x.sweep = cl.sweep, x.target = cl.target, x.host = cl.host,
           x.tail = cl.tail, x.ping => cl.ping, x.busy => cl.busy,
           \A a \in Calls : x.stage[a] \in {None, cl.stage[a]},
           x.intentional => cl.host = "disconnected" \/ s = "disconnected",
           x.intentional => net' # "wait",
           cl' = Move(x, s), call' = call, Active = {}
    PROVE  Sound(Drained)'
<1>1. Owned(x)
    <2>1. Owned(cl)
      BY SoundOwned DEF Fit
    <2>2. \A a \in Calls : x.stage[a] # None => a = x.attempt
      BY <2>1 DEF Owned
    <2> QED
      BY <2>1, <2>2 DEF Owned, Swept
<1>2. x.host \in Resting => Bare(x)
    BY DEF Sound, Bare, Swept
<1>3. ~x.busy
    BY NoneActive DEF Sound
<1>4. Active' = {} /\ ~AtBarrier' /\ \A r \in Calls : ~AtWork(r)'
    BY NoneActiveThen
<1> QED
    BY <1>1, <1>2, <1>3, <1>4, Ending

LEMMA SignalingErrorStep ==
    ASSUME IInv, SignalingError PROVE IInv'
<1>1. /\ Event /\ cl' = Move(cl, "failed") /\ UNCHANGED callVars /\ call' = call
      /\ sig' = sig /\ net' = net /\ Fault /\ switches' = switches /\ mixed' = mixed
      /\ unheard' = (unheard \/ Active # {}) /\ cl.host # "disconnected"
    BY DEF SignalingError, Interrupts, callVars, linkVars
<1>2. cl \in ClientRec /\ ~cl.tail /\ Fit(cl) /\ (Quiet => Sound(cl))
    BY <1>1, EventFinds
<1>3. Fit(cl')
    BY <1>1, <1>2, MoveFits DEF States
<1>4. Typed'
    BY <1>1, <1>3, TypedKeeps DEF IInv, Typed, TypeOK, Signalings
<1>5. ASSUME Quiet' PROVE Sound(Drained)'
    <2>1. Sound(cl) /\ Active = {}
      BY <1>1, <1>2, <1>5 DEF Quiet
    <2>2. ~cl.intentional
      BY <1>1, <2>1 DEF Sound
    <2> QED
      BY <1>1, <1>2, <2>1, <2>2, QuietEnding
<1> QED
    BY <1>4, <1>5 DEF IInv

LEMMA AuthFailedStep ==
    ASSUME IInv, NEW r \in Calls, AuthFailed(r) PROVE IInv'
<1> DEFINE x == [cl EXCEPT !.authFailed = TRUE]
<1>1. /\ Event /\ cl' = Move(x, "failed") /\ call' = call /\ link' = link
      /\ hears' = hears /\ link[r] = "open" /\ r \in cl.open
      /\ asked' = [asked EXCEPT ![r] = None]
      /\ sig' = sig /\ net' = net /\ Fault /\ switches' = switches
      /\ mixed' = mixed /\ unheard' = unheard
    BY DEF AuthFailed, Reply, otherVars
<1>2. cl \in ClientRec /\ ~cl.tail /\ ~cl.retry /\ Fit(cl) /\ (Quiet => Sound(cl))
    BY <1>1, EventFinds
<1>3. /\ x \in ClientRec /\ Fit(x)
      /\ x.open = cl.open /\ x.attempt = cl.attempt /\ x.entry = cl.entry
      /\ x.sweep = cl.sweep /\ x.target = cl.target /\ x.host = cl.host
      /\ x.tail = cl.tail /\ x.ping = cl.ping /\ x.busy = cl.busy
      /\ x.stage = cl.stage /\ x.intentional = cl.intentional
    BY <1>2 DEF ClientRec, Fit
<1> HIDE DEF x
<1>4. Fit(cl')
    BY <1>1, <1>3, MoveFits DEF States
<1>5. Typed'
    <2>1. /\ asked \in [Calls -> Ids] /\ link \in [Calls -> LinkStates]
          /\ link[r] # "new"
      BY <1>1 DEF IInv, Typed, TypeOK
    <2>2. call[r] = "done"
      BY <2>1 DEF IInv, Typed
    <2>3. /\ asked' \in [Calls -> Ids]
          /\ \A q \in Calls : q # r => asked'[q] = asked[q]
      BY <1>1, <2>1, CallIds
    <2> QED
      BY <1>1, <1>4, <2>1, <2>2, <2>3, TypedLinks DEF IInv
<1>6. ASSUME Quiet' PROVE Sound(Drained)'
    <2>1. Sound(cl)
      BY <1>1, <1>2, <1>6 DEF Quiet
    <2>2. Live(cl) /\ cl.host \in LiveStates
      BY <1>1, <2>1, Reporting DEF IInv
    <2>3. ~cl.intentional /\ Active = {}
      BY <2>1, <2>2 DEF Sound, Live, LiveStates
    <2> QED
      BY <1>1, <1>2, <1>3, <2>1, <2>3, QuietEnding
<1> QED
    BY <1>5, <1>6 DEF IInv

LEMMA LinkFailsStep ==
    ASSUME IInv, NEW r \in Calls, LinkFails(r) PROVE IInv'
<1>1. /\ Event /\ call' = call /\ link' = [link EXCEPT ![r] = "closed"]
      /\ hears' = hears /\ asked' = asked /\ r \in cl.open
      /\ link[r] \in {"answered", "open", "broken"}
      /\ cl' = IF r = cl.current THEN Move(cl, "failed") ELSE cl
      /\ faults' = faults \/ Fault
      /\ sig' = sig /\ net' = net /\ switches' = switches
      /\ mixed' = mixed /\ unheard' = unheard
    BY DEF LinkFails, otherVars
<1>2. cl \in ClientRec /\ ~cl.tail /\ ~cl.retry /\ Fit(cl) /\ (Quiet => Sound(cl))
    BY <1>1, EventFinds
<1>3. Fit(cl')
    BY <1>1, <1>2, MoveFits DEF States
<1>4. Typed'
    <2>1. asked \in [Calls -> Ids] /\ link \in [Calls -> LinkStates] /\ link[r] # "new"
      BY <1>1 DEF IInv, Typed, TypeOK
    <2>2. call[r] = "done"
      BY <2>1 DEF IInv, Typed
    <2>3. /\ link' \in [Calls -> LinkStates]
          /\ \A q \in Calls : q # r => link'[q] = link[q]
      BY <1>1, <2>1 DEF LinkStates
    <2> QED
      BY <1>1, <1>3, <2>1, <2>2, <2>3, TypedLinks DEF IInv
<1>5. ASSUME Quiet' PROVE Sound(Drained)'
    <2>1. Sound(cl)
      BY <1>1, <1>2, <1>5 DEF Quiet
    <2>2. Live(cl) /\ r = cl.current /\ cl.host \in LiveStates
      BY <1>1, <2>1, Reporting DEF IInv
    <2>3. ~cl.intentional /\ Active = {}
      BY <2>1, <2>2 DEF Sound, Live, LiveStates
    <2> QED
      BY <1>1, <1>2, <2>1, <2>2, <2>3, QuietEnding
<1> QED
    BY <1>4, <1>5 DEF IInv

\* Also the channel of a link that was given up may close, while a call waits at
\* the barrier: that this is the last the client hears of that link keeps the
\* host wanted.
LEMMA ChannelClosesStep ==
    ASSUME IInv, NEW r \in Calls, ChannelCloses(r) PROVE IInv'
<1>1. /\ Event /\ call' = call /\ link' = [link EXCEPT ![r] = "closed"]
      /\ hears' = hears /\ asked' = asked /\ link[r] = "open"
      /\ cl' = IF r = cl.current THEN Move(cl, "disconnected") ELSE cl
      /\ faults' = faults \/ Fault
      /\ sig' = sig /\ net' = net /\ switches' = switches
      /\ mixed' = mixed /\ unheard' = unheard
    BY DEF ChannelCloses, otherVars
<1>2. cl \in ClientRec /\ ~cl.tail /\ ~cl.retry /\ Fit(cl) /\ (Quiet => Sound(cl))
    BY <1>1, EventFinds
<1>3. Fit(cl')
    BY <1>1, <1>2, MoveFits DEF States
<1>0. call[r] = "done" /\ link \in [Calls -> LinkStates]
    BY <1>1 DEF IInv, Typed, TypeOK
<1>4. Typed'
    <2>1. /\ link' \in [Calls -> LinkStates] /\ asked \in [Calls -> Ids]
          /\ \A q \in Calls : q # r => link'[q] = link[q]
      BY <1>0, <1>1 DEF IInv, Typed, TypeOK, LinkStates
    <2> QED
      BY <1>0, <1>1, <1>3, <2>1, TypedLinks DEF IInv
<1>5. ASSUME Quiet' PROVE Sound(Drained)'
    <2>1. Sound(cl)
      BY <1>1, <1>2, <1>5 DEF Quiet
    <2>0. call' = call /\ sig' = sig /\ net' = net /\ asked' = asked
      BY <1>1
    <2>2. Active' = Active /\ (AtBarrier' <=> AtBarrier) /\ (Ready' <=> Ready)
          /\ \A q \in Calls : AtWork(q)' <=> AtWork(q)
      BY <2>0 DEF Active, AtBarrier, AtWork, Ready
    <2>3. CASE r # cl.current
      <3>1. cl' = cl /\ Drained' = cl /\ \A q \in Calls \ {r} : link'[q] = link[q]
        BY <1>0, <1>1, <1>2, <2>3 DEF Drained
      <3>2. AtBarrier => Waiting(Drained)'
        <4>1. cl.current = None \/ cl.current \in Calls \ {r}
          BY <1>2, <2>3 DEF ClientRec, Ids
        <4> QED
          BY <2>1, <3>1, <4>1 DEF Sound, Waiting
      <3>3. Live(cl) => Live(Drained)'
        BY <1>1, <2>2, <2>3, <3>1 DEF Live
      <3>4. \A q \in Calls : Making(cl, q) => Making(Drained, q)'
        BY <1>1, <2>2, <3>1 DEF Making, AtWork
      <3> QED
        BY <2>0, <2>1, <2>2, <3>1, <3>2, <3>3, <3>4 DEF Sound
    <2>4. CASE r = cl.current
      <3>1. \A q \in Calls : ~AtWork(q)
        <4> SUFFICES ASSUME NEW q \in Calls, AtWork(q) PROVE FALSE
          OBVIOUS
        <4>1. cl.host = "connecting"
          BY <1>2, <2>1, NoneActive, StateSets DEF Sound, Live, ClientRec
        <4>2. PICK p \in Calls : Making(cl, p)
          BY <2>1, <4>1 DEF Sound
        <4> QED
          BY <1>0, <2>4, <4>2 DEF Making, AtWork
      <3>2. AtBarrier => /\ cl.target /\ ~cl.intentional /\ cl.first = "none"
        BY <1>0, <1>1, <1>2, <2>1, <2>4, NoneActive, CallIds DEF Sound, Waiting
      <3>3. link'[cl.current] = "closed"
        BY <1>0, <1>1, <2>4
      <3>4. cl.intentional => Active' = {} /\ net' # "wait"
        BY <2>0, <2>1, <2>2 DEF Sound
      <3> QED
        BY <1>1, <1>2, <2>1, <2>2, <2>4, <3>1, <3>2, <3>3, <3>4, Ending, SoundOwned
        DEF Sound
    <2> QED
      BY <2>3, <2>4
<1> QED
    BY <1>4, <1>5 DEF IInv

LEMMA StageTimeoutStep ==
    ASSUME IInv, NEW a \in Calls, StageTimeout(a) PROVE IInv'
<1> DEFINE stage == [cl.stage EXCEPT ![a] = None]
           x == [cl EXCEPT !.stage = stage]
<1>1. /\ Event /\ cl.stage[a] # None
      /\ cl' = IF Escapes(cl.stage[a]) THEN Move(x, "failed") ELSE x
      /\ UNCHANGED callVars /\ call' = call
      /\ sig' = sig /\ net' = net /\ faults' = faults /\ switches' = switches
      /\ mixed' = mixed /\ unheard' = unheard
    BY DEF StageTimeout, otherVars, callVars, linkVars
<1>2. cl \in ClientRec /\ ~cl.tail /\ ~cl.retry /\ Fit(cl) /\ (Quiet => Sound(cl))
    BY <1>1, EventFinds
<1>3. stage \in [Calls -> Ids] /\ \A b \in Calls : stage[b] \in {None, cl.stage[b]}
    BY <1>2, CallIds DEF ClientRec
<1> HIDE DEF stage
<1>4. /\ x \in ClientRec /\ Fit(x)
      /\ x.open = cl.open /\ x.attempt = cl.attempt /\ x.entry = cl.entry
      /\ x.sweep = cl.sweep /\ x.target = cl.target /\ x.host = cl.host
      /\ x.tail = cl.tail /\ x.ping = cl.ping /\ x.busy = cl.busy
      /\ x.stage = stage /\ x.intentional = cl.intentional
    BY <1>2, <1>3 DEF ClientRec, Fit
<1> HIDE DEF x
<1>5. Fit(cl')
    BY <1>1, <1>4, MoveFits DEF States
<1>6. Typed'
    BY <1>1, <1>5, TypedKeeps DEF IInv, Typed, TypeOK, Signalings
<1>7. ASSUME Quiet' PROVE Sound(Drained)'
    <2>1. Sound(cl)
      BY <1>1, <1>2, <1>7 DEF Quiet
    <2>2. Live(cl) /\ cl.host \in LiveStates
      BY <1>1, <1>2, <2>1, StateSets DEF Sound, Bare, Making, ClientRec
    <2>3. ~cl.intentional /\ Active = {}
      BY <2>1, <2>2 DEF Sound, Live, LiveStates
    <2>4. Escapes(cl.stage[a])
      BY <1>1, <2>2 DEF Live, Escapes, LiveStates
    <2> QED
      BY <1>1, <1>2, <1>3, <1>4, <2>1, <2>3, <2>4, QuietEnding
<1> QED
    BY <1>6, <1>7 DEF IInv

LEMMA PongLostStep ==
    ASSUME IInv, PongLost PROVE IInv'
<1> DEFINE x == [cl EXCEPT !.ping = FALSE]
<1>1. /\ Event /\ cl.host = "authenticated" /\ cl' = Move(x, "disconnected")
      /\ UNCHANGED callVars /\ call' = call
      /\ sig' = sig /\ net' = net /\ Fault /\ switches' = switches
      /\ mixed' = mixed /\ unheard' = unheard
    BY DEF PongLost, otherVars, callVars, linkVars
<1>2. cl \in ClientRec /\ ~cl.tail /\ ~cl.retry /\ Fit(cl) /\ (Quiet => Sound(cl))
    BY <1>1, EventFinds
<1>3. /\ x \in ClientRec /\ Fit(x) /\ ~x.ping
      /\ x.open = cl.open /\ x.attempt = cl.attempt /\ x.entry = cl.entry
      /\ x.sweep = cl.sweep /\ x.target = cl.target /\ x.host = cl.host
      /\ x.tail = cl.tail /\ x.busy = cl.busy
      /\ x.stage = cl.stage /\ x.intentional = cl.intentional
    BY <1>2 DEF ClientRec, Fit
<1> HIDE DEF x
<1>4. Fit(cl')
    BY <1>1, <1>3, MoveFits DEF States
<1>5. Typed'
    BY <1>1, <1>4, TypedKeeps DEF IInv, Typed, TypeOK, Signalings
<1>6. ASSUME Quiet' PROVE Sound(Drained)'
    <2>1. Sound(cl)
      BY <1>1, <1>2, <1>6 DEF Quiet
    <2>2. Active = {} /\ ~cl.intentional
      BY <1>1, <2>1 DEF Sound, Live, LiveStates
    <2> QED
      BY <1>1, <1>2, <1>3, <2>1, <2>2, QuietEnding
<1> QED
    BY <1>5, <1>6 DEF IInv

LEMMA DisconnectStep ==
    ASSUME IInv, Disconnect PROVE IInv'
<1> DEFINE x == [cl EXCEPT !.intentional = TRUE]
<1>1. /\ Event /\ cl' = Move(x, "disconnected") /\ UNCHANGED callVars /\ call' = call
      /\ sig' = sig /\ net' = net /\ faults' = faults /\ switches' = switches
      /\ mixed' = mixed /\ unheard' = (unheard \/ Active # {} \/ net # "idle")
    BY DEF Disconnect, callVars, linkVars
<1>2. cl \in ClientRec /\ ~cl.tail /\ ~cl.retry /\ Fit(cl) /\ (Quiet => Sound(cl))
    BY <1>1, EventFinds
<1>3. /\ x \in ClientRec /\ Fit(x)
      /\ x.open = cl.open /\ x.attempt = cl.attempt /\ x.entry = cl.entry
      /\ x.sweep = cl.sweep /\ x.target = cl.target /\ x.host = cl.host
      /\ x.tail = cl.tail /\ x.ping = cl.ping /\ x.busy = cl.busy
      /\ x.stage = cl.stage
    BY <1>2 DEF ClientRec, Fit
<1> HIDE DEF x
<1>4. Fit(cl')
    BY <1>1, <1>3, MoveFits DEF States
<1>5. Typed'
    BY <1>1, <1>4, TypedKeeps DEF IInv, Typed, TypeOK, Signalings
<1>6. ASSUME Quiet' PROVE Sound(Drained)'
    <2>1. Sound(cl) /\ Active = {} /\ net' = "idle"
      BY <1>1, <1>2, <1>6 DEF Quiet
    <2> QED
      BY <1>1, <1>2, <1>3, <2>1, QuietEnding
<1> QED
    BY <1>5, <1>6 DEF IInv

LEMMA SwitchFailsStep ==
    ASSUME IInv, SwitchFails PROVE IInv'
<1>1. /\ Event /\ net = "wait" /\ cl' = Move(cl, "failed") /\ UNCHANGED callVars
      /\ call' = call /\ sig' = sig /\ net' = "idle" /\ faults' = faults
      /\ switches' = switches /\ mixed' = mixed /\ unheard' = (unheard \/ Active # {})
    BY DEF SwitchFails, Interrupts, callVars, linkVars
<1>2. cl \in ClientRec /\ ~cl.tail /\ ~cl.retry /\ Fit(cl) /\ (Quiet => Sound(cl))
    BY <1>1, EventFinds
<1>3. Fit(cl')
    BY <1>1, <1>2, MoveFits DEF States
<1>4. Typed'
    BY <1>1, <1>3, TypedKeeps DEF IInv, Typed, TypeOK, Signalings
<1>5. ASSUME Quiet' PROVE Sound(Drained)'
    <2>1. Sound(cl) /\ Active = {}
      BY <1>1, <1>2, <1>5 DEF Quiet
    <2>2. ~cl.intentional
      BY <1>1, <2>1 DEF Sound
    <2> QED
      BY <1>1, <1>2, <2>1, <2>2, QuietEnding
<1> QED
    BY <1>4, <1>5 DEF IInv

LEMMA SwitchStep ==
    ASSUME IInv, Switch PROVE IInv'
<1> DEFINE x == [cl EXCEPT !.busy = FALSE]
           y == Move(x, "disconnected")
           c == Clear(y)
           z == [c EXCEPT !.target = TRUE, !.last = TRUE, !.first = "young"]
<1>1. /\ Event /\ net = "check" /\ UNCHANGED callVars
      /\ call' = call /\ link' = link /\ asked' = asked
      /\ faults' = faults /\ switches' = switches /\ mixed' = mixed
      /\ unheard' = (unheard \/ Active # {})
    BY DEF Switch, Interrupts, callVars, linkVars
<1>2. cl \in ClientRec /\ ~cl.tail /\ ~cl.retry /\ Fit(cl) /\ (Quiet => Sound(cl))
    BY <1>1, EventFinds
<1>3. CASE cl' = cl /\ sig' = sig /\ net' = "idle"
    <2>1. Typed'
      BY <1>1, <1>2, <1>3, TypedKeeps DEF IInv, Typed, TypeOK, Signalings
    <2>2. Drained' = Drained
      BY <1>3 DEF Drained
    <2>3. Quiet' => Sound(Drained)'
      BY <1>1, <1>3, <2>2, Unmoved DEF Quiet, IInv, Ready
    <2> QED
      BY <2>1, <2>3 DEF IInv
<1>4. CASE /\ cl' = z /\ ~cl.intentional /\ net' = "wait"
           /\ sig' = [state |-> "connecting", ws |-> TRUE, session |-> FALSE]
    <2>1. /\ x \in ClientRec /\ Fit(x) /\ ~x.busy
          /\ x.open = cl.open /\ x.attempt = cl.attempt /\ x.entry = cl.entry
          /\ x.sweep = cl.sweep /\ x.target = cl.target /\ x.host = cl.host
          /\ x.tail = cl.tail /\ x.ping = cl.ping
          /\ x.stage = cl.stage /\ x.intentional = cl.intentional
      BY <1>2 DEF ClientRec, Fit
    <2> HIDE DEF x
    <2>2. Fit(y)
      BY <2>1, MoveFits DEF States
    <2>3. Sound(cl) => Held(y) /\ y.host \in Resting /\ ~y.intentional
      <3> SUFFICES ASSUME Sound(cl)
                   PROVE  Held(y) /\ y.host \in Resting /\ ~y.intentional
        OBVIOUS
      <3>1. Owned(x)
        <4>1. Owned(cl)
          BY <1>2, SoundOwned
        <4> QED
          BY <2>1, <4>1 DEF Owned, Swept
      <3>2. CASE cl.host \in Resting /\ ("disconnected" = x.host
                                          \/ "disconnected" \notin NextStates(x.host))
        <4>1. Bare(x)
          BY <2>1, <3>2 DEF Sound, Bare, Swept
        <4>2. y = x
          BY <3>2, MoveStays
        <4> QED
          BY <1>4, <2>1, <3>2, <4>1, <4>2, BareHeld
      <3>3. CASE "disconnected" # x.host /\ "disconnected" \in NextStates(x.host)
        <4>1. Ended(x, y)
          BY <2>1, <3>1, <3>3, MoveEnds
        <4> QED
          BY <1>4, <2>1, <4>1 DEF Ended
      <3> QED
        BY <1>2, <2>1, <3>2, <3>3, Table DEF ClientRec, Resting
    <2> HIDE DEF y
    <2>4. /\ c \in ClientRec /\ Aims(y, c) /\ ~c.retry /\ ~c.busy /\ ~c.tail
          /\ Held(y) => Bare(c)
      BY <2>2, ClearEffect DEF Fit
    <2> HIDE DEF c
    <2>5. /\ z \in ClientRec /\ ~z.retry /\ ~z.busy /\ ~z.tail
          /\ z.host = c.host /\ z.intentional = c.intentional
          /\ z.open = c.open /\ z.attempt = c.attempt /\ z.ping = c.ping
          /\ z.stage = c.stage /\ z.entry = c.entry /\ z.sweep = c.sweep
      BY <2>4 DEF ClientRec
    <2> HIDE DEF z
    <2>6. Typed'
      <3>1. Fit(cl') /\ sig' \in Signalings
        BY <1>4, <2>5 DEF Fit, Signalings
      <3> QED
        BY <1>1, <1>4, <3>1, TypedKeeps DEF IInv, Typed, TypeOK
    <2>7. ASSUME Quiet' PROVE Sound(Drained)'
      <3>1. Sound(cl) /\ Active = {}
        BY <1>1, <1>2, <2>7 DEF Quiet
      <3>2. Bare(z) /\ z.host \in Resting /\ ~z.intentional
        BY <2>3, <2>4, <2>5, <3>1 DEF Bare, Swept, Aims
      <3>3. Active' = {} /\ ~AtBarrier' /\ \A r \in Calls : ~AtWork(r)'
        BY <1>1, <3>1, NoneActiveThen
      <3>4. Drained' = z
        BY <1>4, <2>5 DEF Drained
      <3> QED
        BY <2>5, <3>2, <3>3, <3>4 DEF Sound, Resting, LiveStates
    <2> QED
      BY <2>6, <2>7 DEF IInv
<1> QED
    BY <1>3, <1>4 DEF Switch

-----------------------------------------------------------------------------
(* Calls of connectToHost *)

SameHold(x, y) ==
    /\ y.open = x.open /\ y.attempt = x.attempt /\ y.ping = x.ping
    /\ y.stage = x.stage /\ y.entry = x.entry /\ y.sweep = x.sweep

LEMMA CalledEffect ==
    ASSUME NEW x \in ClientRec
    PROVE  LET y == Called(x) IN
           /\ y \in ClientRec /\ y.target /\ ~y.intentional /\ y.first = "none" /\ y.busy
           /\ y.host = x.host /\ y.retry = x.retry /\ y.tail = x.tail
           /\ y.current = x.current /\ SameHold(x, y)
<1> DEFINE y == [x EXCEPT !.busy = TRUE, !.target = TRUE, !.authFailed = FALSE,
                          !.intentional = FALSE, !.first = "none"]
<1>1. /\ y \in ClientRec /\ y.target /\ ~y.intentional /\ y.first = "none" /\ y.busy
      /\ y.host = x.host /\ y.retry = x.retry /\ y.tail = x.tail
      /\ y.current = x.current /\ SameHold(x, y)
    BY DEF ClientRec, SameHold
<1> HIDE DEF y
<1>2. Called(x) = y
    BY DEF Called, y
<1> QED
    BY <1>1, <1>2

LEMMA FitBusy ==
    ASSUME NEW x, Fit(x)
    PROVE  Fit([x EXCEPT !.busy = FALSE])
<1> DEFINE y == [x EXCEPT !.busy = FALSE]
<1>1. y \in ClientRec /\ y.retry = x.retry /\ y.tail = x.tail
    BY DEF Fit, ClientRec
<1> HIDE DEF y
<1>2. Fit(y)
    BY <1>1 DEF Fit
<1> QED
    BY <1>2 DEF y

LEMMA StartStep ==
    ASSUME IInv, Event, NEW r \in Calls, call[r] # "done", Ready,
           NEW x \in ClientRec, Start(r, x), SameHold(cl, x), x.host = cl.host,
           ~x.tail, ~x.retry, Quiet => x.target /\ ~x.intentional,
           link' = link, hears' = hears, asked' = asked, sig' = sig,
           net' \in {"idle", "check", "wait"},
           faults' = faults, switches' = switches, unheard' = unheard
    PROVE  IInv'
<1> DEFINE z == [x EXCEPT !.current = r]
           c == Clear(z)
           y == Move(c, "connecting")
<1>1. /\ cl' = y /\ call' = [call EXCEPT ![r] = "create"]
      /\ mixed' = (mixed \/ Leftover(r))
    BY DEF Start
<1>2. cl \in ClientRec /\ (Quiet => Sound(cl))
    BY EventFinds
<1>3. /\ z \in ClientRec /\ z.current = r /\ z.host = x.host /\ z.target = x.target
      /\ z.intentional = x.intentional /\ SameHold(x, z)
    BY CallIds DEF ClientRec, SameHold
<1> HIDE DEF z
<1>4. /\ c \in ClientRec /\ Aims(z, c) /\ ~c.retry /\ ~c.busy /\ ~c.tail
      /\ Held(z) => Bare(c)
      /\ z.entry.dc = None /\ z.entry.pc = None =>
            c.entry.dc = None /\ c.entry.pc = None /\ c.sweep = z.sweep
    BY <1>3, ClearEffect
<1> HIDE DEF c
<1>5. Fit(y)
    <2>1. Fit(c)
      BY <1>4 DEF Fit
    <2> QED
      BY <2>1, MoveFits DEF States
<1>6. /\ call' \in [Calls -> CallStates] /\ call'[r] = "create"
      /\ \A q \in Calls : q # r => call'[q] = call[q]
    BY <1>1 DEF IInv, Typed, TypeOK, CallStates
<1>7. Typed'
    <2>1. /\ \A q \in Calls : call'[q] # "done" => link'[q] = "new" /\ asked'[q] = None
      BY <1>6 DEF IInv, Typed
    <2>2. mixed' \in BOOLEAN
      BY <1>1
    <2> HIDE DEF y
    <2> QED
      BY <1>1, <1>5, <1>6, <2>1, <2>2 DEF IInv, Typed, TypeOK, Fit
<1>8. ASSUME Quiet' PROVE Sound(Drained)'
    <2>1. Sound(cl) /\ ~Leftover(r) /\ x.target /\ ~x.intentional
      BY <1>1, <1>2, <1>8 DEF Quiet
    <2>2. /\ Active \ {r} = {} /\ cl.host \in Resting /\ NoSweep(cl)
      BY <1>2, <2>1 DEF Leftover, NoSweep, ClientRec, Sweep
    <2>3. Bare(z) /\ z.entry.dc = None /\ z.entry.pc = None /\ NoSweep(z)
      <3>1. Bare(cl)
        BY <2>1, <2>2 DEF Sound
      <3>2. cl.entry.dc = None /\ cl.entry.pc = None
        BY <2>2, <3>1 DEF Bare, Swept, NoSweep
      <3> QED
        BY <1>3, <2>2, <3>1, <3>2 DEF SameHold, Bare, Swept, NoSweep
    <2>4. /\ Bare(c) /\ c.entry.dc = None /\ c.entry.pc = None /\ NoSweep(c)
          /\ c.host \in Resting /\ c.current = r /\ c.target /\ ~c.intentional
      BY <1>3, <1>4, <2>1, <2>2, <2>3, BareHeld DEF NoSweep, Aims
    <2>5. /\ y.host = "connecting" /\ y.target /\ ~y.intentional /\ y.current = r
          /\ \A a \in Calls : y.stage[a] = None
          /\ y.open = {} /\ y.attempt = None /\ y.entry = c.entry /\ y.sweep = c.sweep
          /\ ~y.ping /\ ~y.busy /\ ~y.tail
      <3>1. "connecting" \in NextStates(c.host) /\ "connecting" # c.host
            /\ "connecting" \in States \ Resting
        BY <2>4, Table DEF Resting, States
      <3>2. /\ y.host = "connecting" /\ y.target = c.target
            /\ y.intentional = c.intentional /\ y.current = c.current
            /\ \A a \in Calls : y.stage[a] = IF a # c.attempt THEN c.stage[a]
                                             ELSE c.current
            /\ y.open = c.open /\ y.attempt = c.attempt /\ y.entry = c.entry
            /\ y.sweep = c.sweep /\ y.ping = c.ping
            /\ y.busy = c.busy /\ y.tail = c.tail
        BY <1>4, <3>1, MoveGoesOn
      <3> HIDE DEF y
      <3> QED
        BY <1>4, <2>4, <3>2, CallIds DEF Bare
    <2> HIDE DEF y
    <2>6. Active' = {r} /\ AtWork(r)' /\ Ready' /\ ~AtBarrier'
      <3>1. \A q \in Calls : q # r => call[q] \notin {"barrier", "create", "setup"}
        BY <2>2 DEF Active
      <3> QED
        BY <1>6, <3>1 DEF Active, AtWork, AtBarrier, Ready
    <2>7. Drained' = y
      BY <1>1, <2>5 DEF Drained
    <2>8. Making(Drained, r)'
      BY <1>6, <2>4, <2>5, <2>6, <2>7 DEF Making, NoSweep
    <2> QED
      BY <2>5, <2>6, <2>7, <2>8 DEF Sound, Resting, LiveStates
<1> QED
    BY <1>7, <1>8 DEF IInv

LEMMA ConnectStep ==
    ASSUME IInv, NEW r \in Calls, Connect(r) PROVE IInv'
<1> DEFINE x == Called(cl)
<1>1. /\ Event /\ call[r] = "idle" /\ link' = link /\ hears' = hears /\ asked' = asked
      /\ net' = net /\ faults' = faults /\ switches' = switches /\ unheard' = unheard
    BY DEF Connect, NextCall, linkVars
<1>2. cl \in ClientRec /\ ~cl.tail /\ ~cl.retry /\ (Quiet => Sound(cl))
    BY <1>1, EventFinds
<1>3. /\ x \in ClientRec /\ x.target /\ ~x.intentional /\ x.first = "none"
      /\ x.host = cl.host /\ ~x.retry /\ ~x.tail /\ SameHold(cl, x)
    BY <1>2, CalledEffect
<1> HIDE DEF x
<1>4. CASE Ready
    <2>1. Start(r, x) /\ sig' = sig
      BY <1>4 DEF Connect, x
    <2>2. net \in {"idle", "check", "wait"}
      BY DEF IInv, Typed, TypeOK
    <2> QED
      BY <1>1, <1>3, <1>4, <2>1, <2>2, StartStep
<1>5. CASE ~Ready
    <2>1. /\ cl' = x /\ call' = [call EXCEPT ![r] = "barrier"] /\ sig' = Dialled
          /\ mixed' = mixed
      BY <1>5 DEF Connect, x
    <2>2. /\ call' \in [Calls -> CallStates] /\ call'[r] = "barrier"
          /\ \A q \in Calls : q # r => call'[q] = call[q]
      BY <2>1 DEF IInv, Typed, TypeOK, CallStates
    <2>3. Typed'
      <3>1. sig' \in Signalings
        BY <2>1 DEF Dialled, IInv, Typed, TypeOK, Signalings
      <3>2. \A q \in Calls : call'[q] # "done" => link'[q] = "new" /\ asked'[q] = None
        BY <1>1, <2>2 DEF IInv, Typed
      <3> QED
        BY <1>1, <1>3, <2>1, <2>2, <3>1, <3>2 DEF IInv, Typed, TypeOK, Signalings
    <2>4. ASSUME Quiet' PROVE Sound(Drained)'
      <3>1. Sound(cl)
        BY <1>1, <1>2, <2>1, <2>4 DEF Quiet
      <3>2. cl.host \in Resting
        BY <1>2, <1>5, <3>1, StateSets DEF Sound, Making, Live, ClientRec
      <3>3. Bare(x) /\ Drained' = x
        BY <1>3, <2>1, <3>1, <3>2 DEF Sound, Bare, Swept, SameHold, Drained
      <3>4. AtBarrier' /\ \A q \in Calls : ~AtWork(q)'
        BY <2>2, <3>1, <3>2 DEF Sound, AtBarrier, AtWork
      <3> QED
        BY <1>3, <3>2, <3>3, <3>4 DEF Sound, Waiting, Resting, LiveStates
    <2> QED
      BY <2>3, <2>4 DEF IInv
<1> QED
    BY <1>4, <1>5

LEMMA PassBarrierStep ==
    ASSUME IInv, NEW r \in Calls, PassBarrier(r) PROVE IInv'
<1>1. /\ Event /\ call[r] = "barrier" /\ Ready /\ Start(r, cl)
      /\ link' = link /\ hears' = hears /\ asked' = asked /\ sig' = sig
      /\ net' = net /\ faults' = faults /\ switches' = switches /\ unheard' = unheard
    BY DEF PassBarrier, linkVars
<1>2. cl \in ClientRec /\ ~cl.tail /\ ~cl.retry /\ (Quiet => Sound(cl))
    BY <1>1, EventFinds
<1>3. Quiet => cl.target /\ ~cl.intentional
    BY <1>1, <1>2, NoneActive DEF Sound, Waiting, AtBarrier
<1>4. SameHold(cl, cl) /\ net \in {"idle", "check", "wait"}
    BY DEF SameHold, IInv, Typed, TypeOK
<1> QED
    BY <1>1, <1>2, <1>3, <1>4, StartStep

LEMMA SwitchReadyStep ==
    ASSUME IInv, NEW r \in Calls, SwitchReady(r) PROVE IInv'
<1> DEFINE x == Called(cl)
<1>1. /\ Event /\ call[r] = "idle" /\ Ready /\ UNCHANGED linkVars
      /\ link' = link /\ hears' = hears /\ asked' = asked /\ sig' = sig
      /\ net' = "idle" /\ faults' = faults /\ switches' = switches /\ unheard' = unheard
    BY DEF SwitchReady, NextCall, linkVars
<1>2. cl \in ClientRec /\ ~cl.tail /\ ~cl.retry /\ Fit(cl)
    BY <1>1, EventFinds
<1>3. CASE cl.busy
    <2>1. cl' = cl /\ call' = call /\ mixed' = mixed
      BY <1>3 DEF SwitchReady
    <2>2. Typed'
      BY <1>1, <1>2, <2>1, TypedKeeps DEF IInv, Typed, TypeOK, Signalings, callVars
    <2>3. Drained' = Drained
      BY <2>1 DEF Drained
    <2>4. Quiet' => Sound(Drained)'
      BY <1>1, <2>1, <2>3, Unmoved DEF Quiet, IInv, Ready
    <2> QED
      BY <2>2, <2>4 DEF IInv
<1>4. CASE ~cl.busy
    <2>1. Start(r, x)
      BY <1>4 DEF SwitchReady
    <2>2. /\ x \in ClientRec /\ x.target /\ ~x.intentional
          /\ x.host = cl.host /\ ~x.retry /\ ~x.tail /\ SameHold(cl, x)
      BY <1>2, CalledEffect
    <2> HIDE DEF x
    <2> QED
      BY <1>1, <2>1, <2>2, StartStep
<1> QED
    BY <1>3, <1>4

\* A call that gives up at the barrier finds the client at rest already.
LEMMA MissBarrierStep ==
    ASSUME IInv, NEW r \in Calls, MissBarrier(r) PROVE IInv'
<1> DEFINE x == [cl EXCEPT !.busy = FALSE]
<1>1. /\ Event /\ call[r] = "barrier" /\ cl' = Move(x, "failed")
      /\ call' = [call EXCEPT ![r] = "done"]
      /\ link' = link /\ hears' = hears /\ asked' = asked /\ sig' = sig
      /\ net' = net /\ faults' = faults /\ switches' = switches
      /\ mixed' = mixed /\ unheard' = unheard
    BY DEF MissBarrier, linkVars, otherVars
<1>2. cl \in ClientRec /\ ~cl.tail /\ ~cl.retry /\ Fit(cl) /\ (Quiet => Sound(cl))
    BY <1>1, EventFinds
<1>3. /\ x \in ClientRec /\ ~x.busy /\ ~x.tail /\ SameHold(cl, x)
      /\ x.host = cl.host /\ x.target = cl.target /\ x.first = cl.first
      /\ x.current = cl.current /\ x.intentional = cl.intentional
    BY <1>2 DEF ClientRec, SameHold
<1>4. Fit(x)
    BY <1>2, FitBusy
<1> HIDE DEF x
<1>5. Fit(cl')
    BY <1>1, <1>4, MoveFits DEF States
<1>6. /\ call' \in [Calls -> CallStates] /\ call'[r] = "done"
      /\ \A q \in Calls : q # r => call'[q] = call[q]
    BY <1>1 DEF IInv, Typed, TypeOK, CallStates
<1>7. Typed'
    <2>1. \A q \in Calls : call'[q] # "done" => link'[q] = "new" /\ asked'[q] = None
      BY <1>1, <1>6 DEF IInv, Typed
    <2> QED
      BY <1>1, <1>5, <1>6, <2>1 DEF IInv, Typed, TypeOK, Fit
<1>8. ASSUME Quiet' PROVE Sound(Drained)'
    <2>1. Sound(cl)
      BY <1>1, <1>2, <1>8 DEF Quiet
    <2>2. Waiting(cl) /\ ~cl.intentional
      BY <1>1, <2>1, NoneActive DEF Sound, AtBarrier
    <2>3. cl' = x
      <3>1. "failed" \notin NextStates(x.host)
        BY <1>3, <2>2, Table DEF Waiting
      <3> QED
        BY <1>1, <3>1, MoveStays
    <2>4. Bare(x) /\ Drained' = x
      BY <1>3, <2>1, <2>2, <2>3 DEF Sound, Waiting, Bare, Swept, SameHold, Drained
    <2>5. \A q \in Calls : ~AtWork(q)'
      BY <1>6, <2>1, <2>2 DEF Sound, Waiting, AtWork
    <2> QED
      BY <1>1, <1>3, <2>2, <2>4, <2>5 DEF Sound, Waiting, Resting, LiveStates
<1> QED
    BY <1>7, <1>8 DEF IInv

\* The call at work is the only one there is.
LEMMA WorkIsMaking ==
    ASSUME Typed, Sound(cl), NEW r \in Calls, AtWork(r)
    PROVE  Making(cl, r) /\ cl.host = "connecting"
<1>1. cl.host = "connecting"
    BY NoneActive, StateSets DEF Typed, TypeOK, ClientRec, Sound, Live
<1>2. PICK q \in Calls : Making(cl, q)
    BY <1>1 DEF Sound
<1>3. r \in Active
    BY DEF AtWork, Active
<1> QED
    BY <1>1, <1>2, <1>3 DEF Making

\* A call at work that ends in an exception.
LEMMA ThrowStep ==
    ASSUME IInv, Event, NEW r \in Calls, AtWork(r), NEW x \in ClientRec, Throw(r, x),
           x.host = cl.host, x.busy = cl.busy, x.intentional = cl.intentional,
           ~x.tail, ~x.retry, Sound(cl) => Owned(x),
           link' = link, hears' = hears, asked' = asked, sig' = sig, net' = net,
           faults' = faults \/ Fault, switches' = switches,
           mixed' = mixed, unheard' = unheard
    PROVE  IInv'
<1> DEFINE w == [x EXCEPT !.authFailed = FALSE]
           y == Move(w, "failed")
<1>1. /\ cl' = [y EXCEPT !.busy = FALSE] /\ call' = [call EXCEPT ![r] = "done"]
    BY DEF Throw
<1>2. /\ w \in ClientRec /\ w.host = x.host /\ w.busy = x.busy /\ ~w.tail /\ ~w.retry
      /\ w.intentional = x.intentional /\ w.target = x.target /\ SameHold(x, w)
    BY DEF ClientRec, SameHold
<1> HIDE DEF w
<1>3. Fit(cl')
    <2>1. Fit(y)
      BY <1>2, MoveFits DEF States, Fit
    <2> QED
      BY <1>1, <2>1, FitBusy
<1>4. /\ call' \in [Calls -> CallStates] /\ call'[r] = "done"
      /\ \A q \in Calls : q # r => call'[q] = call[q]
    BY <1>1 DEF IInv, Typed, TypeOK, CallStates
<1>5. Typed'
    <2>1. \A q \in Calls : call'[q] # "done" => link'[q] = "new" /\ asked'[q] = None
      BY <1>4 DEF IInv, Typed
    <2>2. faults' \in 0 .. MaxFaults
      BY ClientAssumption DEF IInv, Typed, TypeOK, Fault
    <2> QED
      BY <1>3, <1>4, <2>1, <2>2 DEF IInv, Typed, TypeOK, Fit
<1>6. ASSUME Quiet' PROVE Sound(Drained)'
    <2>1. Sound(cl)
      BY <1>6, EventFinds DEF Quiet
    <2>2. Making(cl, r) /\ cl.host = "connecting"
      BY <2>1, WorkIsMaking DEF IInv
    <2>3. Owned(w)
      BY <1>2, <2>1 DEF Owned, Swept, SameHold
    <2>4. Active' = {} /\ ~AtBarrier' /\ \A q \in Calls : ~AtWork(q)'
      <3>1. \A q \in Calls : q # r => call[q] \notin {"barrier", "create", "setup"}
        BY <2>2 DEF Making, Active
      <3> QED
        BY <1>4, <3>1 DEF Active, AtBarrier, AtWork
    <2>5. ~w.intentional /\ w.host \notin Resting
      BY <1>2, <2>1, <2>2 DEF Sound, Resting
    <2> QED
      BY <1>1, <1>2, <2>3, <2>4, <2>5, Ending
<1> QED
    BY <1>5, <1>6 DEF IInv

LEMMA LibraryFailsStep ==
    ASSUME IInv, NEW r \in Calls, LibraryFails(r) PROVE IInv'
<1>1. /\ Event /\ AtWork(r) /\ Throw(r, cl) /\ Fault
      /\ link' = link /\ hears' = hears /\ asked' = asked /\ sig' = sig /\ net' = net
      /\ switches' = switches /\ mixed' = mixed /\ unheard' = unheard
    BY DEF LibraryFails, AtWork, linkVars, otherVars
<1>2. cl \in ClientRec /\ ~cl.tail /\ ~cl.retry
    BY <1>1, EventFinds
<1> QED
    BY <1>1, <1>2, SoundOwned, ThrowStep

LEMMA CreatedStep ==
    ASSUME IInv, NEW r \in Calls, Created(r) PROVE IInv'
<1> DEFINE entry == [cl.entry EXCEPT !.pc = r]
           open == cl.open \cup {r}
           x == [cl EXCEPT !.entry = entry, !.open = open]
           both == [entry EXCEPT !.attempt = r]
           y == [x EXCEPT !.attempt = r, !.entry = both]
<1>1. /\ Event /\ call[r] = "create" /\ AtWork(r)
      /\ link' = link /\ hears' = hears /\ asked' = asked /\ sig' = sig /\ net' = net
      /\ faults' = faults /\ switches' = switches
      /\ mixed' = mixed /\ unheard' = unheard
    BY DEF Created, AtWork, linkVars, otherVars
<1>2. cl \in ClientRec /\ ~cl.tail /\ ~cl.retry /\ (Quiet => Sound(cl))
    BY <1>1, EventFinds
<1>3. entry \in Entry /\ entry.pc = r /\ entry.dc = cl.entry.dc /\ open \subseteq Calls
    BY <1>2, CallIds DEF ClientRec, Entry
<1>4. both \in Entry /\ both.pc = r /\ both.dc = cl.entry.dc
    BY <1>3, CallIds DEF Entry
<1>5. \/ Throw(r, x)
      \/ cl' = y /\ call' = [call EXCEPT ![r] = "setup"]
    <2>1. CASE sig.ws
      <3>1. /\ cl' = [[cl EXCEPT !.entry.pc = r, !.open = cl.open \cup {r}]
                         EXCEPT !.attempt = r, !.entry.attempt = r]
            /\ call' = [call EXCEPT ![r] = "setup"]
        BY <2>1 DEF Created
      <3>2. [cl EXCEPT !.entry.pc = r, !.open = cl.open \cup {r}] = x
        OBVIOUS
      <3>3. x.entry = entry
        BY <1>2 DEF ClientRec
      <3>4. cl' = [x EXCEPT !.attempt = r, !.entry.attempt = r]
        BY <3>1, <3>2
      <3> HIDE DEF x, entry
      <3>5. cl' = [x EXCEPT !.attempt = r, !.entry = [x.entry EXCEPT !.attempt = r]]
        BY <3>4
      <3> QED
        BY <3>1, <3>3, <3>5
    <2>2. CASE ~sig.ws
      BY <2>2 DEF Created
    <2> QED
      BY <2>1, <2>2
<1> HIDE DEF entry, open, both
<1>6. /\ x \in ClientRec /\ x.host = cl.host /\ x.busy = cl.busy /\ x.target = cl.target
      /\ x.intentional = cl.intentional /\ x.current = cl.current /\ x.ping = cl.ping
      /\ ~x.tail /\ ~x.retry /\ x.open = open /\ x.entry = entry
      /\ x.attempt = cl.attempt /\ x.stage = cl.stage /\ x.sweep = cl.sweep
    BY <1>2, <1>3 DEF ClientRec
<1> HIDE DEF x
<1>7. /\ y \in ClientRec /\ y.host = cl.host /\ y.busy = cl.busy /\ y.target = cl.target
      /\ y.intentional = cl.intentional /\ y.current = cl.current /\ y.ping = cl.ping
      /\ ~y.tail /\ ~y.retry /\ y.open = open /\ y.entry = both
      /\ y.attempt = r /\ y.stage = cl.stage /\ y.sweep = cl.sweep
    BY <1>4, <1>6, CallIds DEF ClientRec
<1> HIDE DEF y
<1>8. CASE Throw(r, x)
    <2>1. Sound(cl) => Owned(x)
      <3> SUFFICES ASSUME Sound(cl) PROVE Owned(x)
        OBVIOUS
      <3>1. Making(cl, r)
        BY <1>1, WorkIsMaking DEF IInv
      <3> QED
        BY <1>1, <1>3, <1>6, <3>1 DEF Making, Owned, open
    <2> QED
      BY <1>1, <1>6, <1>8, <2>1, ThrowStep
<1>9. CASE cl' = y /\ call' = [call EXCEPT ![r] = "setup"]
    <2>1. /\ call' \in [Calls -> CallStates] /\ call'[r] = "setup"
          /\ \A q \in Calls : q # r => call'[q] = call[q]
      BY <1>9 DEF IInv, Typed, TypeOK, CallStates
    <2>2. Typed'
      <3>1. \A q \in Calls : call'[q] # "done" => link'[q] = "new" /\ asked'[q] = None
        BY <1>1, <2>1 DEF IInv, Typed
      <3> QED
        BY <1>1, <1>7, <1>9, <2>1, <3>1 DEF IInv, Typed, TypeOK
    <2>3. ASSUME Quiet' PROVE Sound(Drained)'
      <3>1. Sound(cl)
        BY <1>1, <1>2, <2>3 DEF Quiet
      <3>2. Making(cl, r) /\ cl.host = "connecting"
        BY <1>1, <3>1, WorkIsMaking DEF IInv
      <3>3. Active' = {r} /\ AtWork(r)' /\ Ready' /\ ~AtBarrier'
        <4>1. \A q \in Calls : q # r => call[q] \notin {"barrier", "create", "setup"}
          BY <3>2 DEF Making, Active
        <4>2. Ready' = Ready
          BY <1>1 DEF Ready
        <4> QED
          BY <2>1, <3>2, <4>1, <4>2 DEF Active, AtWork, AtBarrier, Making
      <3>4. Drained' = y
        BY <1>7, <1>9 DEF Drained
      <3>5. ~y.busy /\ ~y.intentional
        <4>1. ~AtBarrier
          BY <1>1, <3>2 DEF Making, Active, AtBarrier
        <4> QED
          BY <1>7, <3>1, <3>2, <4>1 DEF Sound
      <3>6. Making(Drained, r)'
        BY <1>1, <1>4, <1>7, <2>1, <3>2, <3>3, <3>4 DEF Making, NoSweep, open
      <3> QED
        BY <1>7, <3>2, <3>3, <3>4, <3>5, <3>6 DEF Sound, Resting, LiveStates
    <2> QED
      BY <2>2, <2>3 DEF IInv
<1> QED
    BY <1>5, <1>8, <1>9

LEMMA SetUpStep ==
    ASSUME IInv, NEW r \in Calls, SetUp(r) PROVE IInv'
<1> DEFINE entry == [cl.entry EXCEPT !.dc = r]
           x == [cl EXCEPT !.entry = entry]
           y == Move(x, "signaling")
<1>1. /\ Event /\ call[r] = "setup" /\ AtWork(r)
      /\ asked' = asked /\ sig' = sig /\ net' = net
      /\ faults' = faults /\ switches' = switches
      /\ mixed' = mixed /\ unheard' = unheard
    BY DEF SetUp, AtWork, otherVars
<1>2. cl \in ClientRec /\ ~cl.tail /\ ~cl.retry /\ (Quiet => Sound(cl))
    BY <1>1, EventFinds
<1>3. CASE r \notin cl.open
    <2>1. Throw(r, cl) /\ link' = link /\ hears' = hears
      BY <1>3 DEF SetUp
    <2> QED
      BY <1>1, <1>2, <2>1, SoundOwned, ThrowStep
<1>4. CASE r \in cl.open
    <2>1. /\ cl' = [y EXCEPT !.busy = FALSE] /\ call' = [call EXCEPT ![r] = "done"]
          /\ hears' = [hears EXCEPT ![r] = cl.current]
          /\ \E l \in {"offered", "broken"} : link' = [link EXCEPT ![r] = l]
      BY <1>4 DEF SetUp
    <2>2. entry \in Entry /\ entry.dc = r
      BY <1>2, CallIds DEF ClientRec, Entry
    <2> HIDE DEF entry
    <2>3. /\ x \in ClientRec /\ x.host = cl.host /\ x.busy = cl.busy
          /\ x.target = cl.target /\ x.intentional = cl.intentional
          /\ x.current = cl.current /\ x.ping = cl.ping /\ ~x.tail /\ ~x.retry
          /\ x.open = cl.open /\ x.entry = entry
          /\ x.attempt = cl.attempt /\ x.stage = cl.stage /\ x.sweep = cl.sweep
      BY <1>2, <2>2 DEF ClientRec
    <2> HIDE DEF x
    <2>4. Fit(cl')
      <3>1. Fit(y)
        BY <2>3, MoveFits DEF States, Fit
      <3> QED
        BY <2>1, <3>1, FitBusy
    <2>5. /\ call' \in [Calls -> CallStates] /\ call'[r] = "done"
          /\ \A q \in Calls : q # r => call'[q] = call[q]
      BY <2>1 DEF IInv, Typed, TypeOK, CallStates
    <2>6. /\ link' \in [Calls -> LinkStates] /\ link'[r] \in {"offered", "broken"}
          /\ \A q \in Calls : q # r => link'[q] = link[q]
      BY <2>1 DEF IInv, Typed, TypeOK, LinkStates
    <2>7. Typed'
      <3>1. \A q \in Calls : call'[q] # "done" => link'[q] = "new" /\ asked'[q] = None
        BY <1>1, <2>5, <2>6 DEF IInv, Typed
      <3>2. hears' \in [Calls -> Ids]
        BY <1>2, <2>1 DEF IInv, Typed, TypeOK, ClientRec
      <3> QED
        BY <1>1, <2>4, <2>5, <2>6, <3>1, <3>2 DEF IInv, Typed, TypeOK, Fit
    <2>8. ASSUME Quiet' PROVE Sound(Drained)'
      <3>1. Sound(cl)
        BY <1>1, <1>2, <2>8 DEF Quiet
      <3>2. Making(cl, r) /\ cl.host = "connecting"
        BY <1>1, <3>1, WorkIsMaking DEF IInv
      <3>3. Active' = {} /\ Ready' /\ ~AtBarrier'
        <4>1. \A q \in Calls : q # r => call[q] \notin {"barrier", "create", "setup"}
          BY <3>2 DEF Making, Active
        <4>2. Ready' = Ready
          BY <1>1 DEF Ready
        <4> QED
          BY <2>5, <3>2, <4>1, <4>2 DEF Active, AtBarrier, Making
      <3>4. /\ y \in ClientRec /\ y.host = "signaling" /\ y.target = x.target
            /\ y.intentional = x.intentional /\ y.current = x.current
            /\ \A a \in Calls : y.stage[a] = IF a # x.attempt THEN x.stage[a]
                                             ELSE x.current
            /\ y.open = x.open /\ y.attempt = x.attempt /\ y.entry = x.entry
            /\ y.sweep = x.sweep /\ y.ping = x.ping /\ y.tail = x.tail
        <4>1. "signaling" \in States \ Resting /\ "signaling" \in NextStates(x.host)
              /\ "signaling" # x.host
          BY <2>3, <3>2, Table DEF States, Resting
        <4> QED
          BY <2>3, <4>1, MoveGoesOn
      <3> HIDE DEF y
      <3>5. /\ cl'.host = "signaling" /\ cl'.target = cl.target /\ ~cl'.busy
            /\ cl'.intentional = cl.intentional /\ cl'.current = cl.current
            /\ \A a \in Calls : cl'.stage[a] = IF a # cl.attempt THEN cl.stage[a]
                                               ELSE cl.current
            /\ cl'.open = cl.open /\ cl'.attempt = cl.attempt /\ cl'.entry = entry
            /\ cl'.sweep = cl.sweep /\ cl'.ping = cl.ping /\ ~cl'.tail
        BY <2>1, <2>3, <3>4 DEF ClientRec
      <3>6. Drained' = cl' /\ ~cl'.intentional
        BY <3>1, <3>2, <3>5 DEF Drained, Sound
      <3>7. Live(Drained)'
        <4>1. asked'[r] = None
          BY <1>1 DEF IInv, Typed
        <4>2. cl.attempt = r /\ cl.open = {r} /\ cl.current = r
          BY <1>1, <3>2 DEF Making
        <4>3. cl'.stage[r] = r /\ \A a \in Calls \ {r} : cl'.stage[a] = None
          BY <3>2, <3>5, <4>2 DEF Making
        <4> QED
          BY ZenonT(60), <2>2, <2>5, <2>6, <3>2, <3>3, <3>5, <3>6, <4>1, <4>2, <4>3
          DEF Live, LinkOf, Making, NoSweep
      <3> QED
        BY <3>3, <3>5, <3>6, <3>7 DEF Sound, Resting
    <2> QED
      BY <2>7, <2>8 DEF IInv
<1> QED
    BY <1>3, <1>4

-----------------------------------------------------------------------------
(* What a link reports *)

\* An Answer that is refused, or that the table does not take, breaks links that
\* nothing rests on.
LEMMA AnswerStep ==
    ASSUME IInv, NEW r \in Calls, Answer(r) PROVE IInv'
<1> DEFINE a == cl.attempt
<1>1. /\ Event /\ call' = call /\ hears' = hears /\ asked' = asked /\ sig' = sig
      /\ net' = net /\ faults' = faults /\ switches' = switches
      /\ mixed' = mixed /\ unheard' = unheard /\ link[r] = "offered"
    BY DEF Answer, otherVars
<1>2. cl \in ClientRec /\ ~cl.tail /\ ~cl.retry /\ Fit(cl) /\ (Quiet => Sound(cl))
    BY <1>1, EventFinds
<1>3. /\ call[r] = "done" /\ link \in [Calls -> LinkStates]
      /\ \A q \in Calls : call[q] # "done" => link[q] = "new"
    BY <1>1 DEF IInv, Typed, TypeOK
<1>4. /\ link' \in [Calls -> LinkStates]
      /\ \A q \in Calls : link[q] # "offered" => link'[q] = link[q]
      /\ \A q \in Calls : link'[q] \in {link[q], "broken", "answered"}
      /\ a # r \/ ~cl.target => link'[r] = "broken"
      /\ \A q \in Calls \ {r} : link'[q] \in {link[q], "broken"}
      /\ a = r /\ cl.target => link'[r] = "answered"
      /\ a \in Calls /\ cl.target /\ link[a] = "offered" => link'[a] # "offered"
      /\ IF a = None \/ ~cl.target THEN cl' = cl ELSE cl' = Move(cl, "iceConnecting")
    <2>1. CASE a = None \/ ~cl.target
      <3>1. cl' = cl /\ link' = [link EXCEPT ![r] = "broken"]
        BY <2>1 DEF Answer
      <3> QED
        BY <1>1, <1>3, <2>1, <3>1, CallIds DEF LinkStates
    <2>2. CASE a # None /\ cl.target /\ a = r
      <3>1. cl' = Move(cl, "iceConnecting") /\ link' = [link EXCEPT ![r] = "answered"]
        BY <2>2 DEF Answer
      <3> QED
        BY <1>1, <1>3, <2>2, <3>1 DEF LinkStates
    <2>3. CASE a # None /\ cl.target /\ a # r
      <3> DEFINE l == IF link[a] = "offered" THEN "broken" ELSE link[a]
      <3>1. a \in Calls
        BY <1>2, <2>3 DEF ClientRec, Ids
      <3>2. /\ cl' = Move(cl, "iceConnecting")
            /\ link' = [link EXCEPT ![r] = "broken",
                                    ![a] = IF @ = "offered" THEN "broken" ELSE @]
        BY <2>3 DEF Answer
      <3>3. link' = [[link EXCEPT ![r] = "broken"] EXCEPT ![a] = l]
        BY <1>3, <2>3, <3>1, <3>2
      <3>4. l \in LinkStates
        BY <1>3, <3>1 DEF LinkStates
      <3> HIDE DEF a
      <3>5. /\ link'[a] = l /\ link'[r] = "broken"
            /\ \A q \in Calls : q # r /\ q # a => link'[q] = link[q]
            /\ link' \in [Calls -> LinkStates]
        BY <1>3, <2>3, <3>1, <3>3, <3>4 DEF LinkStates
      <3>6. \A q \in Calls : link'[q] = IF q = r THEN "broken"
                                      ELSE IF q = a THEN l ELSE link[q]
        BY <2>3, <3>1, <3>5
      <3>7. a # r /\ a # None /\ cl.target /\ cl' = Move(cl, "iceConnecting")
        BY <2>3, <3>2
      <3>8. \A q \in Calls : link[q] # "offered" => link'[q] = link[q]
        BY <1>1, <3>6 DEF l
      <3>9. \A q \in Calls : link'[q] \in {link[q], "broken", "answered"}
        BY <3>6 DEF l
      <3>10. \A q \in Calls \ {r} : link'[q] \in {link[q], "broken"}
        BY <3>6 DEF l
      <3>11. link[a] = "offered" => link'[a] # "offered"
        BY <3>5 DEF l
      <3> QED
        BY <3>1, <3>5, <3>7, <3>8, <3>9, <3>10, <3>11
    <2> QED
      BY <2>1, <2>2, <2>3
<1>5. Fit(cl')
    BY <1>2, <1>4, MoveFits DEF States
<1>6. Typed'
    <2>1. asked' \in [Calls -> Ids]
      BY <1>1 DEF IInv, Typed, TypeOK
    <2>2. \A q \in Calls : call[q] # "done" => link'[q] = link[q] /\ asked'[q] = asked[q]
      BY <1>1, <1>3, <1>4
    <2> QED
      BY <1>1, <1>4, <1>5, <2>1, <2>2, TypedLinks DEF IInv
<1>7. ASSUME Quiet' PROVE Sound(Drained)'
    <2>1. Sound(cl)
      BY <1>1, <1>2, <1>7 DEF Quiet
    <2>0. call' = call /\ sig' = sig /\ net' = net /\ asked' = asked
      BY <1>1
    <2>2. Active' = Active /\ (AtBarrier' <=> AtBarrier) /\ (Ready' <=> Ready)
          /\ \A q \in Calls : AtWork(q)' <=> AtWork(q)
      BY <2>0 DEF Active, AtBarrier, AtWork, Ready
    <2>3. CASE cl.host = "signaling" /\ cl.attempt # None /\ cl.target
      <3>1. Live(cl)
        BY <2>1, <2>3 DEF Sound, LiveStates
      <3>2. /\ cl' \in ClientRec /\ cl'.host = "iceConnecting" /\ cl'.target = cl.target
            /\ cl'.intentional = cl.intentional /\ cl'.current = cl.current
            /\ \A b \in Calls : cl'.stage[b] = IF b # cl.attempt THEN cl.stage[b]
                                               ELSE cl.current
            /\ cl'.open = cl.open /\ cl'.attempt = cl.attempt /\ cl'.entry = cl.entry
            /\ cl'.sweep = cl.sweep /\ cl'.ping = cl.ping /\ cl'.busy = cl.busy
            /\ ~cl'.tail
        <4>1. "iceConnecting" \in States \ Resting /\ "iceConnecting" # cl.host
              /\ "iceConnecting" \in NextStates(cl.host)
          BY <1>2, <2>3, Table DEF ClientRec, States, Resting
        <4>2. cl' = Move(cl, "iceConnecting")
          BY <1>4, <2>3
        <4> QED
          BY <1>2, <4>1, <4>2, MoveGoesOn
      <3>3. Drained' = cl'
        BY <3>2 DEF Drained
      <3>4. link'[cl.current] \in {"answered", "broken"}
        <4>1. cl.current \in Calls /\ cl.current = cl.attempt
              /\ link[cl.current] \in {"offered", "broken"}
          BY <2>3, <3>1 DEF Live, LinkOf
        <4> QED
          BY <1>4, <2>3, <4>1
      <3>5. Live(Drained)'
        BY ZenonT(60), <1>1, <2>2, <2>3, <3>1, <3>2, <3>3, <3>4 DEF Live, LinkOf, NoSweep
      <3> QED
        BY <2>0, <2>1, <2>2, <2>3, <3>1, <3>2, <3>3, <3>5, NoneActive
        DEF Sound, Resting, Live
    <2>4. CASE ~(cl.host = "signaling" /\ cl.attempt # None /\ cl.target)
      <3>1. cl' = cl
        <4>1. cl.host # "signaling" => "iceConnecting" \notin NextStates(cl.host)
          BY <1>2, Table DEF ClientRec
        <4> QED
          BY <1>4, <2>4, <4>1, MoveStays
      <3>2. Drained' = cl
        BY <1>2, <3>1 DEF Drained
      <3>3. Waiting(cl) => Waiting(Drained)'
        <4>1. cl.current # None => cl.current \in Calls
          BY <1>2 DEF ClientRec, Ids
        <4> QED
          BY <1>4, <3>1, <3>2, <4>1 DEF Waiting
      <3>4. Live(cl) /\ cl.host \in LiveStates => Live(Drained)'
        <4> SUFFICES ASSUME Live(cl), cl.host \in LiveStates PROVE Live(Drained)'
          OBVIOUS
        <4>1. cl.host # "signaling"
          BY <2>4, CallIds DEF Live
        <4>2. cl.current \in Calls /\ link[cl.current] # "offered"
          BY <4>1 DEF Live, LinkOf, LiveStates
        <4>3. link'[cl.current] = link[cl.current]
          BY <1>4, <4>2
        <4> QED
          BY <1>1, <2>2, <3>1, <3>2, <4>3 DEF Live
      <3>5. \A q \in Calls : Making(cl, q) => Making(Drained, q)'
        BY <1>1, <2>2, <3>1, <3>2 DEF Making, AtWork
      <3> QED
        BY <2>0, <2>1, <2>2, <3>1, <3>2, <3>3, <3>4, <3>5 DEF Sound
    <2> QED
      BY <2>3, <2>4
<1> QED
    BY <1>6, <1>7 DEF IInv

LEMMA LinkUpStep ==
    ASSUME IInv, NEW r \in Calls, LinkUp(r) PROVE IInv'
<1> DEFINE x == [cl EXCEPT !.first = "none"]
           y == Move(x, "authenticating")
<1>1. /\ Event /\ call' = call /\ hears' = hears /\ sig' = sig /\ net' = net
      /\ faults' = faults /\ switches' = switches /\ mixed' = mixed
      /\ unheard' = unheard /\ link[r] = "answered" /\ r \in cl.open
      /\ link' = [link EXCEPT ![r] = "open"]
      /\ IF r = cl.current
         THEN /\ cl' = LoginSent(y)
              /\ asked' = [asked EXCEPT ![r] = IF cl.entry.dc = r THEN cl.attempt
                                               ELSE None]
         ELSE cl' = cl /\ asked' = asked
    BY DEF LinkUp, otherVars
<1>2. cl \in ClientRec /\ ~cl.tail /\ ~cl.retry /\ Fit(cl) /\ (Quiet => Sound(cl))
    BY <1>1, EventFinds
<1>3. /\ x \in ClientRec /\ Fit(x) /\ x.host = cl.host /\ x.busy = cl.busy
      /\ x.target = cl.target /\ x.intentional = cl.intentional
      /\ x.current = cl.current /\ x.ping = cl.ping /\ ~x.tail /\ ~x.retry
      /\ x.open = cl.open /\ x.entry = cl.entry
      /\ x.attempt = cl.attempt /\ x.stage = cl.stage /\ x.sweep = cl.sweep
    BY <1>2 DEF ClientRec, Fit
<1> HIDE DEF x
<1>4. /\ call[r] = "done" /\ link \in [Calls -> LinkStates] /\ asked \in [Calls -> Ids]
    BY <1>1 DEF IInv, Typed, TypeOK
<1>5. /\ link' \in [Calls -> LinkStates] /\ link'[r] = "open"
      /\ \A q \in Calls : q # r => link'[q] = link[q]
    BY <1>1, <1>4 DEF LinkStates
<1>6. /\ asked' \in [Calls -> Ids]
      /\ \A q \in Calls : q # r => asked'[q] = asked[q]
      /\ r = cl.current => asked'[r] = IF cl.entry.dc = r THEN cl.attempt ELSE None
    <2>1. cl.attempt \in Ids /\ None \in Ids
      BY <1>2, CallIds DEF ClientRec
    <2> QED
      BY <1>1, <1>4, <2>1
<1>7. LoginSent(y) = [y EXCEPT !.authFailed = (y.attempt = None)]
    BY DEF LoginSent
<1>8. Fit(cl')
    <2>1. Fit(y)
      BY <1>3, MoveFits DEF States
    <2> HIDE DEF y
    <2>2. CASE r = cl.current
      <3> DEFINE failed == y.attempt = None
      <3>1. cl' = [y EXCEPT !.authFailed = failed] /\ failed \in BOOLEAN
        BY <1>1, <1>7, <2>2
      <3> HIDE DEF failed
      <3> QED
        BY <2>1, <3>1 DEF Fit, ClientRec
    <2> QED
      BY <1>1, <1>2, <2>2
<1>9. Typed'
    BY <1>1, <1>4, <1>5, <1>6, <1>8, TypedLinks DEF IInv
<1>10. ASSUME Quiet' PROVE Sound(Drained)'
    <2>1. Sound(cl)
      BY <1>1, <1>2, <1>10 DEF Quiet
    <2>2. Live(cl) /\ r = cl.current
      BY <1>1, <2>1, Reporting DEF IInv
    <2>3. cl.host = "iceConnecting"
      BY <1>1, <1>2, <2>1, <2>2, Reporting DEF IInv, Live, LinkOf, LiveStates
    <2>4. /\ y \in ClientRec /\ y.host = "authenticating" /\ y.target = x.target
          /\ y.intentional = x.intentional /\ y.current = x.current
          /\ \A b \in Calls : y.stage[b] = IF b # x.attempt THEN x.stage[b]
                                           ELSE x.current
          /\ y.open = x.open /\ y.attempt = x.attempt /\ y.entry = x.entry
          /\ y.sweep = x.sweep /\ y.ping = x.ping /\ y.busy = x.busy /\ y.tail = x.tail
      <3>1. "authenticating" \in States \ Resting /\ "authenticating" # x.host
            /\ "authenticating" \in NextStates(x.host)
        BY <1>3, <2>3, Table DEF States, Resting
      <3> QED
        BY <1>3, <3>1, MoveGoesOn
    <2> HIDE DEF y
    <2>9. \E b \in BOOLEAN : cl' = [y EXCEPT !.authFailed = b]
      BY <1>1, <1>7, <2>2
    <2>5. /\ cl'.host = "authenticating" /\ cl'.target = cl.target
          /\ cl'.intentional = cl.intentional /\ cl'.current = cl.current
          /\ \A b \in Calls : cl'.stage[b] = IF b # cl.attempt THEN cl.stage[b]
                                             ELSE cl.current
          /\ cl'.open = cl.open /\ cl'.attempt = cl.attempt /\ cl'.entry = cl.entry
          /\ cl'.sweep = cl.sweep /\ cl'.ping = cl.ping /\ cl'.busy = cl.busy
          /\ ~cl'.tail
      BY <1>3, <2>4, <2>9 DEF ClientRec
    <2>6. Drained' = cl'
      BY <2>5 DEF Drained
    <2>7. Active' = {} /\ ~AtBarrier' /\ Ready' /\ ~cl.busy /\ ~cl.intentional
      <3>1. Ready' = Ready
        BY <1>1 DEF Ready
      <3> QED
        BY <1>1, <2>1, <2>2, <2>3, <3>1, NoneActive, NoneActiveThen DEF Live, Sound
    <2>8. Live(Drained)'
      <3>1. LinkOf("authenticating") = {"open"}
        BY DEF LinkOf
      <3>2. call[r] = "done" /\ cl.attempt = r /\ cl.open = {r} /\ cl.entry.dc = r
            /\ NoSweep(cl) /\ cl.target /\ ~cl.ping
            /\ \A b \in Calls \ {r} : cl.stage[b] = None
        BY <2>2, <2>3 DEF Live
      <3>3. cl'.stage[r] = r /\ (\A b \in Calls \ {r} : cl'.stage[b] = None)
            /\ NoSweep(cl')
        BY <2>2, <2>5, <3>2 DEF NoSweep
      <3>4. asked'[r] = r
        BY <1>6, <2>2, <3>2
      <3> QED
        <4>1. Drained'.current = r /\ link'[r] \in LinkOf(Drained'.host)
          BY <1>1, <1>5, <2>2, <2>5, <2>6, <3>1
        <4>2. asked'[r] = r /\ call'[r] = "done"
          BY <1>1, <3>2, <3>4
        <4>3. ~Drained'.ping /\ Drained'.host = "authenticating"
          BY <2>5, <2>6, <3>2
        <4>4. NoSweep(Drained)' /\ Drained'.stage[r] = r
              /\ \A b \in Calls \ {r} : Drained'.stage[b] = None
          BY <2>6, <3>3 
        <4>5. Drained'.attempt = r /\ Drained'.open = {r} /\ Drained'.entry.dc = r
              /\ Drained'.target
          BY <2>5, <2>6, <3>2
        <4> QED
          BY <2>7, <4>1, <4>2, <4>3, <4>4, <4>5 DEF Live
    <2> QED
      BY <2>5, <2>6, <2>7, <2>8 DEF Sound, Resting
<1> QED
    BY <1>9, <1>10 DEF IInv

LEMMA AuthSuccessStep ==
    ASSUME IInv, NEW r \in Calls, AuthSuccess(r) PROVE IInv'
<1> DEFINE x == [cl EXCEPT !.authFailed = FALSE]
           y == Move(x, "authenticated")
<1>1. /\ Event /\ call' = call /\ link' = link /\ hears' = hears /\ sig' = sig
      /\ net' = net /\ faults' = faults /\ switches' = switches /\ mixed' = mixed
      /\ unheard' = unheard /\ link[r] = "open" /\ r \in cl.open /\ asked[r] # None
      /\ asked' = [asked EXCEPT ![r] = None]
      /\ cl' = IF asked[r] = cl.attempt THEN [y EXCEPT !.ping = TRUE] ELSE cl
    BY DEF AuthSuccess, Reply, Granted, otherVars
<1>2. cl \in ClientRec /\ ~cl.tail /\ ~cl.retry /\ Fit(cl) /\ (Quiet => Sound(cl))
    BY <1>1, EventFinds
<1>3. /\ x \in ClientRec /\ Fit(x) /\ x.host = cl.host /\ x.busy = cl.busy
      /\ x.target = cl.target /\ x.intentional = cl.intentional
      /\ x.current = cl.current /\ ~x.tail /\ ~x.retry
      /\ x.open = cl.open /\ x.entry = cl.entry
      /\ x.attempt = cl.attempt /\ x.stage = cl.stage /\ x.sweep = cl.sweep
    BY <1>2 DEF ClientRec, Fit
<1> HIDE DEF x
<1>4. /\ call[r] = "done" /\ link \in [Calls -> LinkStates] /\ asked \in [Calls -> Ids]
    BY <1>1 DEF IInv, Typed, TypeOK
<1>5. /\ asked' \in [Calls -> Ids] /\ asked'[r] = None
      /\ \A q \in Calls : q # r => asked'[q] = asked[q]
    BY <1>1, <1>4, CallIds
<1>6. Fit(cl')
    <2>1. Fit(y)
      BY <1>3, MoveFits DEF States
    <2> HIDE DEF y
    <2>2. Fit([y EXCEPT !.ping = TRUE])
      BY <2>1 DEF Fit, ClientRec
    <2> QED
      BY <1>1, <1>2, <2>2
<1>7. Typed'
    BY <1>1, <1>4, <1>5, <1>6, TypedLinks DEF IInv
<1>8. ASSUME Quiet' PROVE Sound(Drained)'
    <2>1. Sound(cl)
      BY <1>1, <1>2, <1>8 DEF Quiet
    <2>2. Live(cl) /\ r = cl.current /\ cl.host = "authenticating" /\ asked[r] = r
          /\ cl.attempt = r
      BY <1>1, <2>1, Reporting DEF IInv, Live
    <2>3. /\ y \in ClientRec /\ y.host = "authenticated" /\ y.target = x.target
          /\ y.intentional = x.intentional /\ y.current = x.current
          /\ \A b \in Calls : y.stage[b] = IF b # x.attempt THEN x.stage[b] ELSE None
          /\ y.open = x.open /\ y.attempt = x.attempt /\ y.entry = x.entry
          /\ y.sweep = x.sweep /\ y.busy = x.busy /\ y.tail = x.tail
      <3>1. "authenticated" \in States \ Resting /\ "authenticated" # x.host
            /\ "authenticated" \in NextStates(x.host)
        BY <1>3, <2>2, Table DEF States, Resting
      <3> QED
        BY <1>3, <3>1, MoveGoesOn
    <2> HIDE DEF y
    <2>4. /\ cl'.host = "authenticated" /\ cl'.target = cl.target
          /\ cl'.intentional = cl.intentional /\ cl'.current = cl.current
          /\ \A b \in Calls : cl'.stage[b] = IF b # cl.attempt THEN cl.stage[b] ELSE None
          /\ cl'.open = cl.open /\ cl'.attempt = cl.attempt /\ cl'.entry = cl.entry
          /\ cl'.sweep = cl.sweep /\ cl'.ping /\ cl'.busy = cl.busy /\ ~cl'.tail
      BY <1>1, <1>3, <2>2, <2>3 DEF ClientRec
    <2>5. Drained' = cl'
      BY <2>4 DEF Drained
    <2>6. Active' = {} /\ ~AtBarrier' /\ Ready' /\ ~cl.busy /\ ~cl.intentional
      <3>1. Ready' = Ready
        BY <1>1 DEF Ready
      <3> QED
        BY <1>1, <2>1, <2>2, <3>1, NoneActive, NoneActiveThen DEF Live, Sound
    <2>7. Live(Drained)'
      <3>1. LinkOf("authenticated") = {"open"}
        BY DEF LinkOf
      <3>2. call[r] = "done" /\ cl.attempt = r /\ cl.open = {r} /\ cl.entry.dc = r
            /\ NoSweep(cl) /\ cl.target
            /\ \A b \in Calls \ {r} : cl.stage[b] = None
        BY <2>2 DEF Live
      <3>3. cl'.stage[r] = None /\ (\A b \in Calls \ {r} : cl'.stage[b] = None)
            /\ NoSweep(cl')
        BY <1>3, <2>2, <2>4, <3>2 DEF NoSweep
      <3> QED
        <4>1. Drained'.current = r /\ link'[r] \in LinkOf(Drained'.host)
          BY <1>1, <2>2, <2>4, <2>5, <3>1
        <4>2. asked'[r] = None /\ call'[r] = "done"
          BY <1>1, <1>5, <3>2
        <4>3. Drained'.ping <=> Drained'.host = "authenticated"
          BY <2>4, <2>5
        <4>4. NoSweep(Drained)' /\ Drained'.stage[r] = None
              /\ \A b \in Calls \ {r} : Drained'.stage[b] = None
          BY <2>5, <3>3 
        <4>5. Drained'.attempt = r /\ Drained'.open = {r} /\ Drained'.entry.dc = r
              /\ Drained'.target
          BY <2>4, <2>5, <3>2
        <4> QED
          BY <2>4, <2>5, <2>6, <4>1, <4>2, <4>3, <4>4, <4>5 DEF Live
    <2> QED
      BY <2>4, <2>5, <2>6, <2>7 DEF Sound, Resting
<1> QED
    BY <1>7, <1>8 DEF IInv

-----------------------------------------------------------------------------
(* The cleanup of the entry goes on *)

\* A cleanup runs only where the client rests, and whatever it takes away leaves
\* the rest bare.
LEMMA Sweeping ==
    ASSUME IInv, Event, ~NoSweep(cl), UNCHANGED callVars, sig' = sig, net' = net,
           faults' = faults, switches' = switches, mixed' = mixed, unheard' = unheard,
           cl' \in ClientRec, ~cl'.tail, ~cl'.retry,
           cl'.host = cl.host, cl'.target = cl.target, cl'.current = cl.current,
           cl'.intentional = cl.intentional, cl'.busy = cl.busy, cl'.ping = cl.ping,
           cl'.first = cl.first, cl'.attempt = cl.attempt, cl'.stage = cl.stage,
           cl'.open \subseteq cl.open,
           Swept(cl) => Swept(cl')
    PROVE  IInv'
<1>1. cl \in ClientRec /\ ~cl.tail /\ (Quiet => Sound(cl))
    BY EventFinds
<1>2. Typed'
    BY TypedKeeps DEF IInv, Typed, TypeOK, Signalings, Fit
<1>3. ASSUME Quiet' PROVE Sound(Drained)'
    <2>1. Sound(cl) /\ Drained' = cl'
      BY <1>1, <1>3 DEF Quiet, Drained
    <2>0. call' = call /\ link' = link
      BY DEF callVars, linkVars
    <2>2. Active' = Active /\ (AtBarrier' <=> AtBarrier)
          /\ \A q \in Calls : AtWork(q)' <=> AtWork(q)
      BY <2>0 DEF Active, AtBarrier, AtWork
    <2>3. cl.host \in Resting
      BY <1>1, <2>1, StateSets DEF Sound, Making, Live, ClientRec
    <2>4. Bare(cl')
      BY <2>1, <2>3 DEF Sound, Bare
    <2>5. Waiting(cl) => Waiting(cl)'
      BY <2>0 DEF Waiting
    <2>6. cl'.host \notin LiveStates /\ cl'.host # "connecting"
      BY <2>3, StateSets
    <2> QED
      BY <2>1, <2>2, <2>3, <2>4, <2>5, <2>6 DEF Sound
<1> QED
    BY <1>2, <1>3 DEF IInv

LEMMA SweepChannelsStep ==
    ASSUME IInv, SweepChannels PROVE IInv'
<1> DEFINE entry == [cl.entry EXCEPT !.dc = None]
           pc == IF cl.entry.pc = None THEN cl.sweep.pc ELSE cl.sweep.pc + 1
           less == [cl.sweep EXCEPT !.channels = cl.sweep.channels - 1]
           sweep == [less EXCEPT !.pc = pc]
           open == cl.open \ {cl.entry.pc}
           x == [cl EXCEPT !.sweep = sweep, !.entry = entry, !.open = open]
<1>1. /\ Event /\ cl.sweep.channels > 0 /\ UNCHANGED callVars /\ sig' = sig
      /\ net' = net /\ faults' = faults /\ switches' = switches
      /\ mixed' = mixed /\ unheard' = unheard
    BY DEF SweepChannels, otherVars
<1>2. cl \in ClientRec /\ ~cl.tail /\ ~cl.retry
    BY <1>1, EventFinds
<1>3. cl.sweep \in Sweep /\ cl.entry \in Entry
    BY <1>2 DEF ClientRec
<1>4. cl' = x
    <2> HIDE DEF pc
    <2>1. sweep = [cl.sweep EXCEPT !.channels = cl.sweep.channels - 1, !.pc = pc]
      OBVIOUS
    <2>2. cl' = [cl EXCEPT !.sweep = [cl.sweep EXCEPT !.channels = cl.sweep.channels - 1,
                                                      !.pc = pc],
                           !.entry = [cl.entry EXCEPT !.dc = None],
                           !.open = cl.open \ {cl.entry.pc}]
      BY <1>2 DEF SweepChannels, ClientRec, Entry, Sweep, pc
    <2> QED
      BY <2>1, <2>2
<1>5. /\ entry \in Entry /\ entry.dc = None /\ entry.pc = cl.entry.pc
      /\ open \subseteq cl.open
    BY <1>1, <1>3, CallIds DEF Entry
<1>9. pc \in Nat /\ (cl.entry.pc # None => pc > 0)
    BY <1>3 DEF Sweep
<1> HIDE DEF pc
<1>10. less \in Sweep
    BY <1>1, <1>3 DEF Sweep
<1> HIDE DEF less
<1>11. sweep \in Sweep /\ sweep.pc = pc
    BY <1>9, <1>10 DEF Sweep
<1> HIDE DEF entry, sweep, open
<1>6. /\ x \in ClientRec /\ ~x.tail /\ ~x.retry
      /\ x.host = cl.host /\ x.target = cl.target /\ x.current = cl.current
      /\ x.intentional = cl.intentional /\ x.busy = cl.busy /\ x.ping = cl.ping
      /\ x.first = cl.first /\ x.attempt = cl.attempt /\ x.stage = cl.stage
      /\ x.open = open /\ x.entry = entry /\ x.sweep = sweep
    BY <1>2, <1>5, <1>11 DEF ClientRec
<1> HIDE DEF x
<1>7. Swept(x)
    BY <1>5, <1>6, <1>9, <1>11 DEF Swept
<1>8. ~NoSweep(cl)
    BY <1>1 DEF NoSweep
<1> QED
    BY <1>1, <1>4, <1>5, <1>6, <1>7, <1>8, Sweeping

LEMMA SweepConnectionStep ==
    ASSUME IInv, SweepConnection PROVE IInv'
<1> DEFINE entry == [cl.entry EXCEPT !.pc = None]
           sweep == [channels |-> cl.sweep.channels, pc |-> cl.sweep.pc - 1]
           open == cl.open \ {cl.entry.pc}
           x == [cl EXCEPT !.sweep = sweep, !.entry = entry, !.open = open]
<1>1. /\ Event /\ cl.sweep.pc > 0 /\ UNCHANGED callVars /\ sig' = sig
      /\ net' = net /\ faults' = faults /\ switches' = switches
      /\ mixed' = mixed /\ unheard' = unheard
    BY DEF SweepConnection, otherVars
<1>2. cl \in ClientRec /\ ~cl.tail /\ ~cl.retry
    BY <1>1, EventFinds
<1>3. cl.sweep \in Sweep /\ cl.entry \in Entry
    BY <1>2 DEF ClientRec
<1>4. cl' = x
    <2>1. sweep = [cl.sweep EXCEPT !.pc = @ - 1]
      BY <1>3 DEF Sweep
    <2>2. cl' = [cl EXCEPT !.sweep = [cl.sweep EXCEPT !.pc = @ - 1],
                           !.entry = [cl.entry EXCEPT !.pc = None],
                           !.open = cl.open \ {cl.entry.pc}]
      BY <1>2 DEF SweepConnection, ClientRec, Entry, Sweep
    <2> QED
      BY <2>1, <2>2
<1>5. /\ entry \in Entry /\ entry.dc = cl.entry.dc /\ entry.pc = None
      /\ sweep \in Sweep /\ sweep.channels = cl.sweep.channels
      /\ open \subseteq cl.open
    BY <1>1, <1>3, CallIds DEF Entry, Sweep
<1> HIDE DEF entry, sweep, open
<1>6. /\ x \in ClientRec /\ ~x.tail /\ ~x.retry
      /\ x.host = cl.host /\ x.target = cl.target /\ x.current = cl.current
      /\ x.intentional = cl.intentional /\ x.busy = cl.busy /\ x.ping = cl.ping
      /\ x.first = cl.first /\ x.attempt = cl.attempt /\ x.stage = cl.stage
      /\ x.open = open /\ x.entry = entry /\ x.sweep = sweep
    BY <1>2, <1>5 DEF ClientRec
<1> HIDE DEF x
<1>7. Swept(cl) => Swept(x)
    BY <1>5, <1>6 DEF Swept
<1>8. ~NoSweep(cl)
    BY <1>1 DEF NoSweep
<1> QED
    BY <1>1, <1>4, <1>5, <1>6, <1>7, <1>8, Sweeping

-----------------------------------------------------------------------------
(* The invariant, and what it is for *)

LEMMA StepHolds ==
    ASSUME IInv, [Next]_vars PROVE IInv'
<1>1. CASE Drain
    BY <1>1, DrainStep
<1>2. CASE Dial \/ Registered \/ Refused \/ SocketLost \/ NetworkChange
    BY <1>2, OutsideStep
<1>3. CASE SignalingError
    BY <1>3, SignalingErrorStep
<1>4. ASSUME NEW r \in Calls,
             \/ Connect(r) \/ CallStep(r) \/ LibraryFails(r)
             \/ Answer(r) \/ LinkUp(r) \/ AuthSuccess(r) \/ AuthFailed(r)
             \/ LinkFails(r) \/ ChannelCloses(r)
             \/ StageTimeout(r) \/ SwitchReady(r)
      PROVE  IInv'
    BY <1>4, ConnectStep, PassBarrierStep, MissBarrierStep, CreatedStep, SetUpStep,
       LibraryFailsStep, AnswerStep, LinkUpStep, AuthSuccessStep, AuthFailedStep,
       LinkFailsStep, ChannelClosesStep, StageTimeoutStep, SwitchReadyStep
    DEF CallStep
<1>5. CASE SweepChannels
    BY <1>5, SweepChannelsStep
<1>6. CASE SweepConnection
    BY <1>6, SweepConnectionStep
<1>7. CASE PongLost
    BY <1>7, PongLostStep
<1>8. CASE Age
    BY <1>8, AgeStep
<1>9. CASE Disconnect
    BY <1>9, DisconnectStep
<1>10. CASE Switch
    BY <1>10, SwitchStep
<1>11. CASE SwitchFails
    BY <1>11, SwitchFailsStep
<1>12. CASE UNCHANGED vars
    <2>1. /\ cl' = cl /\ call' = call /\ link' = link /\ hears' = hears
          /\ asked' = asked /\ sig' = sig /\ net' = net /\ faults' = faults
          /\ switches' = switches /\ mixed' = mixed /\ unheard' = unheard
      BY <1>12 DEF vars
    <2>2. Typed'
      BY <2>1 DEF IInv, Typed, TypeOK
    <2>3. Quiet' => Sound(Drained)'
      BY <2>1, Unmoved DEF IInv, Quiet, Drained, Ready
    <2> QED
      BY <2>2, <2>3 DEF IInv
<1> QED
    BY <1>1, <1>2, <1>3, <1>4, <1>5, <1>6, <1>7, <1>8, <1>9, <1>10, <1>11, <1>12
    DEF Next

LEMMA Invariance == Spec => []IInv
BY InitHolds, StepHolds, PTL DEF Spec

\* The timer that _handleStateEffects arms for a retry is cancelled by the cleanup
\* before any event: the model needs no action for its firing.
LEMMA RetryDisarmed == Spec => [](Event => ~cl.retry)
<1>1. IInv => (Event => ~cl.retry)
    BY EventFinds
<1> QED
    BY <1>1, Invariance, PTL

\* The types hold.
THEOREM TypeCorrect == Spec => []TypeOK
<1>1. IInv => TypeOK
    BY DEF IInv, Typed
<1> QED
    BY <1>1, Invariance, PTL

\* While an undisturbed client is on its way to a host, a call that leads it
\* there is still running, or the current attempt has a timer of the current
\* generation: no stage of _transitionTo is left without its escape timeout.
THEOREM StagesTimeOut == Spec => []EscapeTimer
<1>1. IInv => EscapeTimer
    <2> SUFFICES ASSUME IInv, Quiet, Event, cl.host \in Trying, Active = {}
                 PROVE  cl.attempt # None /\ cl.stage[cl.attempt] = cl.current
      BY DEF EscapeTimer
    <2>1. Sound(cl)
      BY EventFinds
    <2>2. cl.host # "connecting"
      BY <2>1, NoneActive DEF Sound, Making
    <2>3. Live(cl) /\ cl.host # "authenticated"
      BY <2>1, <2>2, StateSets DEF Sound
    <2> QED
      BY <2>3, CallIds DEF Live
<1> QED
    BY <1>1, Invariance, PTL

\* When an undisturbed attempt has ended, by whichever way, and no call runs, no
\* peer connection is open, no attempt and no heartbeat is left, and the mark of
\* a connect under way is gone (_clearHostConnections and what goes round it).
THEOREM AttemptsAreCleaned == Spec => []NothingLeft
<1>1. IInv => NothingLeft
    BY EventFinds, NoneActive DEF NothingLeft, Sound, Bare
<1> QED
    BY <1>1, Invariance, PTL

\* After disconnect the undisturbed client stays disconnected, with no attempt
\* and no connection, until the user connects again.
THEOREM DisconnectIsKept == Spec => []DisconnectHolds
<1>1. IInv => DisconnectHolds
    BY EventFinds DEF DisconnectHolds, Sound, Bare, Resting
<1> QED
    BY <1>1, Invariance, PTL

\* An authenticated, undisturbed client is served by one attempt: its connection
\* is open, the host's entry sends over its channels, and the heartbeat runs.
THEOREM SessionsAreWhole == Spec => []AuthenticatedIsLive
<1>1. IInv => AuthenticatedIsLive
    BY EventFinds DEF AuthenticatedIsLive, Sound, Live, LiveStates
<1> QED
    BY <1>1, Invariance, PTL

=============================================================================
