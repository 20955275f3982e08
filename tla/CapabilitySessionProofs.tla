------------------------ MODULE CapabilitySessionProofs ------------------------
(***************************************************************************)
(* Theorems about the client's capability sessions, for any number of them *)
(* and whatever fails.                                                     *)
(***************************************************************************)
EXTENDS CapabilitySession, QueueLemmas, FiniteSetTheorems

-----------------------------------------------------------------------------
(* The inductive invariant, part by part *)

Peers == [st : States, mapped : BOOLEAN, made : Nat, cached : BOOLEAN,
          open : SUBSET Conns, conn : Conns, remote : BOOLEAN, buf : Nat,
          task : {"none", "await", "use"}, disposing : BOOLEAN, closes : Conns,
          q : Seq(Signals)]
Controllers == [pc : {"idle", "stopping", "rendering"}, cur : Sess \cup {NoSess},
                old : Sess \cup {NoSess}, ready : BOOLEAN, gone : BOOLEAN]
Commands == [k : {"activate", "deactivate", "signal"}, s : Sess]
Notices  == [k : Signals \cup {"active", "failed", "closed", "lost"},
             s : Sess \cup {NoSess}]
Reports  == [k : Signals \cup {"active", "closed"}, s : Sess]
Tasks    == [act : {"none", "spawned", "offered", "done"},
             close : {"none", "spawned", "done"}, cand : BOOLEAN]

\* The type invariant, and what a notice is about.
Typed ==
    /\ ctl \in Controllers /\ ps \in [Sess -> Peers]
    /\ link \in {"up", "down", "swept"} /\ seen \in BOOLEAN /\ nodeUp \in BOOLEAN
    /\ hostSess \in [Sess -> Statuses] /\ node \in [Sess -> Tasks]
    /\ up \in Seq(Commands) /\ down \in Seq(Notices)
    /\ toNode \in Seq(Commands) /\ fromNode \in Seq(Reports)
    /\ silent \subseteq Sess
    /\ \A m \in Items(down) : m.k # "lost" => m.s \in Sess

\* A signal is processed while it is at the head of its queue, and what was early
\* has been added once there is a description.
Queued ==
    \A s \in Sess :
        /\ ps[s].task # "none" => ps[s].q # <<>>
        /\ ps[s].remote => ps[s].buf = 0

\* Nothing is anywhere about a session before it is requested, and nothing at the
\* node or on its way there and back before the host has it.
Born ==
    /\ \A s \in Sess :
        /\ ps[s].st = "idle" => ps[s] = Fresh
        /\ hostSess[s] # "none" => ps[s].st # "idle"
        /\ node[s].act # "none" \/ node[s].close # "none" => hostSess[s] # "none"
    /\ \A m \in Items(up) : ps[m.s].st # "idle"
    /\ \A m \in Items(toNode) \cup Items(fromNode) : hostSess[m.s] # "none"

\* A node that is gone has no messages, and no session that is not closed.
Lost ==
    ~nodeUp => /\ toNode = <<>> /\ fromNode = <<>>
               /\ \A s \in Sess : hostSess[s] \in {"none", "Closed"}

\* While the controller stops a session or makes its renderer ready it has none.
Screen ==
    /\ ctl.pc # "idle" => ctl.cur = NoSess
    /\ OneShown

\* ClientIsTold, with the queues seen as sets.
In(q, ks, s) == \E m \in Items(q) : m.k \in ks /\ m.s = s
Told ==
    \A s \in Sess \ silent : (ps[s].mapped /\ link = "up") =>
        /\ ps[s].st = "requesting" =>
            \/ In(up, {"activate"}, s) \/ In(toNode, {"activate"}, s)
            \/ node[s].act \in {"spawned", "offered"}
            \/ In(fromNode, Words, s) \/ In(down, Words, s)
        /\ hostSess[s] = "Closed" => In(down, {"closed"}, s)

IInv == Typed /\ Queued /\ Born /\ Lost /\ Screen /\ Told

-----------------------------------------------------------------------------
(* What the operators of the model do *)

LEMMA SessIds == NoSess \notin Sess
BY DEF NoSess, Sess

LEMMA TypedDef == Typed /\ Queued => TypeOK
BY DEF Typed, Queued, TypeOK, Peers, Controllers, Commands, Notices, Reports, Tasks

LEMMA FreshTyped ==
    /\ Fresh \in Peers /\ Fresh.st = "idle" /\ ~Fresh.mapped /\ ~Fresh.disposing
    /\ Fresh.task = "none" /\ ~Fresh.remote /\ Fresh.q = <<>>
BY DEF Fresh, Peers, States, Conns, NoConn

LEMMA CreatedTyped ==
    /\ Created \in Peers /\ Created.st = "requesting" /\ Created.mapped
    /\ Created.task = "none" /\ ~Created.remote
BY FreshTyped DEF Created, Peers, States

LEMMA ToHostEffect ==
    ASSUME Typed, NEW m \in Commands, ToHost(m)
    PROVE  /\ up' \in Seq(Commands) /\ Items(up) \subseteq Items(up')
           /\ Items(up') \subseteq Items(up) \cup {m}
           /\ link = "up" => m \in Items(up')
BY ItemsAppend DEF Typed, ToHost

LEMMA ToClientEffect ==
    ASSUME Typed, NEW m \in Notices, ToClient(m)
    PROVE  /\ down' \in Seq(Notices) /\ Items(down) \subseteq Items(down')
           /\ Items(down') \subseteq Items(down) \cup {m}
           /\ link = "up" => m \in Items(down')
BY ItemsAppend DEF Typed, ToClient

LEMMA ToHostOfEffect ==
    ASSUME Typed, NEW m \in Reports, ToHostOf(m)
    PROVE  /\ fromNode' \in Seq(Reports) /\ Items(fromNode) \subseteq Items(fromNode')
           /\ Items(fromNode') \subseteq Items(fromNode) \cup {m}
           /\ nodeUp => m \in Items(fromNode')
           /\ ~nodeUp => fromNode' = fromNode
BY ItemsAppend DEF Typed, ToHostOf

\* Whatever its order, the registry's list has each of its sessions.
LEMMA EachKnownEffect ==
    ASSUME NEW k, NEW ms \in EachKnown(k), NEW S,
           \A s \in Known : M(k, s) \in S
    PROVE  ms \in Seq(S) /\ Items(ms) = {M(k, s) : s \in Known}
<1> DEFINE n == Cardinality(Known)
<1>1. n \in Nat
    <2>1. IsFiniteSet(Sess) /\ Known \subseteq Sess
      BY SessionAssumption, FS_Interval DEF Sess, Known
    <2> QED
      BY <2>1, FS_Subset, FS_CardinalityType
<1>2. PICK order \in Bijection(1 .. n, Known) : ms = [i \in 1 .. n |-> M(k, order[i])]
    BY DEF EachKnown
<1> HIDE DEF n
<1>3. /\ order \in [1 .. n -> Known]
      /\ \A s \in Known : \E i \in 1 .. n : order[i] = s
    BY <1>2 DEF Bijection, Injection, Surjection
<1>4. ms \in [1 .. n -> S] /\ \A i \in 1 .. n : ms[i] = M(k, order[i])
    BY <1>2, <1>3
<1>5. ms \in Seq(S) /\ Len(ms) = n
    BY <1>1, <1>4
<1> QED
    BY <1>3, <1>4, <1>5 DEF Items

-----------------------------------------------------------------------------
(* The initial states *)

LEMMA InitHolds == Init => IInv
<1> SUFFICES ASSUME Init PROVE IInv
    OBVIOUS
<1>1. Items(up) = {} /\ Items(down) = {} /\ Items(toNode) = {} /\ Items(fromNode) = {}
    BY DEF Init, Items
<1>2. Typed
    <2>1. ctl \in Controllers /\ node \in [Sess -> Tasks] /\ hostSess \in [Sess -> Statuses]
      BY DEF Init, Controllers, Tasks, Statuses
    <2>2. ps \in [Sess -> Peers]
      BY FreshTyped DEF Init
    <2> QED
      BY <1>1, <2>1, <2>2 DEF Init, Typed
<1>3. Queued /\ Born /\ Screen /\ Told
    BY <1>1, FreshTyped DEF Init, Queued, Born, Screen, OneShown, Told
<1>4. Lost
    BY DEF Init, Lost
<1> QED
    BY <1>2, <1>3, <1>4 DEF IInv

-----------------------------------------------------------------------------
(* The steps of the screen and of its sessions *)

\* One session changes at the client, and perhaps something is sent about it.
\* The rest of the invariant is kept if the session was requested before, and
\* does not come to be mapped, or to wait for its request.
LEMMA SessionKeeps ==
    ASSUME IInv, NEW s \in Sess, NEW p \in Peers, ps' = [ps EXCEPT ![s] = p],
           p.st # "idle", p.task # "none" => p.q # <<>>, p.remote => p.buf = 0,
           hostSess[s] # "none" \/ node[s].act # "none" \/ ps[s].st # "idle"
              => /\ p.mapped => ps[s].mapped
                 /\ p.st = "requesting" => ps[s].st = "requesting",
           ps[s].st = "idle" /\ p.st = "requesting" /\ link = "up"
              => In(up', {"activate"}, s),
           up' \in Seq(Commands), Items(up) \subseteq Items(up'),
           \A m \in Items(up') : m \in Items(up) \/ m.s = s,
           UNCHANGED <<link, down, hostSess, nodeUp, toNode, fromNode, node, silent>>
    PROVE  ps' \in [Sess -> Peers] /\ Queued' /\ Born' /\ Lost' /\ Told'
<1>1. /\ ps' \in [Sess -> Peers] /\ ps'[s] = p
      /\ \A r \in Sess : r # s => ps'[r] = ps[r]
    BY DEF IInv, Typed
<1>2. Queued'
    BY <1>1 DEF IInv, Queued
<1>3. Born'
    <2>1. \A r \in Sess : ps[r].st # "idle" => ps'[r].st # "idle"
      BY <1>1
    <2>2. \A m \in Items(up) : m.s \in Sess /\ ps[m.s].st # "idle"
      <3>1. Items(up) \subseteq Commands
        BY DEF Items, IInv, Typed
      <3> QED
        BY <3>1 DEF Commands, IInv, Born
    <2>3. \A m \in Items(up') : ps'[m.s].st # "idle"
      BY <1>1, <2>1, <2>2
    <2> QED
      BY <1>1, <2>1, <2>3 DEF IInv, Born
<1>4. Lost'
    BY DEF IInv, Lost
<1>5. Told'
    <2> SUFFICES ASSUME NEW r \in Sess \ silent, ps'[r].mapped, link = "up"
                 PROVE  /\ ps'[r].st = "requesting" =>
                            \/ In(up', {"activate"}, r) \/ In(toNode, {"activate"}, r)
                            \/ node[r].act \in {"spawned", "offered"}
                            \/ In(fromNode, Words, r) \/ In(down, Words, r)
                        /\ hostSess[r] = "Closed" => In(down, {"closed"}, r)
      BY DEF Told
    <2>1. In(up, {"activate"}, r) => In(up', {"activate"}, r)
      BY DEF In
    <2>2. CASE r # s
      BY <1>1, <2>1, <2>2 DEF IInv, Told
    <2>3. CASE r = s /\ ps[s].st # "idle"
      BY <1>1, <2>1, <2>3 DEF IInv, Told
    <2>4. CASE r = s /\ ps[s].st = "idle"
      <3>1. hostSess[s] = "none"
        BY <2>4 DEF IInv, Born
      <3> QED
        BY <1>1, <2>4, <3>1
    <2> QED
      BY <2>2, <2>3, <2>4
<1> QED
    BY <1>1, <1>2, <1>3, <1>4, <1>5

\* A session that goes on without the controller.
LEMMA SessionStep ==
    ASSUME IInv, NEW s \in Sess, NEW p \in Peers, ps' = [ps EXCEPT ![s] = p],
           ps[s].st # "idle", p.st \notin {"idle", "requesting"} \/ p.st = ps[s].st,
           p.mapped => ps[s].mapped,
           p.mapped /\ ~p.disposing => ~ps[s].disposing,
           p.task # "none" => p.q # <<>>, p.remote => p.buf = 0,
           UNCHANGED uiOnly,
           up' = up \/ ToHost(M("signal", s))
    PROVE  IInv'
<1>1. UNCHANGED <<ctl, link, seen, down, hostSess, nodeUp, toNode, fromNode, node, silent>>
    BY DEF uiOnly, hostVars, nodeVars
<1>2. /\ up' \in Seq(Commands) /\ Items(up) \subseteq Items(up')
      /\ \A m \in Items(up') : m \in Items(up) \/ m.s = s
    <2>1. M("signal", s) \in Commands /\ M("signal", s).s = s
      BY DEF M, Commands
    <2>2. CASE up' = up
      BY <2>2 DEF IInv, Typed
    <2>3. CASE ToHost(M("signal", s))
      BY <2>1, <2>3, ToHostEffect DEF IInv
    <2> QED
      BY <2>2, <2>3
<1>3. ps' \in [Sess -> Peers] /\ Queued' /\ Born' /\ Lost' /\ Told'
    BY <1>1, <1>2, SessionKeeps
<1>4. Typed'
    BY <1>1, <1>2, <1>3 DEF IInv, Typed
<1>5. Screen'
    <2>1. \A r \in Sess : ps'[r].mapped /\ ~ps'[r].disposing
                             => ps[r].mapped /\ ~ps[r].disposing
      BY DEF IInv, Typed
    <2> QED
      BY <1>1, <2>1 DEF IInv, Screen, OneShown
<1> QED
    BY <1>3, <1>4, <1>5 DEF IInv

\* A session that something has happened to was requested.
LEMMA Requested ==
    ASSUME IInv, NEW s \in Sess,
           \/ ps[s].disposing \/ ps[s].mapped \/ ps[s].remote
           \/ ps[s].q # <<>> \/ ps[s].task # "none"
    PROVE  ps[s].st # "idle"
BY FreshTyped DEF IInv, Born

LEMMA EndDisposeStep ==
    ASSUME IInv, NEW s \in Sess, EndDispose(s) PROVE IInv'
<1> DEFINE p == [ps[s] EXCEPT !.disposing = FALSE, !.mapped = FALSE, !.st = "closed",
                              !.open = ps[s].open \ {ps[s].closes}, !.conn = NoConn,
                              !.cached = FALSE, !.closes = NoConn]
<1>1. /\ ps[s].disposing /\ ps' = [ps EXCEPT ![s] = p]
      /\ UNCHANGED uiOnly /\ up' = up
    BY DEF EndDispose, uiOnly
<1>2. ps[s] \in Peers /\ ps[s].st # "idle"
    BY <1>1, Requested DEF IInv, Typed
<1>3. /\ p \in Peers /\ p.st = "closed" /\ ~p.mapped /\ p.task = ps[s].task
      /\ p.q = ps[s].q /\ p.remote = ps[s].remote /\ p.buf = ps[s].buf
    BY <1>2 DEF Peers, States, Conns, NoConn
<1> HIDE DEF p
<1> QED
    BY <1>1, <1>2, <1>3, SessionStep DEF IInv, Queued

LEMMA TakeSignalStep ==
    ASSUME IInv, NEW s \in Sess, TakeSignal(s) PROVE IInv'
<1> DEFINE b == ps[s]
           st == IF Head(b.q) = "offer" THEN "connecting" ELSE b.st
           task == IF b.cached THEN "use" ELSE "await"
           made == IF b.cached THEN b.made ELSE b.made + 1
           p == [b EXCEPT !.st = st, !.task = task, !.made = made, !.cached = TRUE]
<1>1. /\ b.q # <<>> /\ ps' = [ps EXCEPT ![s] = p] /\ UNCHANGED uiOnly /\ up' = up
    BY DEF TakeSignal
<1>2. b \in Peers /\ b.st # "idle"
    BY <1>1, Requested DEF IInv, Typed
<1>3. st \in States /\ st \in {"connecting", b.st} /\ made \in Nat
      /\ task \in {"use", "await"}
    BY <1>2 DEF Peers, States
<1> HIDE DEF st, task, made
<1>4. /\ p \in Peers /\ p.st \in {"connecting", b.st} /\ p.mapped = b.mapped
      /\ p.disposing = b.disposing /\ p.q = b.q /\ p.remote = b.remote /\ p.buf = b.buf
    BY <1>2, <1>3 DEF Peers
<1> HIDE DEF p
<1> QED
    BY <1>1, <1>2, <1>4, SessionStep DEF IInv, Queued

LEMMA PeerConnectionStep ==
    ASSUME IInv, NEW s \in Sess, PeerConnection(s) PROVE IInv'
<1> DEFINE b == ps[s]
           p == [b EXCEPT !.task = "use", !.conn = b.made,
                          !.open = b.open \cup {b.made}]
<1>1. /\ b.task = "await" /\ ps' = [ps EXCEPT ![s] = p] /\ UNCHANGED uiOnly /\ up' = up
    BY DEF PeerConnection
<1>2. b \in Peers /\ b.st # "idle"
    BY <1>1, Requested DEF IInv, Typed
<1>3. /\ p \in Peers /\ p.st = b.st /\ p.mapped = b.mapped
      /\ p.disposing = b.disposing /\ p.q = b.q /\ p.remote = b.remote /\ p.buf = b.buf
    BY <1>2 DEF Peers, Conns
<1> HIDE DEF p
<1> QED
    BY <1>1, <1>2, <1>3, SessionStep DEF IInv, Queued

\* The head of the queue is done with; what was early is added with a description.
LEMMA HandleOfferStep ==
    ASSUME IInv, NEW s \in Sess, HandleOffer(s) PROVE IInv'
<1> DEFINE b == ps[s]
           t == Tail(b.q)
           done == [b EXCEPT !.task = "none", !.q = t, !.remote = TRUE, !.buf = 0]
           failed == [b EXCEPT !.task = "none", !.q = t, !.st = "failed"]
<1>1. /\ b.task = "use" /\ UNCHANGED uiOnly
      /\ \/ ps' = [ps EXCEPT ![s] = done] /\ ToHost(M("signal", s))
         \/ ps' = [ps EXCEPT ![s] = failed] /\ up' = up
    BY DEF HandleOffer, Negotiated
<1>2. b \in Peers /\ b.st # "idle" /\ b.q # <<>> /\ (b.remote => b.buf = 0)
    BY <1>1, Requested DEF IInv, Typed, Queued
<1>3. t \in Seq(Signals)
    BY <1>2 DEF Peers
<1> HIDE DEF t
<1>4. /\ done \in Peers /\ done.st = b.st /\ done.mapped = b.mapped
      /\ done.disposing = b.disposing /\ done.task = "none" /\ done.buf = 0
    BY <1>2, <1>3 DEF Peers
<1>5. /\ failed \in Peers /\ failed.st = "failed" /\ failed.mapped = b.mapped
      /\ failed.disposing = b.disposing /\ failed.task = "none"
      /\ failed.remote = b.remote /\ failed.buf = b.buf
    BY <1>2, <1>3 DEF Peers, States
<1> HIDE DEF done, failed
<1> QED
    BY <1>1, <1>2, <1>4, <1>5, SessionStep

LEMMA HandleCandidateStep ==
    ASSUME IInv, NEW s \in Sess, HandleCandidate(s) PROVE IInv'
<1> DEFINE b == ps[s]
           t == Tail(b.q)
           n == IF b.remote THEN b.buf ELSE b.buf + 1
           p == [b EXCEPT !.task = "none", !.q = t, !.buf = n]
<1>1. b.task = "use" /\ UNCHANGED uiOnly /\ ps' = [ps EXCEPT ![s] = p] /\ up' = up
    BY DEF HandleCandidate
<1>2. b \in Peers /\ b.st # "idle" /\ b.q # <<>> /\ (b.remote => b.buf = 0)
    BY <1>1, Requested DEF IInv, Typed, Queued
<1>3. t \in Seq(Signals) /\ n \in Nat /\ (b.remote => n = b.buf)
    BY <1>2 DEF Peers
<1> HIDE DEF t, n
<1>4. /\ p \in Peers /\ p.st = b.st /\ p.mapped = b.mapped /\ p.disposing = b.disposing
      /\ p.task = "none" /\ p.remote = b.remote /\ (b.remote => p.buf = b.buf)
    BY <1>2, <1>3 DEF Peers
<1> HIDE DEF p
<1> QED
    BY <1>1, <1>2, <1>4, SessionStep

LEMMA ConnectionFailsStep ==
    ASSUME IInv, NEW s \in Sess, ConnectionFails(s) PROVE IInv'
<1> DEFINE b == ps[s]
           p == [b EXCEPT !.st = "failed"]
<1>1. b.remote /\ UNCHANGED uiOnly /\ ps' = [ps EXCEPT ![s] = p] /\ up' = up
    BY DEF ConnectionFails
<1>2. b \in Peers /\ b.st # "idle"
    BY <1>1, Requested DEF IInv, Typed
<1>3. /\ p \in Peers /\ p.st = "failed" /\ p.mapped = b.mapped /\ p.task = b.task
      /\ p.disposing = b.disposing /\ p.q = b.q /\ p.remote = b.remote /\ p.buf = b.buf
    BY <1>2 DEF Peers, States
<1> HIDE DEF p
<1> QED
    BY <1>1, <1>2, <1>3, SessionStep DEF IInv, Queued

-----------------------------------------------------------------------------
(* The steps of the controller *)

kept == <<link, seen, down, hostVars, toNode, nodeVars, silent>>

LEMMA DisposedEffect ==
    ASSUME NEW p \in Peers, p.st # "idle"
    PROVE  /\ Disposed(p) \in Peers /\ Disposed(p).st \in {"closing", "closed"}
           /\ Disposed(p).mapped => p.mapped /\ Disposed(p).disposing
           /\ Disposed(p).task = p.task /\ Disposed(p).q = p.q
           /\ Disposed(p).remote = p.remote /\ Disposed(p).buf = p.buf
<1>1. CASE p.st \in {"closing", "closed"}
    <2> DEFINE d == [p EXCEPT !.mapped = FALSE]
    <2>1. /\ d \in Peers /\ d.st = p.st /\ ~d.mapped /\ d.task = p.task /\ d.q = p.q
          /\ d.remote = p.remote /\ d.buf = p.buf
      BY DEF Peers
    <2>2. Disposed(p) = d
      BY <1>1 DEF Disposed
    <2> HIDE DEF d
    <2> QED
      BY <1>1, <2>1, <2>2
<1>2. CASE p.st \notin {"closing", "closed"}
    <2> DEFINE d == [p EXCEPT !.st = "closing", !.disposing = TRUE, !.closes = p.conn]
    <2>1. /\ d \in Peers /\ d.st = "closing" /\ d.mapped = p.mapped /\ d.disposing
          /\ d.task = p.task /\ d.q = p.q /\ d.remote = p.remote /\ d.buf = p.buf
      BY DEF Peers, States
    <2>2. Disposed(p) = d
      BY <1>2 DEF Disposed
    <2> HIDE DEF d
    <2> QED
      BY <2>1, <2>2
<1> QED
    BY <1>1, <1>2

\* The session on the screen is closed.
LEMMA StopStep ==
    ASSUME IInv, NEW s \in Sess, ctl.cur = s, ps[s].mapped,
           ps' = [ps EXCEPT ![s] = Disposed(ps[s])], ToHost(M("deactivate", s)),
           ctl' \in Controllers, ctl'.cur = NoSess,
           UNCHANGED kept
    PROVE  IInv'
<1> DEFINE p == Disposed(ps[s])
<1>1. ps[s] \in Peers /\ ps[s].st # "idle"
    BY Requested DEF IInv, Typed
<1>2. /\ p \in Peers /\ p.st \in {"closing", "closed"} /\ (p.mapped => p.disposing)
      /\ p.task = ps[s].task /\ p.q = ps[s].q
      /\ p.remote = ps[s].remote /\ p.buf = ps[s].buf
    BY <1>1, DisposedEffect
<1>3. /\ up' \in Seq(Commands) /\ Items(up) \subseteq Items(up')
      /\ \A m \in Items(up') : m \in Items(up) \/ m.s = s
    <2>1. M("deactivate", s) \in Commands /\ M("deactivate", s).s = s
      BY DEF M, Commands
    <2> QED
      BY <2>1, ToHostEffect DEF IInv
<1>4. UNCHANGED <<link, seen, down, hostSess, nodeUp, toNode, fromNode, node, silent>>
    BY DEF kept, hostVars, nodeVars
<1> HIDE DEF p
<1>5. ps' = [ps EXCEPT ![s] = p]
    BY DEF p
<1>6. ps' \in [Sess -> Peers] /\ Queued' /\ Born' /\ Lost' /\ Told'
    <2>1. /\ p.task # "none" => p.q # <<>>
          /\ p.remote => p.buf = 0
      BY <1>2 DEF IInv, Queued
    <2> QED
      BY <1>1, <1>2, <1>3, <1>4, <1>5, <2>1, SessionKeeps
<1>7. Typed'
    BY <1>3, <1>4, <1>6 DEF IInv, Typed
<1>8. Screen'
    BY <1>2, <1>5 DEF IInv, Typed, Screen, OneShown
<1> QED
    BY <1>6, <1>7, <1>8 DEF IInv

\* There is no session on the screen.
Bare == ctl.cur = NoSess
        \/ (ctl.cur \in Sess /\ ~ps[ctl.cur].mapped)

LEMMA RequestStep ==
    ASSUME IInv, Bare, NEW c \in Controllers, c.cur = NoSess,
           Request(c, ps), UNCHANGED kept
    PROVE  IInv'
<1>1. UNCHANGED <<link, seen, down, hostSess, nodeUp, toNode, fromNode, node, silent>>
    BY DEF kept, hostVars, nodeVars
<1>2. \A r \in Sess : ~(ps[r].mapped /\ ~ps[r].disposing)
    BY SessIds DEF Bare, IInv, Screen, OneShown
<1>3. ASSUME NEW s \in Sess, \A r \in Sess : ps[r].st = "idle" <=> r >= s,
             ps' = [ps EXCEPT ![s] = Created],
             ctl' = [c EXCEPT !.pc = "idle", !.old = NoSess, !.cur = s],
             ToHost(M("activate", s))
      PROVE  IInv'
    <2>1. ps[s].st = "idle"
      BY <1>3 DEF Sess
    <2>2. hostSess[s] = "none" /\ node[s].act = "none"
      BY <2>1 DEF IInv, Born
    <2>3. /\ up' \in Seq(Commands) /\ Items(up) \subseteq Items(up')
          /\ \A m \in Items(up') : m \in Items(up) \/ m.s = s
          /\ link = "up" => In(up', {"activate"}, s)
      <3>1. M("activate", s) \in Commands /\ M("activate", s).s = s
            /\ M("activate", s).k = "activate"
        BY DEF M, Commands
      <3> QED
        BY <1>3, <3>1, ToHostEffect DEF IInv, In
    <2>4. ps' \in [Sess -> Peers] /\ Queued' /\ Born' /\ Lost' /\ Told'
      BY <1>1, <1>3, <2>1, <2>2, <2>3, CreatedTyped, SessionKeeps
    <2>5. ctl' \in Controllers /\ ctl'.pc = "idle" /\ ctl'.cur = s
      BY <1>3 DEF Controllers
    <2>6. Typed'
      BY <1>1, <2>3, <2>4, <2>5 DEF IInv, Typed
    <2>7. Screen'
      BY <1>2, <1>3, <2>5 DEF IInv, Typed, Screen, OneShown
    <2> QED
      BY <2>4, <2>6, <2>7 DEF IInv
<1>4. ASSUME ps' = ps, ctl' = [c EXCEPT !.pc = "idle", !.old = NoSess], UNCHANGED up
      PROVE  IInv'
    <2>1. ctl' \in Controllers /\ ctl'.cur = NoSess
      BY <1>4 DEF Controllers
    <2>2. Typed'
      BY <1>1, <1>4, <2>1 DEF IInv, Typed
    <2>3. Screen'
      BY <1>2, <1>4, <2>1 DEF Screen, OneShown
    <2>4. Queued' /\ Born' /\ Lost' /\ Told'
      BY <1>1, <1>4 DEF IInv, Queued, Born, Lost, Told, In
    <2> QED
      BY <2>2, <2>3, <2>4 DEF IInv
<1> QED
    BY <1>3, <1>4, Zenon DEF Request

LEMMA ProceedStep ==
    ASSUME IInv, Bare, NEW c \in Controllers, c.cur = NoSess,
           Proceed(c, ps), UNCHANGED kept
    PROVE  IInv'
<1>1. CASE c.ready
    BY <1>1, RequestStep DEF Proceed
<1>2. CASE ~c.ready
    <2>1. /\ ctl' = [c EXCEPT !.pc = "rendering", !.old = NoSess]
          /\ ps' = ps /\ up' = up
          /\ UNCHANGED <<link, seen, down, hostSess, nodeUp, toNode, fromNode, node,
                         silent>>
      BY <1>2 DEF Proceed, kept, hostVars, nodeVars
    <2>2. ctl' \in Controllers /\ ctl'.cur = NoSess
      BY <2>1 DEF Controllers
    <2>3. Typed'
      BY <2>1, <2>2 DEF IInv, Typed
    <2>4. Screen'
      BY <2>1, <2>2, SessIds DEF Bare, IInv, Screen, OneShown
    <2>5. Queued' /\ Born' /\ Lost' /\ Told'
      BY <2>1 DEF IInv, Queued, Born, Lost, Told, In
    <2> QED
      BY <2>3, <2>4, <2>5 DEF IInv
<1> QED
    BY <1>1, <1>2

LEMMA BeginStep ==
    ASSUME IInv, Begin PROVE IInv'
<1> DEFINE s == ctl.cur
           c == [ctl EXCEPT !.cur = NoSess]
           d == [ctl EXCEPT !.pc = "stopping", !.old = ctl.cur, !.cur = NoSess]
<1>1. ctl \in Controllers /\ s \in Sess \cup {NoSess}
    BY DEF IInv, Typed, Controllers
<1>2. c \in Controllers /\ c.cur = NoSess
    BY <1>1 DEF Controllers
<1>3. d \in Controllers /\ d.cur = NoSess
    BY <1>1 DEF Controllers
<1>4. UNCHANGED kept
    BY DEF Begin, kept
<1>5. CASE s # NoSess /\ ps[s].mapped
    <2>1. ps' = [ps EXCEPT ![s] = Disposed(ps[s])] /\ ctl' = d /\ ToHost(M("deactivate", s))
      BY <1>5 DEF Begin, Closes
    <2> QED
      BY <1>1, <1>3, <1>4, <1>5, <2>1, StopStep
<1>6. CASE ~(s # NoSess /\ ps[s].mapped)
    <2>1. Proceed(c, ps) /\ Bare
      BY <1>1, <1>6 DEF Begin, Closes, Bare
    <2> HIDE DEF c
    <2> QED
      BY <1>2, <1>4, <2>1, ProceedStep
<1> QED
    BY <1>5, <1>6

LEMMA LeaveStep ==
    ASSUME IInv, Leave PROVE IInv'
<1> DEFINE s == ctl.cur
           d == [ctl EXCEPT !.gone = TRUE, !.cur = NoSess]
<1>1. ctl \in Controllers /\ s \in Sess \cup {NoSess}
    BY DEF IInv, Typed, Controllers
<1>2. d \in Controllers /\ d.cur = NoSess /\ d.pc = ctl.pc
    BY <1>1 DEF Controllers
<1>3. UNCHANGED kept /\ ctl' = d
    BY DEF Leave, kept
<1>4. CASE s # NoSess /\ ps[s].mapped
    <2>1. ps' = [ps EXCEPT ![s] = Disposed(ps[s])] /\ ToHost(M("deactivate", s))
      BY <1>4 DEF Leave, Closes
    <2> HIDE DEF d
    <2> QED
      BY <1>1, <1>2, <1>3, <1>4, <2>1, StopStep
<1>5. CASE ~(s # NoSess /\ ps[s].mapped)
    <2>1. ps' = ps /\ up' = up
      BY <1>5 DEF Leave, Closes
    <2>2. UNCHANGED <<link, seen, down, hostSess, nodeUp, toNode, fromNode, node, silent>>
      BY <1>3 DEF kept, hostVars, nodeVars
    <2> HIDE DEF d
    <2>3. Typed' /\ Screen'
      BY <1>1, <1>2, <1>3, <1>5, <2>1, <2>2, SessIds DEF IInv, Typed, Screen, OneShown
    <2>4. Queued' /\ Born' /\ Lost' /\ Told'
      BY <2>1, <2>2 DEF IInv, Queued, Born, Lost, Told, In
    <2> QED
      BY <2>3, <2>4 DEF IInv
<1> QED
    BY <1>4, <1>5

LEMMA RenderedStep ==
    ASSUME IInv, Rendered PROVE IInv'
<1> DEFINE c == [ctl EXCEPT !.ready = TRUE]
<1>1. ctl \in Controllers /\ ctl.cur = NoSess /\ Bare
    BY DEF Rendered, IInv, Typed, Screen, Bare
<1>2. c \in Controllers /\ c.cur = NoSess
    BY <1>1 DEF Controllers
<1>3. Request(c, ps) /\ UNCHANGED kept
    BY DEF Rendered, kept
<1> HIDE DEF c
<1> QED
    BY <1>1, <1>2, <1>3, RequestStep

LEMMA StoppedStep ==
    ASSUME IInv, Stopped PROVE IInv'
<1>1. ctl \in Controllers /\ ctl.cur = NoSess /\ Bare /\ UNCHANGED kept
    BY DEF Stopped, IInv, Typed, Screen, Bare, kept
<1>2. CASE ctl.gone
    <2>1. ctl' = [ctl EXCEPT !.pc = "idle", !.old = NoSess] /\ ps' = ps /\ up' = up
      BY <1>2 DEF Stopped
    <2>2. ctl' \in Controllers /\ ctl'.cur = NoSess
      BY <1>1, <1>2, <2>1 DEF Controllers
    <2>3. UNCHANGED <<link, seen, down, hostSess, nodeUp, toNode, fromNode, node, silent>>
      BY <1>1 DEF kept, hostVars, nodeVars
    <2>4. Typed' /\ Screen'
      BY <1>1, <2>1, <2>2, <2>3 DEF IInv, Typed, Screen, OneShown
    <2>5. Queued' /\ Born' /\ Lost' /\ Told'
      BY <2>1, <2>3 DEF IInv, Queued, Born, Lost, Told, In
    <2> QED
      BY <2>4, <2>5 DEF IInv
<1>3. CASE ~ctl.gone
    BY <1>1, <1>3, ProceedStep DEF Stopped
<1> QED
    BY <1>2, <1>3

-----------------------------------------------------------------------------
(* What the UI isolate is told *)

\* A notice changes one session, if it is mapped, and the session's phase is one
\* that the notice explains.
LEMMA OnStatusEffect ==
    ASSUME NEW p \in Peers, NEW k \in Words, p.mapped, p.st # "idle"
    PROVE  /\ OnStatus(p, k) \in Peers /\ OnStatus(p, k).st \notin {"idle", "requesting"}
           /\ k = "closed" => ~OnStatus(p, k).mapped
           /\ OnStatus(p, k).disposing = p.disposing /\ OnStatus(p, k).task = p.task
           /\ OnStatus(p, k).q = p.q /\ OnStatus(p, k).remote = p.remote
           /\ OnStatus(p, k).buf = p.buf
<1>1. CASE k = "active" /\ p.st \in {"requesting", "pending"}
    <2> DEFINE d == [p EXCEPT !.st = "pending"]
    <2>1. /\ d \in Peers /\ d.st = "pending" /\ d.disposing = p.disposing
          /\ d.task = p.task /\ d.q = p.q /\ d.remote = p.remote /\ d.buf = p.buf
      BY DEF Peers, States
    <2>2. OnStatus(p, k) = d
      BY <1>1 DEF OnStatus
    <2> HIDE DEF d
    <2> QED
      BY <1>1, <2>1, <2>2
<1>2. CASE k = "active" /\ p.st \notin {"requesting", "pending"}
    BY <1>2 DEF OnStatus
<1>3. CASE k = "failed"
    <2> DEFINE d == [p EXCEPT !.st = "failed"]
    <2>1. /\ d \in Peers /\ d.st = "failed" /\ d.disposing = p.disposing
          /\ d.task = p.task /\ d.q = p.q /\ d.remote = p.remote /\ d.buf = p.buf
      BY DEF Peers, States
    <2>2. OnStatus(p, k) = d
      BY <1>3 DEF OnStatus
    <2> HIDE DEF d
    <2> QED
      BY <1>3, <2>1, <2>2
<1>4. CASE k = "closed"
    <2> DEFINE d == [p EXCEPT !.st = "closed", !.mapped = FALSE]
    <2>1. /\ d \in Peers /\ d.st = "closed" /\ ~d.mapped /\ d.disposing = p.disposing
          /\ d.task = p.task /\ d.q = p.q /\ d.remote = p.remote /\ d.buf = p.buf
      BY DEF Peers, States
    <2>2. OnStatus(p, k) = d
      BY <1>4 DEF OnStatus, OnClosed
    <2> HIDE DEF d
    <2> QED
      BY <1>4, <2>1, <2>2
<1> QED
    BY <1>1, <1>2, <1>3, <1>4 DEF Words

\* The session a notice is about, before and after.
LEMMA NoticeStep ==
    ASSUME IInv, NEW s \in Sess, NEW p \in Peers, NEW m \in Notices,
           m.k # "lost" => m.s = s,
           ps' = [ps EXCEPT ![s] = p], down # <<>>, m = Head(down), down' = Tail(down),
           p = ps[s] \/ (ps[s].mapped /\ p.st # "idle"),
           p.mapped => ps[s].mapped,
           p.disposing = ps[s].disposing,
           p.st = "requesting" => ps[s].st = "requesting",
           m.k \in Words /\ ps[s].mapped => p.st # "requesting",
           m.k = "closed" /\ ps[s].mapped => ~p.mapped,
           p.task # "none" => p.q # <<>>, p.remote => p.buf = 0,
           seen' = (seen /\ m.k # "lost"),
           UNCHANGED <<ctl, link, up, hostSess, nodeUp, toNode, fromNode, node, silent>>
    PROVE  IInv'
<1>1. /\ down' \in Seq(Notices) /\ Items(down) = {m} \cup Items(down')
    BY ItemsTail DEF IInv, Typed
<1>2. /\ ps' \in [Sess -> Peers] /\ ps'[s] = p
      /\ \A r \in Sess : r # s => ps'[r] = ps[r]
    BY DEF IInv, Typed
<1>3. Typed'
    BY <1>1, <1>2 DEF IInv, Typed
<1>4. Queued'
    BY <1>2 DEF IInv, Queued
<1>5. Born'
    <2>1. \A r \in Sess : ps[r].st # "idle" => ps'[r].st # "idle"
      BY <1>2
    <2>2. ps'[s].st = "idle" => ps'[s] = Fresh
      BY <1>2 DEF IInv, Born
    <2>3. Items(up) \subseteq Commands
      BY DEF Items, IInv, Typed
    <2> QED
      BY <1>2, <2>1, <2>2, <2>3 DEF IInv, Born, Commands
<1>6. Lost'
    BY DEF IInv, Lost
<1>7. Screen'
    <2>1. \A r \in Sess : ps'[r].mapped /\ ~ps'[r].disposing
                             => ps[r].mapped /\ ~ps[r].disposing
      BY <1>2
    <2> QED
      BY <2>1 DEF IInv, Screen, OneShown
<1>8. Told'
    <2> SUFFICES ASSUME NEW r \in Sess \ silent, ps'[r].mapped, link = "up"
                 PROVE  /\ ps'[r].st = "requesting" =>
                            \/ In(up, {"activate"}, r) \/ In(toNode, {"activate"}, r)
                            \/ node[r].act \in {"spawned", "offered"}
                            \/ In(fromNode, Words, r) \/ In(down', Words, r)
                        /\ hostSess[r] = "Closed" => In(down', {"closed"}, r)
      BY DEF Told, In
    <2>1. r # s \/ m.k \notin Words => /\ In(down, Words, r) => In(down', Words, r)
                                       /\ In(down, {"closed"}, r) => In(down', {"closed"}, r)
      BY <1>1 DEF In, Words
    <2>2. m.k # "closed" => (In(down, {"closed"}, r) => In(down', {"closed"}, r))
      BY <1>1 DEF In
    <2>3. CASE r # s
      BY <1>2, <2>1, <2>3 DEF IInv, Told
    <2>4. CASE r = s
      BY <1>2, <2>1, <2>2, <2>4 DEF IInv, Told
    <2> QED
      BY <2>3, <2>4
<1> QED
    BY <1>3, <1>4, <1>5, <1>6, <1>7, <1>8 DEF IInv

LEMMA ReceiveStep ==
    ASSUME IInv, Receive PROVE IInv'
<1> DEFINE m == Head(down)
<1>1. /\ down # <<>> /\ down' = Tail(down) /\ seen' = (seen /\ m.k # "lost")
      /\ UNCHANGED <<ctl, link, up, hostSess, nodeUp, toNode, fromNode, node, silent>>
    BY DEF Receive, hostVars, nodeVars
<1>2. m \in Notices /\ m \in Items(down)
    BY <1>1, ItemsTail DEF IInv, Typed
<1>3. ps \in [Sess -> Peers]
    BY DEF IInv, Typed
<1>4. CASE m.k = "lost"
    <2>1. ps' = ps
      BY <1>4 DEF Receive
    <2>2. CASE Sess = {}
      <3>1. Typed'
        BY <1>1, <1>2, <2>1, ItemsTail DEF IInv, Typed
      <3> QED
        BY <1>1, <1>4, <2>1, <2>2, <3>1 DEF IInv, Queued, Born, Lost, Screen, OneShown, Told, In
    <2>3. CASE Sess # {}
      <3>1. PICK s \in Sess : TRUE
        BY <2>3
      <3>2. ps' = [ps EXCEPT ![s] = ps[s]] /\ ps[s] \in Peers
        BY <1>3, <2>1
      <3> HIDE DEF m
      <3>3. (ps[s].task # "none" => ps[s].q # <<>>) /\ (ps[s].remote => ps[s].buf = 0)
        BY DEF IInv, Queued
      <3> QED
        BY <1>1, <1>2, <1>4, <3>2, <3>3, NoticeStep DEF m, Words
    <2> QED
      BY <2>2, <2>3
<1>5. CASE m.k # "lost"
    <2> DEFINE s == m.s
               b == ps[s]
    <2>1. s \in Sess /\ b \in Peers
      BY <1>2, <1>3, <1>5 DEF IInv, Typed
    <2>2. (b.task # "none" => b.q # <<>>) /\ (b.remote => b.buf = 0)
      BY <2>1 DEF IInv, Queued
    <2>3. CASE m.k \in Signals
      <3> DEFINE q == IF b.mapped THEN Append(b.q, m.k) ELSE b.q
                 p == [b EXCEPT !.q = q]
      <3>1. ps' = [ps EXCEPT ![s] = p]
        BY <1>3, <1>5, <2>1, <2>3 DEF Receive
      <3>2. q \in Seq(Signals) /\ (b.q # <<>> => q # <<>>) /\ (~b.mapped => q = b.q)
        BY <2>1, <2>3, ItemsAppend DEF Peers
      <3> HIDE DEF q
      <3>3. /\ p \in Peers /\ p.st = b.st /\ p.mapped = b.mapped /\ p.task = b.task
            /\ p.disposing = b.disposing /\ p.remote = b.remote /\ p.buf = b.buf
            /\ p.q = q /\ (~b.mapped => p = b)
        BY <2>1, <3>2 DEF Peers
      <3>4. b.mapped => b.st # "idle"
        BY <2>1, Requested
      <3>5. m.k \notin Words
        BY <2>3 DEF Signals, Words
      <3> HIDE DEF p, m
      <3>6. p = b \/ (b.mapped /\ p.st # "idle")
        BY <3>3, <3>4
      <3> QED
        BY <1>1, <1>2, <2>1, <2>2, <3>1, <3>2, <3>3, <3>5, <3>6, NoticeStep DEF m, Words
    <2>4. CASE m.k \notin Signals
      <3> DEFINE p == OnStatus(b, m.k)
      <3>1. ps' = [ps EXCEPT ![s] = p] /\ m.k \in Words
        BY <1>2, <1>3, <1>5, <2>1, <2>4 DEF Receive, Notices, Words
      <3>2. CASE ~b.mapped
        <4>1. p = b
          BY <3>2 DEF OnStatus
        <4> HIDE DEF p, m
        <4> QED
          BY <1>1, <1>2, <2>1, <2>2, <3>1, <3>2, <4>1, NoticeStep DEF m
      <3>3. CASE b.mapped
        <4>1. b.st # "idle"
          BY <2>1, <3>3, Requested
        <4>2. /\ p \in Peers /\ p.st \notin {"idle", "requesting"}
              /\ (m.k = "closed" => ~p.mapped)
              /\ p.disposing = b.disposing /\ p.task = b.task
              /\ p.q = b.q /\ p.remote = b.remote /\ p.buf = b.buf
          BY <2>1, <3>1, <3>3, <4>1, OnStatusEffect
        <4> HIDE DEF p, m
        <4> QED
          BY ZenonT(60), <1>1, <1>2, <2>1, <2>2, <3>1, <3>3, <4>2, NoticeStep DEF m
      <3> QED
        BY <3>2, <3>3
    <2> QED
      BY <2>3, <2>4
<1> QED
    BY <1>4, <1>5

-----------------------------------------------------------------------------
(* The steps of the link, the host and the node *)

\* The client stands still: what is to be shown is what is there at the host and
\* at the node was requested, and that the client is told.
LEMMA ElsewhereKeeps ==
    ASSUME IInv, UNCHANGED uiVars, Typed', Lost', Told',
           Items(up') \subseteq Items(up),
           \A s \in Sess : hostSess'[s] # "none" => ps[s].st # "idle",
           \A s \in Sess : node'[s].act # "none" \/ node'[s].close # "none"
                              => hostSess'[s] # "none",
           \A m \in Items(toNode') \cup Items(fromNode') : hostSess'[m.s] # "none"
    PROVE  IInv'
<1>1. ps' = ps /\ ctl' = ctl
    BY DEF uiVars
<1>2. Queued' /\ Screen'
    BY <1>1 DEF IInv, Queued, Screen, OneShown
<1>3. Born'
    BY <1>1 DEF IInv, Born
<1> QED
    BY <1>2, <1>3 DEF IInv

\* Who is in a queue.
LEMMA Members ==
    ASSUME Typed
    PROVE  /\ \A m \in Items(up) : m.s \in Sess /\ m \in Commands
           /\ \A m \in Items(toNode) : m.s \in Sess /\ m \in Commands
           /\ \A m \in Items(fromNode) : m.s \in Sess /\ m \in Reports
<1>1. Items(up) \subseteq Commands /\ Items(toNode) \subseteq Commands
      /\ Items(fromNode) \subseteq Reports
    BY DEF Typed, Items
<1> QED
    BY <1>1 DEF Commands, Reports

LEMMA DropLinkStep ==
    ASSUME IInv, DropLink PROVE IInv'
<1>1. PICK n \in 0 .. Len(down) :
        down' = Append(SubSeq(down, 1, n), M("lost", NoSess))
    BY DEF DropLink
<1>2. /\ link' = "down" /\ up' = <<>> /\ UNCHANGED uiVars
      /\ UNCHANGED <<ctl, ps, seen, hostSess, nodeUp, toNode, fromNode, node, silent>>
    BY DEF DropLink, uiVars, hostVars, nodeVars
<1>3. /\ M("lost", NoSess) \in Notices /\ M("lost", NoSess).k = "lost"
    BY DEF M, Notices
<1>4. /\ down' \in Seq(Notices)
      /\ Items(down') \subseteq Items(down) \cup {M("lost", NoSess)}
    <2> DEFINE q == SubSeq(down, 1, n)
    <2>1. down \in Seq(Notices)
      BY DEF IInv, Typed
    <2>2. q \in Seq(Notices) /\ Items(q) \subseteq Items(down)
      BY <2>1, ItemsPrefix
    <2> HIDE DEF q
    <2>3. down' = Append(q, M("lost", NoSess))
      BY <1>1 DEF q
    <2> QED
      BY <1>3, <2>2, <2>3, ItemsAppend
<1>5. Typed'
    BY <1>2, <1>3, <1>4 DEF IInv, Typed
<1>6. Lost' /\ Told'
    BY <1>2 DEF IInv, Lost, Told
<1>7. Items(up') = {}
    BY <1>2 DEF Items
<1> QED
    BY <1>2, <1>5, <1>6, <1>7, ElsewhereKeeps DEF IInv, Born

\* A command of the client is handled: the node or the client hears of it.
LEMMA FromClientStep ==
    ASSUME IInv, FromClient PROVE IInv'
<1> DEFINE m == Head(up)
           s == m.s
<1>1. /\ up # <<>> /\ up' = Tail(up) /\ UNCHANGED uiVars
      /\ UNCHANGED <<ctl, ps, seen, link, nodeUp, fromNode, node, silent>>
      /\ \/ m.k = "activate" /\ Activate(s)
         \/ m.k = "deactivate" /\ Deactivate(s)
         \/ m.k = "signal" /\ RelaySignal(s)
    BY DEF FromClient, uiVars, nodeVars
<1>2. /\ m \in Commands /\ up' \in Seq(Commands) /\ Items(up) = {m} \cup Items(up')
      /\ s \in Sess
    <2>1. /\ m \in Commands /\ up' \in Seq(Commands)
          /\ Items(up) = {m} \cup Items(up')
      BY <1>1, ItemsTail DEF IInv, Typed
    <2> QED
      BY <2>1 DEF Commands
<1>3. ps[s].st # "idle"
    BY <1>2 DEF IInv, Born
<1>4. \A k \in {"activate", "deactivate", "signal"} :
        /\ M(k, s) \in Commands /\ M(k, s).s = s /\ M(k, s).k = k
        /\ toNode' = Append(toNode, M(k, s))
              => /\ toNode' \in Seq(Commands) /\ Items(toNode') = Items(toNode) \cup {M(k, s)}
    <2> TAKE k \in {"activate", "deactivate", "signal"}
    <2>1. M(k, s) \in Commands /\ M(k, s).s = s /\ M(k, s).k = k
      BY <1>2 DEF M, Commands
    <2>2. toNode \in Seq(Commands)
      BY DEF IInv, Typed
    <2> DEFINE x == M(k, s)
    <2> HIDE DEF m, x
    <2>3. x \in Commands
      BY <2>1 DEF x
    <2>4. /\ Append(toNode, x) \in Seq(Commands)
          /\ Items(Append(toNode, x)) = Items(toNode) \cup {x}
      BY <2>2, <2>3, ItemsAppend
    <2> QED
      BY <2>1, <2>4 DEF x
<1> HIDE DEF m
<1>5. ASSUME m.k = "activate", nodeUp, hostSess' = [hostSess EXCEPT ![s] = "Pending"],
             toNode' = Append(toNode, M("activate", s)), down' = down
      PROVE  IInv'
    <2>1. /\ hostSess'[s] = "Pending" /\ hostSess' \in [Sess -> Statuses]
          /\ \A r \in Sess : r # s => hostSess'[r] = hostSess[r]
      BY <1>2, <1>5 DEF IInv, Typed, Statuses
    <2>2. Typed'
      BY <1>1, <1>2, <1>4, <1>5, <2>1 DEF IInv, Typed
    <2>3. Lost'
      BY <1>1, <1>5 DEF Lost
    <2>4. Told'
      <3>1. \A r \in Sess : /\ r # s => (In(up, {"activate"}, r) => In(up', {"activate"}, r))
                            /\ In(toNode, {"activate"}, r) => In(toNode', {"activate"}, r)
        BY <1>2, <1>4, <1>5 DEF In
      <3>2. In(toNode', {"activate"}, s)
        BY <1>4, <1>5 DEF In
      <3> QED
        BY <1>1, <1>5, <2>1, <3>1, <3>2 DEF IInv, Told, In
    <2>5. \A x \in Items(toNode') \cup Items(fromNode') : hostSess'[x.s] # "none"
      BY <1>1, <1>4, <1>5, <2>1, Members DEF IInv, Born
    <2> QED
      BY <1>1, <1>2, <1>3, <2>1, <2>2, <2>3, <2>4, <2>5, ElsewhereKeeps DEF IInv, Born
<1>6. ASSUME m.k = "activate", ToClient(M("failed", s)), UNCHANGED <<hostSess, toNode>>
      PROVE  IInv'
    <2>1. /\ M("failed", s) \in Notices /\ M("failed", s).k = "failed"
          /\ M("failed", s).s = s
      BY <1>2 DEF M, Notices
    <2>2. /\ down' \in Seq(Notices) /\ Items(down) \subseteq Items(down')
          /\ Items(down') \subseteq Items(down) \cup {M("failed", s)}
          /\ link = "up" => M("failed", s) \in Items(down')
      BY <1>6, <2>1, ToClientEffect DEF IInv
    <2>3. Typed'
      BY <1>1, <1>2, <1>6, <2>1, <2>2 DEF IInv, Typed
    <2>4. Lost'
      BY <1>1, <1>6 DEF IInv, Lost
    <2>5. Told'
      <3>1. \A r \in Sess : /\ r # s => (In(up, {"activate"}, r) => In(up', {"activate"}, r))
                            /\ In(down, Words, r) => In(down', Words, r)
                            /\ In(down, {"closed"}, r) => In(down', {"closed"}, r)
        BY <1>2, <2>2 DEF In
      <3>2. link = "up" => In(down', Words, s)
        BY <2>1, <2>2 DEF In, Words
      <3> QED
        BY <1>1, <1>6, <3>1, <3>2 DEF IInv, Told, In
    <2> QED
      BY <1>1, <1>2, <1>6, <2>3, <2>4, <2>5, ElsewhereKeeps DEF IInv, Born
<1>7. ASSUME m.k # "activate", UNCHANGED <<hostSess, down>>,
             NEW k \in {"deactivate", "signal"},
             \/ toNode' = toNode
             \/ /\ toNode' = Append(toNode, M(k, s))
                /\ hostSess[s] # "none" /\ nodeUp
      PROVE  IInv'
    <2>1. /\ toNode' \in Seq(Commands) /\ Items(toNode) \subseteq Items(toNode')
          /\ \A x \in Items(toNode') : hostSess[x.s] # "none"
      <3>1. CASE toNode' = toNode
        BY <3>1 DEF IInv, Typed, Born
      <3>2. CASE toNode' # toNode
        BY <1>4, <1>7, <3>2 DEF IInv, Born
      <3> QED
        BY <3>1, <3>2
    <2>2. Typed'
      BY <1>1, <1>2, <1>7, <2>1 DEF IInv, Typed
    <2>3. Lost'
      BY <1>1, <1>7 DEF IInv, Lost
    <2>4. Told'
      <3>1. \A r \in Sess : /\ In(up, {"activate"}, r) => In(up', {"activate"}, r)
                            /\ In(toNode, {"activate"}, r) => In(toNode', {"activate"}, r)
        BY <1>2, <1>7, <2>1 DEF In
      <3> QED
        BY <1>1, <1>7, <3>1 DEF IInv, Told, In
    <2> QED
      BY <1>1, <1>2, <1>7, <2>1, <2>2, <2>3, <2>4, ElsewhereKeeps DEF IInv, Born
<1> QED
    BY <1>1, <1>5, <1>6, <1>7 DEF Activate, Deactivate, RelaySignal

\* What the node reports is recorded and passed on.
LEMMA FromNodeStep ==
    ASSUME IInv, FromNode PROVE IInv'
<1> DEFINE m == Head(fromNode)
           s == m.s
           w == IF m.k = "active" THEN "Active"
                ELSE IF m.k = "closed" THEN "Closed" ELSE hostSess[s]
<1>1. /\ fromNode # <<>> /\ fromNode' = Tail(fromNode) /\ UNCHANGED uiVars
      /\ UNCHANGED <<ctl, ps, seen, link, nodeUp, up, toNode, node, silent>>
      /\ ToClient(m)
    BY DEF FromNode, Forward, uiVars
<1>2. /\ m \in Reports /\ fromNode' \in Seq(Reports)
      /\ Items(fromNode) = {m} \cup Items(fromNode')
      /\ s \in Sess /\ hostSess[s] # "none"
    <2>1. /\ m \in Reports /\ fromNode' \in Seq(Reports)
          /\ Items(fromNode) = {m} \cup Items(fromNode')
      BY <1>1, ItemsTail DEF IInv, Typed
    <2> QED
      BY <2>1 DEF IInv, Born, Reports
<1>3. hostSess' = [hostSess EXCEPT ![s] = w]
    BY <1>2 DEF FromNode, IInv, Typed
<1>4. /\ w \in Statuses \ {"none"}
      /\ w = "Closed" => m.k = "closed" \/ (m.k # "active" /\ hostSess[s] = "Closed")
    BY <1>2 DEF IInv, Typed, Statuses
<1>5. m \in Notices /\ m.k # "lost"
    BY <1>2 DEF Reports, Notices, Signals
<1> HIDE DEF m, w
<1>6. /\ down' \in Seq(Notices) /\ Items(down) \subseteq Items(down')
      /\ Items(down') \subseteq Items(down) \cup {m}
      /\ link = "up" => m \in Items(down')
    BY <1>1, <1>5, ToClientEffect DEF IInv
<1>7. /\ hostSess'[s] = w /\ hostSess' \in [Sess -> Statuses]
      /\ \A r \in Sess : r # s => hostSess'[r] = hostSess[r]
    BY <1>2, <1>3, <1>4 DEF IInv, Typed
<1>8. Typed'
    BY <1>1, <1>2, <1>6, <1>7 DEF IInv, Typed
<1>9. Lost'
    BY <1>1 DEF IInv, Lost
<1>10. Told'
    <2>1. \A r \in Sess :
            /\ r # s => (In(fromNode, Words, r) => In(fromNode', Words, r))
            /\ In(fromNode, Words, r) /\ link = "up" => In(fromNode', Words, r) \/ In(down', Words, r)
            /\ In(down, Words, r) => In(down', Words, r)
            /\ In(down, {"closed"}, r) => In(down', {"closed"}, r)
      BY <1>2, <1>6 DEF In
    <2>2. m.k = "closed" /\ link = "up" => In(down', {"closed"}, s)
      BY <1>6 DEF In
    <2> QED
      BY <1>1, <1>4, <1>7, <2>1, <2>2 DEF IInv, Told, In
<1>11. \A r \in Sess : hostSess'[r] # "none" <=> hostSess[r] # "none"
    BY <1>2, <1>4, <1>7
<1>12. \A x \in Items(toNode') \cup Items(fromNode') : hostSess'[x.s] # "none"
    <2>1. \A x \in Items(toNode') \cup Items(fromNode') :
             x.s \in Sess /\ hostSess[x.s] # "none"
      BY <1>1, <1>2, Members DEF IInv, Born
    <2> QED
      BY <1>11, <2>1
<1> QED
    BY <1>1, <1>8, <1>9, <1>10, <1>11, <1>12, ElsewhereKeeps DEF IInv, Born

\* The registry after a sweep: what it had, closed.
LEMMA ClosedEffect ==
    ASSUME IInv
    PROVE  /\ Closed \in [Sess -> Statuses]
           /\ \A s \in Sess : /\ Closed[s] \in {"none", "Closed"}
                              /\ Closed[s] # "none" <=> hostSess[s] # "none"
                              /\ s \in Known <=> hostSess[s] # "none"
BY DEF Closed, Known, Statuses

LEMMA SweepClientStep ==
    ASSUME IInv, SweepClient PROVE IInv'
<1>1. /\ link' = "swept" /\ hostSess' = Closed /\ UNCHANGED uiVars
      /\ UNCHANGED <<ctl, ps, seen, up, down, nodeUp, fromNode, node, silent>>
    BY DEF SweepClient, uiVars, nodeVars
<1>2. /\ toNode' \in Seq(Commands)
      /\ \A x \in Items(toNode') : hostSess[x.s] # "none"
      /\ ~nodeUp => toNode' = toNode
    <2>1. CASE ~nodeUp
      BY <2>1 DEF SweepClient, IInv, Typed, Born
    <2>2. CASE nodeUp
      <3>1. PICK ms \in EachKnown("deactivate") : toNode' = toNode \o ms
        BY <2>2 DEF SweepClient
      <3>2. \A s \in Known : M("deactivate", s) \in Commands /\ M("deactivate", s).s = s
        BY DEF Known, M, Commands
      <3>3. ms \in Seq(Commands) /\ Items(ms) = {M("deactivate", s) : s \in Known}
        BY <3>2, EachKnownEffect
      <3>4. toNode' \in Seq(Commands) /\ Items(toNode') = Items(toNode) \cup Items(ms)
        BY <3>1, <3>3, ItemsConcat DEF IInv, Typed
      <3> QED
        BY <2>2, <3>2, <3>3, <3>4 DEF IInv, Born, Known
    <2> QED
      BY <2>1, <2>2
<1>3. Typed'
    BY <1>1, <1>2, ClosedEffect DEF IInv, Typed
<1>4. Lost'
    BY <1>1, <1>2, ClosedEffect DEF IInv, Lost
<1>5. Told'
    BY <1>1 DEF Told
<1>6. \A x \in Items(toNode') \cup Items(fromNode') : x.s \in Sess
    <2>1. Items(toNode') \subseteq Commands
      BY <1>2 DEF Items
    <2> QED
      BY <1>1, <2>1, Members DEF IInv, Commands
<1> QED
    BY <1>1, <1>2, <1>3, <1>4, <1>5, <1>6, ClosedEffect, ElsewhereKeeps DEF IInv, Born

\* The node is gone, and its sessions with it: the client hears of each, unless
\* nobody tells.
LEMMA LoseNodeStep ==
    ASSUME IInv, LoseNode PROVE IInv'
<1>1. /\ nodeUp' = FALSE /\ toNode' = <<>> /\ fromNode' = <<>> /\ hostSess' = Closed
      /\ UNCHANGED uiVars /\ UNCHANGED <<ctl, ps, seen, link, up, node>>
    BY DEF LoseNode, uiVars
<1>2. Items(toNode') = {} /\ Items(fromNode') = {}
    BY <1>1 DEF Items
<1>3. /\ down' \in Seq(Notices) /\ silent' \subseteq Sess /\ silent \subseteq silent'
      /\ Items(down) \subseteq Items(down')
      /\ \A x \in Items(down') : x \in Items(down) \/ (x.k = "closed" /\ x.s \in Sess)
      /\ link = "up" => \A s \in Known : s \in silent' \/ In(down', {"closed"}, s)
    <2>1. CASE down' = down /\ silent' = silent /\ link # "up"
      BY <2>1 DEF IInv, Typed
    <2>2. CASE down' = down /\ silent' = silent \cup Known
      BY <2>2 DEF IInv, Typed, Known
    <2>3. CASE silent' = silent /\ \E ms \in EachKnown("closed") : down' = down \o ms
      <3>1. PICK ms \in EachKnown("closed") : down' = down \o ms
        BY <2>3
      <3>2. \A s \in Known : /\ M("closed", s) \in Notices /\ M("closed", s).s = s
                             /\ M("closed", s).k = "closed" /\ s \in Sess
        BY DEF Known, M, Notices
      <3>3. ms \in Seq(Notices) /\ Items(ms) = {M("closed", s) : s \in Known}
        BY <3>2, EachKnownEffect
      <3>4. down' \in Seq(Notices) /\ Items(down') = Items(down) \cup Items(ms)
        BY <3>1, <3>3, ItemsConcat DEF IInv, Typed
      <3> QED
        BY <2>3, <3>2, <3>3, <3>4 DEF IInv, Typed, In
    <2> QED
      BY <2>1, <2>2, <2>3 DEF LoseNode
<1>4. Typed'
    <2>1. /\ toNode' \in Seq(Commands) /\ fromNode' \in Seq(Reports)
          /\ hostSess' \in [Sess -> Statuses]
      BY <1>1, ClosedEffect
    <2>2. \A x \in Items(down') : x.k # "lost" => x.s \in Sess
      BY <1>3 DEF IInv, Typed
    <2> QED
      BY <1>1, <1>3, <2>1, <2>2 DEF IInv, Typed
<1>5. Lost'
    BY <1>1, ClosedEffect DEF Lost
<1>6. Told'
    <2> SUFFICES ASSUME NEW r \in Sess \ silent', ps[r].mapped, link = "up"
                 PROVE  /\ ps[r].st = "requesting" =>
                            \/ In(up, {"activate"}, r) \/ node[r].act \in {"spawned", "offered"}
                            \/ In(down', Words, r)
                        /\ hostSess'[r] = "Closed" => In(down', {"closed"}, r)
      BY <1>1 DEF Told, In
    <2>1. In(down, Words, r) => In(down', Words, r)
      BY <1>3 DEF In
    <2>2. In(down', {"closed"}, r) => In(down', Words, r)
      BY DEF In, Words
    <2>3. CASE r \in Known
      BY <1>3, <2>2, <2>3
    <2>4. CASE r \notin Known
      <3>1. hostSess[r] = "none" /\ hostSess'[r] = "none"
        BY <1>1, <2>4, ClosedEffect
      <3>2. ~In(toNode, {"activate"}, r) /\ ~In(fromNode, Words, r)
        BY <3>1 DEF In, IInv, Born
      <3> QED
        BY <1>3, <2>1, <3>1, <3>2 DEF IInv, Told
    <2> QED
      BY <2>3, <2>4
<1> QED
    BY <1>1, <1>2, <1>4, <1>5, <1>6, ClosedEffect, ElsewhereKeeps DEF IInv, Born

\* A step of the node's tasks about one session that the host has: a report is
\* sent, if the node is registered, or the session ends in silence.
LEMMA NodeKeeps ==
    ASSUME IInv, NEW s \in Sess, NEW t \in Tasks, hostSess[s] # "none",
           node' = [node EXCEPT ![s] = t], UNCHANGED <<nodeOnly, toNode>>,
           fromNode' \in Seq(Reports), Items(fromNode) \subseteq Items(fromNode'),
           \A m \in Items(fromNode') : m \in Items(fromNode) \/ m.s = s,
           ~nodeUp => fromNode' = fromNode,
           silent' \in {silent, silent \cup {s}},
           node[s].act \in {"spawned", "offered"} =>
              \/ t.act \in {"spawned", "offered"} \/ s \in silent'
              \/ ~nodeUp \/ In(fromNode', Words, s)
    PROVE  IInv'
<1>1. UNCHANGED <<ctl, ps, seen, link, up, down, hostSess, nodeUp, toNode>> /\ UNCHANGED uiVars
    BY DEF nodeOnly, uiVars, hostVars
<1>2. /\ node' \in [Sess -> Tasks] /\ node'[s] = t
      /\ \A r \in Sess : r # s => node'[r] = node[r]
    BY DEF IInv, Typed
<1>3. Typed'
    BY <1>1, <1>2 DEF IInv, Typed
<1>4. Lost'
    BY <1>1 DEF IInv, Lost
<1>5. Told'
    <2> SUFFICES ASSUME NEW r \in Sess \ silent', ps[r].mapped, link = "up"
                 PROVE  /\ ps[r].st = "requesting" =>
                            \/ In(up, {"activate"}, r) \/ In(toNode, {"activate"}, r)
                            \/ node'[r].act \in {"spawned", "offered"}
                            \/ In(fromNode', Words, r) \/ In(down, Words, r)
                        /\ hostSess[r] = "Closed" => In(down, {"closed"}, r)
      BY <1>1 DEF Told, In
    <2>1. In(fromNode, Words, r) => In(fromNode', Words, r)
      BY DEF In
    <2>2. In(down, {"closed"}, r) => In(down, Words, r)
      BY DEF In, Words
    <2>3. CASE r # s
      BY <1>2, <2>1, <2>3 DEF IInv, Told
    <2>4. CASE r = s /\ nodeUp
      BY <1>2, <2>1, <2>4 DEF IInv, Told
    <2>5. CASE r = s /\ ~nodeUp
      BY <2>2, <2>5 DEF IInv, Told, Lost
    <2> QED
      BY <2>3, <2>4, <2>5
<1>6. \A m \in Items(toNode') \cup Items(fromNode') : hostSess'[m.s] # "none"
    BY <1>1 DEF IInv, Born
<1>7. \A r \in Sess : node'[r].act # "none" \/ node'[r].close # "none"
                         => hostSess'[r] # "none"
    BY <1>1, <1>2 DEF IInv, Born
<1> QED
    BY <1>1, <1>3, <1>4, <1>5, <1>6, <1>7, ElsewhereKeeps DEF IInv, Born

LEMMA NodeTakeStep ==
    ASSUME IInv, NodeTake PROVE IInv'
<1> DEFINE m == Head(toNode)
           s == m.s
           t == IF m.k = "activate" THEN [node[s] EXCEPT !.act = "spawned"]
                ELSE [node[s] EXCEPT !.close = "spawned"]
<1>1. /\ toNode # <<>> /\ toNode' = Tail(toNode) /\ UNCHANGED uiVars
      /\ UNCHANGED <<ctl, ps, seen, link, up, down, hostSess, nodeUp, fromNode, silent>>
    BY DEF NodeTake, nodeOnly, uiVars, hostVars
<1>2. /\ m \in Commands /\ toNode' \in Seq(Commands)
      /\ Items(toNode) = {m} \cup Items(toNode')
    BY <1>1, ItemsTail DEF IInv, Typed
<1>3. s \in Sess /\ hostSess[s] # "none"
    BY <1>2 DEF Commands, IInv, Born
<1>4. node[s] \in Tasks /\ node' = [node EXCEPT ![s] = t]
    BY <1>3 DEF NodeTake, IInv, Typed
<1>5. /\ t \in Tasks
      /\ m.k = "activate" => t.act = "spawned"
      /\ m.k # "activate" => t.act = node[s].act
    BY <1>4 DEF Tasks
<1> HIDE DEF t, m
<1>6. /\ node' \in [Sess -> Tasks] /\ node'[s] = t
      /\ \A r \in Sess : r # s => node'[r] = node[r]
    BY <1>3, <1>4, <1>5 DEF IInv, Typed
<1>7. Typed'
    BY <1>1, <1>2, <1>6 DEF IInv, Typed
<1>8. Lost'
    BY <1>1 DEF IInv, Lost
<1>9. Told'
    <2>1. \A r \in Sess :
            /\ In(toNode, {"activate"}, r)
                  => In(toNode', {"activate"}, r) \/ (r = s /\ m.k = "activate")
            /\ node[r].act \in {"spawned", "offered"} => node'[r].act \in {"spawned", "offered"}
      BY <1>2, <1>5, <1>6 DEF In
    <2> QED
      BY <1>1, <1>5, <1>6, <2>1 DEF IInv, Told, In
<1>10. \A r \in Sess : node'[r].act # "none" \/ node'[r].close # "none"
                          => hostSess'[r] # "none"
    BY <1>1, <1>3, <1>6 DEF IInv, Born
<1> QED
    BY <1>1, <1>2, <1>7, <1>8, <1>9, <1>10, ElsewhereKeeps DEF IInv, Born

\* What the node sends about a session.
LEMMA ReportEffect ==
    ASSUME IInv, NEW s \in Sess, NEW k \in Signals \cup {"active", "closed"},
           ToHostOf(M(k, s))
    PROVE  /\ fromNode' \in Seq(Reports) /\ Items(fromNode) \subseteq Items(fromNode')
           /\ \A m \in Items(fromNode') : m \in Items(fromNode) \/ m.s = s
           /\ ~nodeUp => fromNode' = fromNode
           /\ k \in Words => ~nodeUp \/ In(fromNode', Words, s)
<1>1. M(k, s) \in Reports /\ M(k, s).s = s /\ M(k, s).k = k
    BY DEF M, Reports
<1>2. /\ fromNode' \in Seq(Reports) /\ Items(fromNode) \subseteq Items(fromNode')
      /\ Items(fromNode') \subseteq Items(fromNode) \cup {M(k, s)}
      /\ nodeUp => M(k, s) \in Items(fromNode')
      /\ ~nodeUp => fromNode' = fromNode
    BY <1>1, ToHostOfEffect DEF IInv
<1> QED
    BY <1>1, <1>2 DEF In

LEMMA NodeOfferStep ==
    ASSUME IInv, NEW s \in Sess, NodeOffer(s) PROVE IInv'
<1> DEFINE offered == [node[s] EXCEPT !.act = "offered"]
           done == [node[s] EXCEPT !.act = "done"]
<1>1. node[s] \in Tasks /\ node[s].act = "spawned" /\ hostSess[s] # "none"
    BY DEF NodeOffer, IInv, Typed, Born
<1>2. /\ offered \in Tasks /\ offered.act = "offered" /\ done \in Tasks
    BY <1>1 DEF Tasks
<1>3. /\ UNCHANGED <<nodeOnly, toNode>>
      /\ \/ /\ node' = [node EXCEPT ![s] = offered] /\ ToHostOf(M("offer", s))
            /\ silent' = silent
         \/ /\ node' = [node EXCEPT ![s] = done] /\ fromNode' = fromNode
            /\ silent' = silent \cup {s}
    BY DEF NodeOffer, IInv, Typed
<1> HIDE DEF offered, done
<1>4. CASE node' = [node EXCEPT ![s] = offered] /\ ToHostOf(M("offer", s)) /\ silent' = silent
    <2>1. /\ fromNode' \in Seq(Reports) /\ Items(fromNode) \subseteq Items(fromNode')
          /\ \A m \in Items(fromNode') : m \in Items(fromNode) \/ m.s = s
          /\ ~nodeUp => fromNode' = fromNode
      BY <1>4, ReportEffect DEF Signals
    <2> QED
      BY <1>1, <1>2, <1>3, <1>4, <2>1, NodeKeeps
<1>5. CASE /\ node' = [node EXCEPT ![s] = done] /\ fromNode' = fromNode
           /\ silent' = silent \cup {s}
    <2>1. fromNode' \in Seq(Reports)
      BY <1>5 DEF IInv, Typed
    <2> QED
      BY <1>1, <1>2, <1>3, <1>5, <2>1, NodeKeeps
<1> QED
    BY <1>3, <1>4, <1>5

LEMMA NodeCandidateStep ==
    ASSUME IInv, NEW s \in Sess, NodeCandidate(s) PROVE IInv'
<1> DEFINE t == [node[s] EXCEPT !.cand = TRUE]
<1>1. node[s] \in Tasks /\ hostSess[s] # "none"
    BY DEF NodeCandidate, IInv, Typed, Born
<1>2. t \in Tasks /\ t.act = node[s].act
    BY <1>1 DEF Tasks
<1>3. /\ UNCHANGED <<nodeOnly, toNode>> /\ silent' = silent
      /\ node' = [node EXCEPT ![s] = t] /\ ToHostOf(M("cand", s))
    BY DEF NodeCandidate, IInv, Typed
<1> HIDE DEF t
<1>4. /\ fromNode' \in Seq(Reports) /\ Items(fromNode) \subseteq Items(fromNode')
      /\ \A m \in Items(fromNode') : m \in Items(fromNode) \/ m.s = s
      /\ ~nodeUp => fromNode' = fromNode
    BY <1>3, ReportEffect DEF Signals
<1> QED
    BY <1>1, <1>2, <1>3, <1>4, NodeKeeps

LEMMA NodeActiveStep ==
    ASSUME IInv, NEW s \in Sess, NodeActive(s) PROVE IInv'
<1> DEFINE t == [node[s] EXCEPT !.act = "done"]
<1>1. node[s] \in Tasks /\ hostSess[s] # "none"
    BY DEF NodeActive, IInv, Typed, Born
<1>2. t \in Tasks
    BY <1>1 DEF Tasks
<1>3. /\ UNCHANGED <<nodeOnly, toNode>> /\ silent' = silent
      /\ node' = [node EXCEPT ![s] = t] /\ ToHostOf(M("active", s))
    BY DEF NodeActive, IInv, Typed
<1> HIDE DEF t
<1>4. /\ fromNode' \in Seq(Reports) /\ Items(fromNode) \subseteq Items(fromNode')
      /\ \A m \in Items(fromNode') : m \in Items(fromNode) \/ m.s = s
      /\ ~nodeUp => fromNode' = fromNode
      /\ ~nodeUp \/ In(fromNode', Words, s)
    BY <1>3, ReportEffect DEF Words
<1> QED
    BY <1>1, <1>2, <1>3, <1>4, NodeKeeps

LEMMA NodeCloseStep ==
    ASSUME IInv, NEW s \in Sess, NodeClose(s) PROVE IInv'
<1> DEFINE t == [node[s] EXCEPT !.close = "done"]
<1>1. node[s] \in Tasks /\ hostSess[s] # "none"
    BY DEF NodeClose, IInv, Typed, Born
<1>2. t \in Tasks /\ t.act = node[s].act
    BY <1>1 DEF Tasks
<1>3. /\ UNCHANGED <<nodeOnly, toNode>> /\ silent' = silent
      /\ node' = [node EXCEPT ![s] = t] /\ ToHostOf(M("closed", s))
    BY DEF NodeClose, IInv, Typed
<1> HIDE DEF t
<1>4. /\ fromNode' \in Seq(Reports) /\ Items(fromNode) \subseteq Items(fromNode')
      /\ \A m \in Items(fromNode') : m \in Items(fromNode) \/ m.s = s
      /\ ~nodeUp => fromNode' = fromNode
    BY <1>3, ReportEffect
<1> QED
    BY <1>1, <1>2, <1>3, <1>4, NodeKeeps

-----------------------------------------------------------------------------
(* The theorems *)

LEMMA StepHolds == IInv /\ [Next]_vars => IInv'
<1> SUFFICES ASSUME IInv, [Next]_vars PROVE IInv'
    OBVIOUS
<1>1. CASE Next
    BY <1>1, BeginStep, RenderedStep, StoppedStep, LeaveStep, ReceiveStep,
       DropLinkStep, FromClientStep, FromNodeStep, SweepClientStep, LoseNodeStep,
       NodeTakeStep, EndDisposeStep, TakeSignalStep, PeerConnectionStep,
       HandleOfferStep, HandleCandidateStep, ConnectionFailsStep, NodeOfferStep,
       NodeCandidateStep, NodeActiveStep, NodeCloseStep DEF Next
<1>2. CASE UNCHANGED vars
    BY <1>2 DEF vars, IInv, Typed, Queued, Born, Lost, Screen, OneShown, Told, In
<1> QED
    BY <1>1, <1>2

LEMMA Invariance == Spec => []IInv
BY InitHolds, StepHolds, PTL DEF Spec

\* The variables of screen, sessions, link, registry and node keep their types, and
\* a session's signal in process is at the head of its queue.
THEOREM TypeCorrect == Spec => []TypeOK
<1>1. IInv => TypeOK
    BY TypedDef DEF IInv
<1> QED
    BY <1>1, Invariance, PTL

\* A client that waits for its request to be answered is not forgotten, and what
\* the host has closed does not stay in its map, whatever order the tasks of the
\* node and the handlers of the host run in.
THEOREM WaitersAreTold == Spec => []ClientIsTold
<1>1. IInv => ClientIsTold
    <2> SUFFICES ASSUME IInv PROVE ClientIsTold
      OBVIOUS
    <2>1. \A ks, s : /\ In(up, ks, s) => Has(up, ks, s)
                     /\ In(toNode, ks, s) => Has(toNode, ks, s)
                     /\ In(fromNode, ks, s) => Has(fromNode, ks, s)
                     /\ In(down, ks, s) => Has(down, ks, s)
      BY DEF IInv, Typed, In, Items, Has
    <2> QED
      BY <2>1 DEF IInv, Told, ClientIsTold
<1> QED
    BY <1>1, Invariance, PTL

\* The candidates that came before the Offer are all added once it is set.
THEOREM CandidatesAreAdded == Spec => []NoCandidateStuck
<1>1. IInv => NoCandidateStuck
    BY DEF IInv, Queued, NoCandidateStuck
<1> QED
    BY <1>1, Invariance, PTL

\* Starting, switching and stopping, in any order with what the sessions do
\* themselves, leave no session that is not being closed beside the one the
\* controller holds; and leaving the screen closes that one.  What is requested
\* after the leave, the renderer made ready, the controller holds, and nobody
\* closes: that there is none then is not claimed.
THEOREM ScreenHasOne == Spec => []OneShown
<1>1. IInv => OneShown
    BY DEF IInv, Screen
<1> QED
    BY <1>1, Invariance, PTL

=============================================================================
