--------------------------- MODULE FileTransferProofs ---------------------------
(***************************************************************************)
(* Theorems about uploads and downloads of a path, for any number of links, *)
(* clients, versions, chunks and uploads.                                  *)
(***************************************************************************)
EXTENDS FileTransfer, FiniteSetTheorems, SequenceTheorems, TLAPS

-----------------------------------------------------------------------------
(* The inductive invariant, part by part *)

Busy(h) == at[h].pc # "idle"
\* Handlers that have taken a session out of the registry, or are about to.
Takers == {"cancel", "check", "clean", "rename"}
\* No upload has opened this inode's file yet.
Fresh(i) == ~Started(i) \/ up[i].ino = None

\* The types, and what every handler and session refers to.
Typed ==
    /\ TypeOK
    /\ up \in [Uploads -> Session \cup {Unused}]
    /\ \A h \in Handlers :
        /\ ~Busy(h) => at[h].u = None
        /\ Busy(h) => at[h].u \in Uploads /\ Started(at[h].u)
        /\ at[h].pc \in {"write", "flush"} => at[h].k \in Versions \X (1 .. N)
    /\ \A id \in Ids : sessions[id] # None =>
        Started(sessions[id]) /\ IdFor(sessions[id]) = id
    /\ dl.pc \in {"hash", "send"} => dl.ino # None

\* An upload is at its init, or has been registered (next > 0), once.
Placed ==
    /\ \A h \in Handlers : Busy(h) => LET u == at[h].u IN
        /\ at[h].pc \in InitPcs => h = <<up[u].link, "cmd">> /\ up[u].next = 0
        /\ at[h].pc \notin InitPcs => up[u].next > 0
        /\ at[h].pc = "open" => up[u].ino = None
        /\ at[h].pc \in {"hash", "insert"} => up[u].ino # None
        /\ at[h].pc \in Takers => sessions[IdFor(u)] # u
    /\ \A id \in Ids : sessions[id] # None => up[sessions[id]].next > 0
    /\ \A u \in Uploads : Started(u) =>
        /\ up[u].next = 0 => up[u].busy = NoChunk
        /\ up[u].next > 0 => up[u].ino # None
    /\ \A i \in Uploads : Fresh(i) =>
        /\ part # i /\ final # i /\ dl.ino # i
        /\ \A w \in Uploads : Started(w) => up[w].ino # i

Solo == ~raced => \A a, b \in Workers : a = b

\* What else holds until two uploads overlap or a failure is swallowed.

\* Of two handlers at work one is a cancel, which waits for the other.
Beside(h, g) == at[h].pc = "cancel" /\ at[g].pc \in {"write", "flush", "take"}
Alone ==
    \A h, g \in Handlers : h # g /\ Busy(h) /\ Busy(g) => Beside(h, g) \/ Beside(g, h)

\* A chunk is handled by the file channel of its upload's link, and is behind
\* what the client will send next.
Tie(h) ==
    LET u == at[h].u IN
    /\ at[h].pc \in {"write", "flush"} => h = <<up[u].link, "fs">>
    /\ at[h].pc = "take" => h = <<up[u].link, "fs">> \/ up[u].next = N + 1
    /\ at[h].pc = "write" => at[h].k[2] < up[u].next
Tied == \A h \in Handlers : Tie(h)

\* The partial is neither the file nor what a download reads.
Apart == part # None => part # final /\ part # dl.ino

\* A failed write was reported to a chunk that was dropped: none fits any more.
Stalled(u) ==
    LET s == up[u] IN
    /\ s.busy = NoChunk /\ ~s.err /\ s.off < N /\ s.next > s.off + 1
    /\ \A h \in Handlers : at[h].pc = "write" /\ at[h].u = u => at[h].k[2] > s.off + 1
\* The file has what the hasher has read, or lacks the last chunk of it.
Synced(u) ==
    LET s == up[u]  d == disk[s.ino] IN
    /\ Len(s.hashed) = s.off
    /\ s.append \/ s.pos = Len(d)
    /\ \/ d = s.hashed /\ s.busy = NoChunk /\ ~s.err
       \/ /\ s.off > 0 /\ d = SubSeq(s.hashed, 1, s.off - 1)
          /\ \/ s.busy = s.hashed[s.off] /\ ~s.err
             \/ s.busy = NoChunk /\ s.err
             \/ Stalled(u)
\* What an upload at its init has made of the partial.
Prepared(h) ==
    LET s == up[at[h].u] IN
    /\ at[h].pc \in InitPcs => ~s.err
    /\ at[h].pc = "open" =>
        IF s.append THEN part # None /\ Len(disk[part]) = s.off
                    ELSE s.off = 0 /\ s.hashed = <<>> /\ s.pos = 0
    /\ at[h].pc = "hash" => s.append /\ s.ino = part /\ Len(disk[part]) = s.off
    /\ at[h].pc = "insert" =>
        /\ s.ino = part /\ s.hashed = disk[part] /\ Len(s.hashed) = s.off
        /\ s.append \/ s.pos = s.off
\* An upload at work: its open file is the partial, or was unlinked under it.
Sound(u) ==
    LET s == up[u] IN
    /\ s.ino # None => s.ino # final /\ s.ino # dl.ino
    /\ s.next > 0 => /\ Synced(u)
                     /\ part = s.ino \/ (part = None /\ sessions[IdFor(u)] # u)
Ready(h) ==
    LET s == up[at[h].u] IN
    at[h].pc = "rename" =>
        s.hashed = Full(s.v) /\ disk[s.ino] = s.hashed /\ s.busy = NoChunk

\* A download has read one inode, which nobody wrote meanwhile.
Read ==
    /\ dl.pc \in {"none", "hash"} => dl.sent = <<>>
    /\ dl.pc \in {"none", "hash", "send"} => ~dl.cut
    /\ dl.pc \in {"send", "end", "ended"} =>
        /\ \A i \in 1 .. Len(dl.sent) : dl.sent[i] = dl.sum[dl.at + i]
        /\ dl.sent = <<>> \/ dl.at + Len(dl.sent) <= Len(dl.sum)
    /\ dl.pc = "send" => dl.sum = disk[dl.ino]
    /\ dl.pc \in {"end", "ended"} => (dl.cut <=> dl.at + Len(dl.sent) < Len(dl.sum))

Clear ==
    /\ Alone /\ Tied /\ Apart /\ Read
    /\ \A h \in Handlers : Busy(h) => Prepared(h) /\ Ready(h)
    /\ \A u \in Workers : Sound(u)

IInv == Typed /\ Placed /\ Solo /\ (~Clouded => Clear)

-----------------------------------------------------------------------------
(* The operators of the model *)

AtRec == [pc : Pcs, u : {None} \cup Uploads, k : Chunk \cup {NoChunk}]

LEMMA Constants ==
    /\ None \notin Uploads /\ Uploads \subseteq Nat /\ NoChunk \notin Chunk
    /\ N \in Nat /\ N > 0 /\ Idle \in AtRec
    /\ \A v \in Versions : IdOf[v] \in Ids /\ \A i \in 1 .. N : <<v, i>> \in Chunk
    /\ \A l \in Links : <<l, "cmd">> \in Handlers /\ <<l, "fs">> \in Handlers
<1>1. None \notin Uploads /\ Uploads \subseteq Nat /\ N \in Nat /\ N > 0
    BY TransferAssumption DEF None, Uploads
<1>2. NoChunk \notin Chunk
    BY <1>1 DEF NoChunk, Chunk, Hole
<1>3. Idle \in AtRec
    BY DEF Idle, AtRec, Pcs
<1> QED
    BY <1>1, <1>2, <1>3 DEF Ids, Chunk, Handlers

LEMMA SessionsStarted == ASSUME NEW s \in Session PROVE s # Unused
BY DEF Session, Unused

\* A write at the end of a file appends.
LEMMA WrittenAtEnd ==
    ASSUME NEW S, NEW s \in Seq(S), NEW c \in S
    PROVE  Written(s, Len(s), c) = Append(s, c)
<1> DEFINE w == Written(s, Len(s), c)  n == Len(s) + 1
<1>1. n \in Nat /\ Append(s, c) \in Seq(S) /\ Len(Append(s, c)) = n
   BY AppendProperties
<1>2. w = [i \in 1 .. n |-> IF i = n THEN c ELSE IF i <= Len(s) THEN s[i] ELSE Hole]
   BY DEF Written
<1> HIDE DEF w
<1>3. \A i \in 1 .. n : w[i] = Append(s, c)[i] /\ w[i] \in S
   BY <1>2, AppendProperties
<1>4. w \in Seq(S) /\ Len(w) = n
   <2>1. w \in [1 .. n -> S]
     BY <1>2, <1>3
   <2> QED BY <1>1, <2>1
<1> QED
   BY <1>1, <1>3, <1>4, SeqEqual DEF w

\* The file lacks the last chunk of what was hashed: writing it makes it whole.
LEMMA LastChunk ==
    ASSUME NEW S, NEW s \in Seq(S), Len(s) > 0
    PROVE  /\ SubSeq(s, 1, Len(s) - 1) \in Seq(S)
           /\ Len(SubSeq(s, 1, Len(s) - 1)) = Len(s) - 1
           /\ Append(SubSeq(s, 1, Len(s) - 1), s[Len(s)]) = s
<1> DEFINE n == Len(s) - 1
           t == SubSeq(s, 1, n)
<1>1. n \in Nat /\ n + 1 = Len(s) /\ \A i \in 1 .. n : s[i] \in S
    OBVIOUS
<1>2. s[n + 1] \in S
    BY <1>1
<1> HIDE DEF n
<1>3. t \in Seq(S) /\ Len(t) = n /\ \A i \in 1 .. n : t[i] = s[i]
    <2>1. 1 \in Int /\ n \in Int
      BY <1>1
    <2>2. /\ t \in Seq(S) /\ Len(t) = IF 1 <= n THEN n - 1 + 1 ELSE 0
          /\ \A i \in 1 .. n - 1 + 1 : t[i] = s[1 + i - 1]
      BY <1>1, <2>1, SubSeqProperties
    <2> HIDE DEF t
    <2>3. n - 1 + 1 = n /\ (IF 1 <= n THEN n ELSE 0) = n
      BY <1>1
    <2>4. \A i \in 1 .. n : 1 + i - 1 = i
      OBVIOUS
    <2> QED
      BY <2>2, <2>3, <2>4
<1> HIDE DEF t
<1>4. Append(t, s[n + 1]) = s
    BY <1>1, <1>2, <1>3, AppendProperties, SeqEqual
<1> QED
    BY <1>1, <1>3, <1>4 DEF t, n

\* ... and taking the last one away again leaves what there was.
LEMMA AppendedLast ==
    ASSUME NEW S, NEW s \in Seq(S), NEW c \in S
    PROVE  SubSeq(Append(s, c), 1, Len(s)) = s
<1> DEFINE a == Append(s, c)  t == SubSeq(a, 1, Len(s))
<1>1. a \in Seq(S) /\ Len(a) = Len(s) + 1 /\ \A i \in 1 .. Len(s) : a[i] = s[i]
   BY AppendProperties
<1> HIDE DEF a
<1>2. t \in Seq(S) /\ Len(t) = Len(s) /\ \A i \in 1 .. Len(s) : t[i] = s[i]
   BY <1>1, SubSeqProperties
<1> HIDE DEF t
<1>3. t = s
   BY <1>2, SeqEqual
<1> QED BY <1>3 DEF a, t
LEMMA WrittenType ==
    ASSUME NEW s \in Seq(Chunk), NEW p \in Nat, NEW c \in Chunk
    PROVE  Written(s, p, c) \in Seq(Chunk)
<1>1. Hole \in Chunk
   BY DEF Chunk
<1> DEFINE n == IF p < Len(s) THEN Len(s) ELSE p + 1
<1>2. n \in Nat
   OBVIOUS
<1>3. \A i \in 1 .. n : (IF i = p + 1 THEN c ELSE IF i <= Len(s) THEN s[i] ELSE Hole) \in Chunk
   BY <1>1
<1> QED
   BY <1>2, <1>3 DEF Written

-----------------------------------------------------------------------------
(* A step changes one handler and one upload *)

\* Only handler h moves.
AtStep(h) ==
    /\ at' \in [Handlers -> AtRec]
    /\ \A g \in Handlers \ {h} : at'[g] = at[g]
\* Only upload u changes; what it is about stays.
UpStep(u) ==
    /\ up' \in [Uploads -> Session \cup {Unused}] /\ up'[u] \in Session
    /\ \A w \in Uploads \ {u} : up'[w] = up[w]
    /\ Started(u) => /\ up'[u].v = up[u].v /\ up'[u].link = up[u].link
                     /\ up'[u].append = up[u].append
\* The types of everything but the handlers and the uploads.
Others ==
    /\ link \in [Links -> {"up", "down", "swept"}]
    /\ sessions \in [Ids -> {None} \cup Uploads]
    /\ disk \in [Uploads -> Seq(Chunk)]
    /\ part \in {None} \cup Uploads /\ final \in {None} \cup Uploads
    /\ dl \in Download /\ (dl.pc \in {"hash", "send"} => dl.ino # None)
    /\ cancels \in Nat /\ fails \in Nat
    /\ raced \in BOOLEAN
    /\ swallowed \subseteq Uploads /\ late \subseteq Uploads
\* What Typed and Placed say of a handler.
HandlerFits(h) ==
    /\ ~Busy(h) => at[h].u = None
    /\ Busy(h) => LET u == at[h].u IN
        /\ u \in Uploads /\ Started(u)
        /\ at[h].pc \in InitPcs => h = <<up[u].link, "cmd">> /\ up[u].next = 0
        /\ at[h].pc \notin InitPcs => up[u].next > 0
        /\ at[h].pc = "open" => up[u].ino = None
        /\ at[h].pc \in {"hash", "insert"} => up[u].ino # None
        /\ at[h].pc \in Takers => sessions[IdFor(u)] # u
    /\ at[h].pc \in {"write", "flush"} => at[h].k \in Versions \X (1 .. N)

LEMMA Parts ==
    ASSUME Typed, Placed
    PROVE  /\ at \in [Handlers -> AtRec] /\ up \in [Uploads -> Session \cup {Unused}]
           /\ \A u \in Uploads : Started(u) => up[u] \in Session
           /\ Others /\ \A h \in Handlers : HandlerFits(h)
<1>1. at \in [Handlers -> AtRec] /\ up \in [Uploads -> Session \cup {Unused}]
      /\ (\A u \in Uploads : Started(u) => up[u] \in Session) /\ Others
    BY DEF Typed, TypeOK, AtRec, Others
<1>2. ASSUME NEW h \in Handlers PROVE HandlerFits(h)
    BY DEF Typed, Placed, HandlerFits, Busy
<1> QED
    BY <1>1, <1>2

\* A step of handler h that is about upload u keeps Typed and Placed, if it leaves
\* both as they should be.
LEMMA BaseStep ==
    ASSUME Typed, Placed, NEW h \in Handlers, NEW u \in Uploads,
           AtStep(h), UpStep(u), Others', HandlerFits(h)',
           Started(u) =>
             /\ up[u].next > 0 => up'[u].next > 0
             /\ up[u].ino # None => up'[u].ino = up[u].ino
             /\ up'[u].next # up[u].next \/ up'[u].ino # up[u].ino =>
                  up[u].next > 0 \/ h = <<up[u].link, "cmd">>,
           up'[u].next = 0 => up'[u].busy = NoChunk,
           up'[u].next > 0 => up'[u].ino # None,
           \A id \in Ids :
             \/ sessions'[id] \in {None, sessions[id]}
             \/ /\ sessions'[id] = u /\ IdOf[up'[u].v] = id /\ up'[u].next > 0
                /\ Started(u) /\ up[u].next = 0,
           part' \in {None, part} \/ (part' = u /\ up'[u].ino = u),
           final' \in {final, part}, dl'.ino \in {None, dl.ino, final},
           up'[u].ino \in {None, part'} \/ (Started(u) /\ up'[u].ino = up[u].ino)
    PROVE  Typed' /\ Placed'
<1>1. /\ at \in [Handlers -> AtRec] /\ up \in [Uploads -> Session \cup {Unused}]
      /\ \A w \in Uploads : Started(w) => up[w] \in Session
      /\ Others /\ \A g \in Handlers : HandlerFits(g)
    BY Parts
<1>2. /\ Started(u)' /\ \A w \in Uploads : Started(w) => Started(w)' /\ up'[w].v = up[w].v
      /\ \A w \in Uploads : Started(w)' => w = u \/ Started(w)
      /\ \A w \in Uploads : Started(w)' => up'[w] \in Session
    BY <1>1, SessionsStarted DEF UpStep, Started
<1>3. ASSUME NEW g \in Handlers, g # h PROVE HandlerFits(g)'
    <2>0. PICK w : w = at[g].u
      OBVIOUS
    <2>1. at'[g] = at[g] /\ HandlerFits(g)
      BY <1>1, <1>3 DEF AtStep
    <2>2. CASE ~Busy(g)
      BY <2>1, <2>2 DEF HandlerFits, Busy
    <2>3. CASE Busy(g)
      <3>1. w \in Uploads /\ Started(w) /\ at[g] \in AtRec
        BY <1>1, <2>0, <2>1, <2>3 DEF HandlerFits
      <3>2. Started(w)' /\ IdFor(w)' = IdFor(w) /\ up[w] \in Session
        BY <1>1, <1>2, <3>1 DEF IdFor
      <3>3. IdFor(w) \in Ids
        BY <3>1, <3>2, Constants DEF IdFor, Session
      <3>4. CASE at[g].pc \in InitPcs
        <4>1. g = <<up[w].link, "cmd">> /\ up[w].next = 0
          BY <2>0, <2>1, <2>3, <3>4 DEF HandlerFits
        <4>2. up'[w].next = up[w].next /\ up'[w].ino = up[w].ino /\ up'[w].link = up[w].link
          BY <1>3, <3>1, <4>1 DEF UpStep
        <4> QED
          BY ZenonT(60), <2>0, <2>1, <2>3, <3>1, <3>2, <3>4, <4>1, <4>2
          DEF HandlerFits, Busy, InitPcs, Takers
      <3>5. CASE at[g].pc \notin InitPcs
        <4>1. up[w].next > 0 /\ up'[w].next > 0
          BY <2>0, <2>1, <2>3, <3>1, <3>5 DEF HandlerFits, UpStep
        <4>2. at[g].pc \in Takers => sessions'[IdFor(w)] # w
          <5>1. at[g].pc \in Takers => sessions[IdFor(w)] # w
            BY <2>0, <2>1, <2>3 DEF HandlerFits
          <5> QED
            BY <3>1, <3>2, <3>3, <4>1, <5>1, Constants
        <4> QED
          BY <2>0, <2>1, <2>3, <3>1, <3>2, <3>5, <4>1, <4>2 DEF HandlerFits, Busy, InitPcs
      <3> QED
        BY <3>4, <3>5
    <2> QED
      BY <2>2, <2>3
<1>4. \A g \in Handlers : HandlerFits(g)'
    BY <1>3
<1>5. ASSUME NEW id \in Ids, NEW w, w = sessions'[id], w # None
      PROVE  Started(w)' /\ IdFor(w)' = id /\ up'[w].next > 0
    <2>1. CASE w = sessions[id]
      <3>1. w \in Uploads /\ Started(w) /\ IdFor(w) = id /\ up[w].next > 0
        BY <1>1, <1>5, <2>1 DEF Typed, Placed, Others
      <3> QED
        BY <1>2, <3>1 DEF UpStep, IdFor
    <2>2. CASE w # sessions[id]
      BY <1>2, <1>5, <2>2 DEF IdFor
    <2> QED
      BY <2>1, <2>2
<1>6. Typed'
    BY <1>2, <1>4, <1>5 DEF Typed, TypeOK, Others, AtStep, AtRec, UpStep, HandlerFits
<1>7. ASSUME NEW w \in Uploads, Started(w)'
      PROVE  /\ up'[w].next = 0 => up'[w].busy = NoChunk
             /\ up'[w].next > 0 => up'[w].ino # None
    BY <1>2, <1>7 DEF UpStep, Placed
<1>8. ASSUME NEW i \in Uploads, Fresh(i)'
      PROVE  /\ part' # i /\ final' # i /\ dl'.ino # i
             /\ \A w \in Uploads : Started(w)' => up'[w].ino # i
    <2>1. Fresh(i)
      BY <1>2, <1>8 DEF Fresh, UpStep
    <2>2. part # i /\ final # i /\ dl.ino # i
          /\ \A w \in Uploads : Started(w) => up[w].ino # i
      BY <2>1 DEF Placed
    <2>3. part' # i
      BY <1>2, <1>8, <2>2, Constants DEF Fresh
    <2>4. \A w \in Uploads : Started(w)' => up'[w].ino # i
      BY <1>2, <2>2, <2>3, Constants DEF UpStep
    <2> QED
      BY <2>2, <2>3, <2>4, Constants
<1>9. Placed'
    BY <1>4, <1>5, <1>7, <1>8 DEF Placed, HandlerFits
<1> QED
    BY <1>6, <1>9

\* A step that leaves the handlers and the uploads alone.
LEMMA BaseKeeps ==
    ASSUME Typed, Placed, at' = at, up' = up, Others',
           \A id \in Ids : sessions'[id] \in {None, sessions[id]},
           part' = part, final' = final, dl'.ino \in {None, dl.ino, final}
    PROVE  Typed' /\ Placed'
<1>1. /\ at \in [Handlers -> AtRec] /\ up \in [Uploads -> Session \cup {Unused}]
      /\ \A w \in Uploads : Started(w) => up[w] \in Session
      /\ Others /\ \A g \in Handlers : HandlerFits(g)
    BY Parts
<1>2. ASSUME NEW g \in Handlers PROVE HandlerFits(g)'
    <2>1. HandlerFits(g)
      BY <1>1
    <2>2. Busy(g) => at[g].u \in Uploads /\ IdFor(at[g].u) \in Ids
      BY <1>1, <2>1, Constants DEF HandlerFits, IdFor, Session
    <2> QED
      BY <2>1, <2>2, Constants DEF HandlerFits, Busy, Started, IdFor
<1>3. ASSUME NEW id \in Ids, sessions'[id] # None
      PROVE  sessions'[id] = sessions[id]
    BY <1>3
<1>4. Typed'
    BY <1>1, <1>2, <1>3
    DEF Typed, TypeOK, Others, AtRec, HandlerFits, Busy, Started, IdFor
<1>5. Placed'
    <2>1. \A id \in Ids : sessions'[id] # None => up'[sessions'[id]].next > 0
      BY <1>3 DEF Placed
    <2> QED
      BY <1>2, <2>1, Constants DEF Placed, HandlerFits, Fresh, Started, Busy
<1> QED
    BY <1>4, <1>5

-----------------------------------------------------------------------------
(* What each action does, and that it keeps Typed and Placed *)

LEMMA GotoEffect ==
    ASSUME at \in [Handlers -> AtRec], NEW h \in Handlers, NEW pc \in Pcs, Goto(h, pc)
    PROVE  /\ AtStep(h)
           /\ at'[h].pc = pc /\ at'[h].u = at[h].u /\ at'[h].k = at[h].k
BY DEF Goto, AtRec, AtStep

LEMMA ReturnEffect ==
    ASSUME at \in [Handlers -> AtRec], NEW h \in Handlers, Return(h)
    PROVE  AtStep(h) /\ at'[h].pc = "idle" /\ at'[h].u = None
BY Constants DEF Return, Idle, AtStep

LEMMA InitStatStep ==
    ASSUME Typed, Placed, raced' \in BOOLEAN, NEW l \in Links, NEW u \in Uploads,
           NEW v \in Versions, NEW r \in Resumes, NEW h, h = <<l, "cmd">>,
           InitStat(l, u, v, r)
    PROVE  /\ Typed' /\ Placed'
           /\ h \in Handlers /\ at[h].pc = "idle" /\ ~Started(u) /\ AtStep(h) /\ UpStep(u)
           /\ at'[h].pc = "open" /\ at'[h].u = u
           /\ up'[u].ino = None /\ up'[u].pos = 0 /\ up'[u].hashed = <<>>
           /\ up'[u].busy = NoChunk /\ ~up'[u].err /\ up'[u].next = 0
           /\ up'[u].append <=> Resumable(r)
           /\ up'[u].off = IF Resumable(r) THEN r ELSE 0
           /\ sessions' = sessions /\ disk' = disk /\ part' = part /\ final' = final
           /\ dl' = dl /\ swallowed' = swallowed
<1> DEFINE b == Resumable(r)
           o == IF b THEN r ELSE 0
           s == [link |-> l, v |-> v, append |-> b, ino |-> None,
                 pos |-> 0, off |-> o, hashed |-> <<>>, busy |-> NoChunk, err |-> FALSE,
                 lock |-> <<>>, next |-> 0]
           x == [pc |-> "open", u |-> u, k |-> NoChunk]
<1>1. /\ at \in [Handlers -> AtRec] /\ up \in [Uploads -> Session \cup {Unused}] /\ Others
    BY Parts
<1>2. h \in Handlers /\ x \in AtRec
    BY Constants DEF AtRec, Pcs
<1>3. /\ at[h] = Idle /\ ~Started(u) /\ up' = [up EXCEPT ![u] = s]
      /\ at' = [at EXCEPT ![h] = x]
      /\ link' = link /\ sessions' = sessions /\ disk' = disk /\ part' = part
      /\ final' = final /\ dl' = dl /\ cancels' = cancels /\ fails' = fails
      /\ swallowed' = swallowed /\ late' = late
    BY DEF InitStat, files, bounds, marks
<1>4. b \in BOOLEAN /\ o \in Nat
    BY TransferAssumption DEF Resumable
<1>5. b <=> Resumable(r)
    OBVIOUS
<1>6. o = IF Resumable(r) THEN r ELSE 0
    OBVIOUS
<1> HIDE DEF b, o
<1>7. s \in Session
    BY <1>4 DEF Session
<1>8. /\ up'[u] = s /\ UpStep(u)
      /\ s.append = b /\ s.off = o /\ s.ino = None /\ s.pos = 0 /\ s.hashed = <<>>
      /\ s.busy = NoChunk /\ ~s.err /\ s.next = 0 /\ s.link = l
    BY <1>1, <1>3, <1>7 DEF UpStep
<1> HIDE DEF s
<1>9. AtStep(h) /\ at'[h].pc = "open" /\ at'[h].u = u
    BY <1>1, <1>2, <1>3 DEF AtStep
<1>10. Others'
    BY <1>1, <1>3 DEF Others
<1>11. HandlerFits(h)'
    BY <1>8, <1>9, SessionsStarted DEF HandlerFits, Busy, Started, UpStep, InitPcs, Takers
<1>12. Typed' /\ Placed'
    BY <1>2, <1>3, <1>8, <1>9, <1>10, <1>11, BaseStep
<1> QED
    BY <1>2, <1>3, <1>5, <1>6, <1>8, <1>9, <1>12 DEF Idle

LEMMA OpenStep ==
    ASSUME Typed, Placed, raced' \in BOOLEAN, NEW l \in Links, NEW h, h = <<l, "cmd">>,
           NEW u, u = at[h].u, Open(l)
    PROVE  /\ Typed' /\ Placed'
           /\ h \in Handlers /\ at[h].pc = "open" /\ u \in Uploads /\ up[u] \in Session
           /\ AtStep(h) /\ UpStep(u)
           /\ up'[u].pos = up[u].pos /\ up'[u].hashed = up[u].hashed
           /\ up'[u].busy = up[u].busy /\ up'[u].err = up[u].err
           /\ up'[u].next = up[u].next /\ up'[u].off = up[u].off
           /\ up'[u].ino = part'
           /\ \/ /\ up[u].append /\ part = None /\ at'[h].pc = "idle" /\ at'[h].u = None
                 /\ disk' = disk /\ part' = part
              \/ /\ up[u].append /\ part # None /\ at'[h].pc = "hash" /\ at'[h].u = u
                 /\ disk' = disk /\ part' = part
              \/ /\ ~up[u].append /\ at'[h].pc = "insert" /\ at'[h].u = u
                 /\ part' = IF part = None THEN u ELSE part
                 /\ disk' = [disk EXCEPT ![part'] = <<>>]
           /\ Fresh(u)
           /\ sessions' = sessions /\ final' = final
           /\ dl' = dl /\ swallowed' = swallowed
<1>1. /\ at \in [Handlers -> AtRec] /\ up \in [Uploads -> Session \cup {Unused}] /\ Others
      /\ h \in Handlers /\ HandlerFits(h) /\ at[h].pc = "open"
    BY Parts, Constants DEF Open
<1>2. /\ u \in Uploads /\ Started(u) /\ up[u] \in Session /\ up[u].ino = None
      /\ h = <<up[u].link, "cmd">> /\ up[u].next = 0
    BY <1>1, Parts DEF HandlerFits, Busy, InitPcs
<1>3. /\ up' = [up EXCEPT ![u].ino = part'] /\ link' = link /\ sessions' = sessions
      /\ final' = final /\ dl' = dl /\ cancels' = cancels /\ fails' = fails
      /\ swallowed' = swallowed /\ late' = late
    BY DEF Open, bounds, marks
<1>4. \/ /\ up[u].append /\ part = None /\ Return(h) /\ disk' = disk /\ part' = part
      \/ /\ up[u].append /\ part # None /\ Goto(h, "hash") /\ disk' = disk /\ part' = part
      \/ /\ ~up[u].append /\ Goto(h, "insert")
         /\ part' = IF part = None THEN u ELSE part
         /\ disk' = [disk EXCEPT ![part'] = <<>>]
    BY DEF Open
<1>5. /\ AtStep(h)
      /\ \/ /\ up[u].append /\ part = None /\ at'[h].pc = "idle" /\ at'[h].u = None
            /\ disk' = disk /\ part' = part
         \/ /\ up[u].append /\ part # None /\ at'[h].pc = "hash" /\ at'[h].u = u
            /\ disk' = disk /\ part' = part
         \/ /\ ~up[u].append /\ at'[h].pc = "insert" /\ at'[h].u = u
            /\ part' = IF part = None THEN u ELSE part
            /\ disk' = [disk EXCEPT ![part'] = <<>>]
    BY <1>1, <1>4, GotoEffect, ReturnEffect DEF Pcs
<1>6. part' \in {None} \cup Uploads /\ disk' \in [Uploads -> Seq(Chunk)]
      /\ part' \in {None, part, u}
    <2>1. <<>> \in Seq(Chunk)
      OBVIOUS
    <2> QED
      BY <1>1, <1>2, <1>5, <2>1 DEF Others
<1>7. up'[u] = [up[u] EXCEPT !.ino = part']
    BY <1>1, <1>2, <1>3
<1>8. up'[u] \in Session
    BY <1>2, <1>6, <1>7 DEF Session
<1>9. /\ UpStep(u) /\ up'[u].ino = part'
      /\ up'[u].pos = up[u].pos /\ up'[u].hashed = up[u].hashed
      /\ up'[u].busy = up[u].busy /\ up'[u].err = up[u].err
      /\ up'[u].next = up[u].next /\ up'[u].off = up[u].off
    BY ZenonT(60), <1>1, <1>2, <1>3, <1>7, <1>8 DEF Session, UpStep
<1>10. Others'
    BY <1>1, <1>3, <1>6 DEF Others
<1>11. HandlerFits(h)'
    <2>1. Started(u)' /\ up'[u].link = up[u].link
      BY <1>2, <1>9, SessionsStarted DEF Started, UpStep
    <2>2. at'[h].pc = "hash" \/ at'[h].pc = "insert" => part' # None
      BY <1>2, <1>5, Constants
    <2> QED
      BY <1>2, <1>5, <1>9, <2>1, <2>2 DEF HandlerFits, Busy, InitPcs, Takers
<1>12. up[u].busy = NoChunk /\ Fresh(u)
    BY <1>2 DEF Placed, Fresh
<1>13. part' \in {None, part} \/ (part' = u /\ up'[u].ino = u)
    BY <1>6, <1>9
<1>14. Typed' /\ Placed'
    BY SMTT(60), <1>1, <1>2, <1>3, <1>5, <1>9, <1>10, <1>11, <1>12, <1>13, BaseStep
<1> QED
    BY <1>1, <1>2, <1>3, <1>5, <1>9, <1>12, <1>14

LEMMA HashStep ==
    ASSUME Typed, Placed, raced' \in BOOLEAN, NEW l \in Links, NEW h, h = <<l, "cmd">>,
           NEW u, u = at[h].u, Hash(l)
    PROVE  /\ Typed' /\ Placed'
           /\ h \in Handlers /\ at[h].pc = "hash" /\ u \in Uploads /\ up[u] \in Session
           /\ AtStep(h) /\ UpStep(u)
           /\ up'[u].pos = up[u].pos /\ up'[u].ino = up[u].ino
           /\ up'[u].busy = up[u].busy /\ up'[u].err = up[u].err
           /\ up'[u].next = up[u].next /\ up'[u].off = up[u].off
           /\ \/ part = None /\ at'[h].pc = "idle" /\ at'[h].u = None
              \/ /\ part # None /\ at'[h].pc = "insert" /\ at'[h].u = u
                 /\ up'[u].hashed = disk[part]
           /\ sessions' = sessions /\ disk' = disk /\ part' = part /\ final' = final
           /\ dl' = dl /\ swallowed' = swallowed
<1>1. /\ at \in [Handlers -> AtRec] /\ up \in [Uploads -> Session \cup {Unused}] /\ Others
      /\ h \in Handlers /\ HandlerFits(h) /\ at[h].pc = "hash"
    BY Parts, Constants DEF Hash
<1>2. /\ u \in Uploads /\ Started(u) /\ up[u] \in Session /\ up[u].ino # None
      /\ h = <<up[u].link, "cmd">> /\ up[u].next = 0
    BY <1>1, Parts DEF HandlerFits, Busy, InitPcs
<1>3. /\ link' = link /\ sessions' = sessions /\ disk' = disk /\ part' = part
      /\ final' = final /\ dl' = dl /\ cancels' = cancels /\ fails' = fails
      /\ swallowed' = swallowed /\ late' = late
    BY DEF Hash, files, bounds, marks
<1>4. \/ part = None /\ Return(h) /\ up' = up
      \/ /\ part # None /\ Goto(h, "insert") /\ up' = [up EXCEPT ![u].hashed = disk[part]]
    BY DEF Hash
<1>5. /\ AtStep(h)
      /\ \/ part = None /\ at'[h].pc = "idle" /\ at'[h].u = None /\ up' = up
         \/ /\ part # None /\ at'[h].pc = "insert" /\ at'[h].u = u
            /\ up' = [up EXCEPT ![u].hashed = disk[part]]
    BY <1>1, <1>4, GotoEffect, ReturnEffect DEF Pcs
<1>6. CASE part = None
    <2>1. up' = up /\ at'[h].pc = "idle" /\ at'[h].u = None
      BY <1>5, <1>6
    <2>2. UpStep(u)
      BY <1>1, <1>2, <2>1 DEF UpStep
    <2>3. Others' /\ HandlerFits(h)'
      BY <1>1, <1>3, <2>1 DEF Others, HandlerFits, Busy
    <2>4. up[u].busy = NoChunk
      BY <1>2 DEF Placed
    <2>5. Typed' /\ Placed'
      BY <1>1, <1>2, <1>3, <1>5, <2>1, <2>2, <2>3, <2>4, BaseStep
    <2> QED
      BY <1>1, <1>2, <1>3, <1>5, <1>6, <2>1, <2>2, <2>5
<1>7. CASE part # None
    <2>1. up' = [up EXCEPT ![u].hashed = disk[part]] /\ at'[h].pc = "insert" /\ at'[h].u = u
      BY <1>5, <1>7
    <2>2. disk[part] \in Seq(Chunk) /\ up'[u] = [up[u] EXCEPT !.hashed = disk[part]]
      BY <1>1, <1>2, <1>7, <2>1 DEF Others
    <2>3. up'[u] \in Session
      BY <1>2, <2>2 DEF Session
    <2>4. /\ UpStep(u) /\ up'[u].hashed = disk[part]
          /\ up'[u].pos = up[u].pos /\ up'[u].ino = up[u].ino
          /\ up'[u].busy = up[u].busy /\ up'[u].err = up[u].err
          /\ up'[u].next = up[u].next /\ up'[u].off = up[u].off
      BY <1>1, <1>2, <2>1, <2>2, <2>3 DEF Session, UpStep
    <2>5. Others'
      BY <1>1, <1>3 DEF Others
    <2>6. HandlerFits(h)'
      BY <1>2, <2>1, <2>4, SessionsStarted
      DEF HandlerFits, Busy, InitPcs, Takers, Started, UpStep
    <2>7. up[u].busy = NoChunk
      BY <1>2 DEF Placed
    <2>8. Typed' /\ Placed'
      BY <1>1, <1>2, <1>3, <1>5, <2>4, <2>5, <2>6, <2>7, BaseStep
    <2> QED
      BY <1>1, <1>2, <1>3, <1>5, <1>7, <2>1, <2>4, <2>8
<1> QED
    BY <1>6, <1>7

LEMMA InsertStep ==
    ASSUME Typed, Placed, raced' \in BOOLEAN, NEW l \in Links, NEW h, h = <<l, "cmd">>,
           NEW u, u = at[h].u, Insert(l)
    PROVE  /\ Typed' /\ Placed'
           /\ h \in Handlers /\ at[h].pc = "insert" /\ u \in Uploads /\ up[u] \in Session
           /\ AtStep(h) /\ UpStep(u)
           /\ up'[u].pos = up[u].pos /\ up'[u].ino = up[u].ino
           /\ up'[u].busy = up[u].busy /\ up'[u].err = up[u].err
           /\ up'[u].hashed = up[u].hashed /\ up'[u].off = up[u].off
           /\ up'[u].next = up[u].off + 1
           /\ IF up[u].off = N THEN at'[h].pc = "take" /\ at'[h].u = u
              ELSE at'[h].pc = "idle" /\ at'[h].u = None
           /\ IdFor(u) \in Ids /\ sessions' = [sessions EXCEPT ![IdFor(u)] = u]
           /\ disk' = disk /\ part' = part /\ final' = final
           /\ dl' = dl /\ swallowed' = swallowed
           /\ link' = link /\ late' = IF link[l] = "swept" THEN late \cup {u} ELSE late
<1>1. /\ at \in [Handlers -> AtRec] /\ up \in [Uploads -> Session \cup {Unused}] /\ Others
      /\ h \in Handlers /\ HandlerFits(h) /\ at[h].pc = "insert"
    BY Parts, Constants DEF Insert
<1>2. /\ u \in Uploads /\ Started(u) /\ up[u] \in Session /\ up[u].ino # None
      /\ h = <<up[u].link, "cmd">> /\ up[u].next = 0
    BY <1>1, Parts DEF HandlerFits, Busy, InitPcs
<1>3. /\ link' = link /\ disk' = disk /\ part' = part
      /\ final' = final /\ dl' = dl /\ cancels' = cancels /\ fails' = fails
      /\ swallowed' = swallowed
      /\ late' = IF link[l] = "swept" THEN late \cup {u} ELSE late
      /\ sessions' = [sessions EXCEPT ![IdFor(u)] = u]
      /\ up' = [up EXCEPT ![u].next = up[u].off + 1]
      /\ IF up[u].off = N THEN Goto(h, "take") ELSE Return(h)
    BY DEF Insert, files, bounds
<1>4. /\ AtStep(h)
      /\ IF up[u].off = N THEN at'[h].pc = "take" /\ at'[h].u = u
         ELSE at'[h].pc = "idle" /\ at'[h].u = None
    BY <1>1, <1>3, GotoEffect, ReturnEffect DEF Pcs
<1>5. IdFor(u) \in Ids /\ IdFor(u) = IdOf[up[u].v]
    BY <1>2, Constants DEF Session, IdFor
<1>6. up'[u] = [up[u] EXCEPT !.next = up[u].off + 1] /\ up[u].off \in Nat
    BY <1>1, <1>2, <1>3 DEF Session
<1>7. up'[u] \in Session
    BY SMTT(40), <1>2, <1>6 DEF Session
<1>8. /\ UpStep(u) /\ up'[u].next = up[u].off + 1 /\ up'[u].next > 0
      /\ up'[u].pos = up[u].pos /\ up'[u].ino = up[u].ino
      /\ up'[u].busy = up[u].busy /\ up'[u].err = up[u].err
      /\ up'[u].hashed = up[u].hashed /\ up'[u].off = up[u].off
    <2>1. UpStep(u)
      BY <1>1, <1>2, <1>3, <1>6, <1>7 DEF Session, UpStep
    <2>2. /\ up'[u].next = up[u].off + 1
          /\ up'[u].pos = up[u].pos /\ up'[u].ino = up[u].ino
          /\ up'[u].busy = up[u].busy /\ up'[u].err = up[u].err
          /\ up'[u].hashed = up[u].hashed /\ up'[u].off = up[u].off
      BY <1>2, <1>6 DEF Session
    <2> QED
      BY <1>6, <2>1, <2>2
<1>9. Others'
    BY <1>1, <1>2, <1>3 DEF Others
<1>10. HandlerFits(h)'
    BY <1>2, <1>4, <1>8, SessionsStarted
    DEF HandlerFits, Busy, InitPcs, Takers, Started, UpStep
<1>11. \A id \in Ids : \/ sessions'[id] \in {None, sessions[id]}
                       \/ sessions'[id] = u /\ IdOf[up'[u].v] = id
    BY SMTT(60), <1>1, <1>2, <1>3, <1>5, <1>8 DEF Others, UpStep
<1>12. Typed' /\ Placed'
    BY SMTT(60), <1>1, <1>2, <1>3, <1>4, <1>8, <1>9, <1>10, <1>11, BaseStep
<1> QED
    BY <1>1, <1>2, <1>3, <1>4, <1>5, <1>8, <1>12

LEMMA CancelTakeStep ==
    ASSUME Typed, Placed, raced' \in BOOLEAN, NEW l \in Links, NEW id \in Ids,
           NEW h, h = <<l, "cmd">>, NEW u, u = sessions[id], CancelTake(l, id)
    PROVE  /\ Typed' /\ Placed'
           /\ h \in Handlers /\ at[h].pc = "idle" /\ up' = up
           /\ \/ u = None /\ at' = at /\ sessions' = sessions
              \/ /\ u \in Uploads /\ Started(u) /\ AtStep(h)
                 /\ at'[h].pc = "cancel" /\ at'[h].u = u
                 /\ IdFor(u) = id /\ sessions' = [sessions EXCEPT ![id] = None]
           /\ disk' = disk /\ part' = part /\ final' = final /\ swallowed' = swallowed
           /\ link' = link /\ late' = late
           /\ dl'.pc = dl.pc /\ dl'.ino = dl.ino /\ dl'.at = dl.at
           /\ dl'.sum = dl.sum /\ dl'.sent = dl.sent /\ dl'.cut = dl.cut
<1>1. /\ at \in [Handlers -> AtRec] /\ up \in [Uploads -> Session \cup {Unused}] /\ Others
      /\ h \in Handlers /\ at[h] = Idle
    BY Parts, Constants DEF CancelTake
<1>2. /\ sessions' = [sessions EXCEPT ![id] = None]
      /\ IF u = None THEN at' = at
         ELSE at' = [at EXCEPT ![h] = [Idle EXCEPT !.pc = "cancel", !.u = u]]
      /\ dl' = IF Streaming /\ dl.id = id THEN [dl EXCEPT !.flag = TRUE] ELSE dl
      /\ cancels' = cancels + 1
      /\ link' = link /\ up' = up /\ disk' = disk /\ part' = part /\ final' = final
      /\ fails' = fails /\ swallowed' = swallowed /\ late' = late
    BY DEF CancelTake, files, marks
<1>3. /\ dl' \in Download /\ dl'.pc = dl.pc /\ dl'.ino = dl.ino /\ dl'.at = dl.at
      /\ dl'.sum = dl.sum /\ dl'.sent = dl.sent /\ dl'.cut = dl.cut
    BY <1>1, <1>2 DEF Others, Download
<1>4. Others'
    BY <1>1, <1>2, <1>3 DEF Others
<1>5. CASE u = None
    <2>1. sessions' = sessions
      BY <1>1, <1>2, <1>5 DEF Others
    <2>2. Typed' /\ Placed'
      BY <1>2, <1>3, <1>4, <1>5, <2>1, BaseKeeps
    <2> QED
      BY <1>1, <1>2, <1>3, <1>5, <2>1, <2>2 DEF Idle
<1>6. CASE u # None
    <2> DEFINE x == [pc |-> "cancel", u |-> u, k |-> NoChunk]
    <2>1. u \in Uploads /\ Started(u) /\ IdFor(u) = id /\ up[u].next > 0
          /\ up[u] \in Session
      BY <1>1, <1>6, Parts DEF Others, Typed, Placed
    <2>2. x \in AtRec /\ at' = [at EXCEPT ![h] = x]
      BY <1>2, <1>6, <2>1 DEF Idle, AtRec, Pcs
    <2>3. AtStep(h) /\ at'[h].pc = "cancel" /\ at'[h].u = u
      BY <1>1, <2>2 DEF AtStep
    <2>4. UpStep(u)
      BY <1>1, <1>2, <2>1 DEF UpStep
    <2>5. HandlerFits(h)'
      <3>1. sessions'[id] # u /\ Started(u)' /\ IdFor(u)' = id /\ up'[u].next > 0
        BY <1>1, <1>2, <1>6, <2>1 DEF Others, Started, IdFor
      <3> QED
        BY <2>1, <2>3, <3>1 DEF HandlerFits, Busy, InitPcs, Takers
    <2>6. \A i \in Ids : sessions'[i] \in {None, sessions[i]}
      BY <1>1, <1>2 DEF Others
    <2>7. up[u].next = 0 => up[u].busy = NoChunk
      BY <2>1
    <2>8. up[u].ino # None
      BY <2>1 DEF Placed
    <2>9. Typed' /\ Placed'
      BY <1>1, <1>2, <1>3, <1>4, <2>1, <2>3, <2>4, <2>5, <2>6, <2>7, <2>8, BaseStep
    <2> QED
      BY <1>1, <1>2, <1>3, <2>1, <2>3, <2>9 DEF Idle
<1> QED
    BY <1>5, <1>6

\* The handler holds an upload that has been registered; nothing of the upload
\* that Typed and Placed are about changes.
LEMMA HoldingStep ==
    ASSUME Typed, Placed, NEW h \in Handlers, NEW u \in Uploads, NEW o \in Uploads,
           Started(u), Started(o), up[u].next > 0, up[o].next > 0,
           AtStep(h), UpStep(u), Others',
           up'[u].ino = up[u].ino, up'[u].next \in {up[u].next, up[u].next + 1},
           \/ at'[h].pc = "idle" /\ at'[h].u = None
           \/ /\ at'[h].u = o /\ at'[h].pc \notin InitPcs \cup {"idle"}
              /\ at'[h].pc \in Takers => sessions'[IdFor(o)] # o
              /\ at'[h].pc \in {"write", "flush"} => at'[h].k \in Versions \X (1 .. N),
           \A id \in Ids : sessions'[id] \in {None, sessions[id]},
           part' \in {None, part}, final' \in {final, part}, dl' = dl
    PROVE  Typed' /\ Placed'
<1>1. up[u] \in Session /\ up[u].next \in Nat /\ up[u].ino # None
    BY Parts DEF Session, Placed
<1>2. up'[u].next > 0
    BY <1>1
<1>3. Started(o)' /\ up'[o].v = up[o].v /\ up'[o].next > 0
    BY <1>2, Parts, SessionsStarted DEF UpStep, Started
<1>4. HandlerFits(h)'
    BY <1>3 DEF HandlerFits, Busy, InitPcs, IdFor
<1> QED
    BY <1>1, <1>2, <1>4, BaseStep

\* What the handler that holds an upload finds.
LEMMA Holding ==
    ASSUME Typed, Placed, NEW h \in Handlers, NEW u, u = at[h].u,
           at[h].pc \notin InitPcs \cup {"idle"}
    PROVE  /\ u \in Uploads /\ Started(u) /\ up[u] \in Session /\ up[u].next > 0
           /\ up[u].ino \in Uploads /\ IdFor(u) \in Ids /\ IdFor(u) = IdOf[up[u].v]
           /\ at \in [Handlers -> AtRec] /\ up \in [Uploads -> Session \cup {Unused}]
           /\ Others
           /\ at[h].pc \in {"write", "flush"} => at[h].k \in Versions \X (1 .. N)
           /\ at[h].pc \in Takers => sessions[IdFor(u)] # u
<1>1. HandlerFits(h)
    BY Parts
<1>2. u \in Uploads /\ Started(u) /\ up[u].next > 0
    BY <1>1 DEF HandlerFits, Busy
<1>3. up[u] \in Session /\ up[u].ino # None
    BY <1>2, Parts DEF Placed
<1> QED
    BY <1>1, <1>2, <1>3, Parts, Constants DEF HandlerFits, Busy, Session, IdFor

LEMMA CancelUnlinkStep ==
    ASSUME Typed, Placed, raced' \in BOOLEAN, NEW l \in Links, NEW h, h = <<l, "cmd">>,
           NEW u, u = at[h].u, CancelUnlink(l)
    PROVE  /\ Typed' /\ Placed'
           /\ h \in Handlers /\ at[h].pc = "cancel" /\ u \in Uploads /\ Started(u)
           /\ sessions[IdFor(u)] # u
           /\ AtStep(h) /\ at'[h].pc = "idle" /\ at'[h].u = None /\ up' = up
           /\ part' = None
           /\ sessions' = sessions /\ disk' = disk /\ final' = final
           /\ dl' = dl /\ swallowed' = swallowed
<1>1. h \in Handlers /\ at[h].pc = "cancel" /\ at[h].pc \notin InitPcs \cup {"idle"}
    BY Constants DEF CancelUnlink, InitPcs
<1>2. /\ u \in Uploads /\ Started(u) /\ up[u] \in Session /\ up[u].next > 0
      /\ at \in [Handlers -> AtRec] /\ up \in [Uploads -> Session \cup {Unused}]
      /\ Others /\ sessions[IdFor(u)] # u
    BY <1>1, Holding DEF Takers
<1>3. /\ part' = None /\ Return(h) /\ link' = link /\ up' = up
      /\ sessions' = sessions /\ disk' = disk /\ final' = final /\ dl' = dl
      /\ cancels' = cancels /\ fails' = fails
      /\ swallowed' = swallowed /\ late' = late
    BY DEF CancelUnlink, bounds, marks
<1>4. AtStep(h) /\ at'[h].pc = "idle" /\ at'[h].u = None
    BY <1>1, <1>2, <1>3, ReturnEffect
<1>5. UpStep(u) /\ Others'
    BY <1>2, <1>3 DEF UpStep, Others
<1>6. Typed' /\ Placed'
    BY <1>1, <1>2, <1>3, <1>4, <1>5, HoldingStep
<1> QED
    BY <1>1, <1>2, <1>3, <1>4, <1>6

LEMMA LookupStep ==
    ASSUME Typed, Placed, raced' \in BOOLEAN, NEW l \in Links, NEW u \in Uploads, Started(u),
           NEW h, h = <<l, "fs">>, NEW o, o = sessions[IdFor(u)], Lookup(l, u)
    PROVE  /\ Typed' /\ Placed'
           /\ h \in Handlers /\ at[h].pc = "idle" /\ up[u] \in Session
           /\ up[u].link = l /\ up[u].next \in 1 .. N
           /\ AtStep(h) /\ UpStep(u)
           /\ up'[u].pos = up[u].pos /\ up'[u].ino = up[u].ino
           /\ up'[u].busy = up[u].busy /\ up'[u].err = up[u].err
           /\ up'[u].hashed = up[u].hashed /\ up'[u].off = up[u].off
           /\ up'[u].next = up[u].next + 1
           /\ \/ o = None /\ at' = at
              \/ /\ o \in Uploads /\ Started(o) /\ IdFor(o) = IdFor(u)
                 /\ at'[h].pc = "write" /\ at'[h].u = o
                 /\ at'[h].k = <<up[u].v, up[u].next>>
           /\ IdFor(u) \in Ids
           /\ sessions' = sessions /\ disk' = disk /\ part' = part /\ final' = final
           /\ dl' = dl /\ swallowed' = swallowed
<1>1. /\ at \in [Handlers -> AtRec] /\ up \in [Uploads -> Session \cup {Unused}] /\ Others
      /\ h \in Handlers /\ at[h] = Idle /\ up[u] \in Session
    BY Parts, Constants DEF Lookup
<1>2. /\ up[u].link = l /\ up[u].next \in 1 .. N
      /\ up' = [up EXCEPT ![u].next = @ + 1]
      /\ IF o = None THEN at' = at
         ELSE at' = [at EXCEPT ![h] = [pc |-> "write", u |-> o,
                                       k |-> <<up[u].v, up[u].next>>]]
      /\ link' = link /\ sessions' = sessions /\ disk' = disk /\ part' = part
      /\ final' = final /\ dl' = dl /\ cancels' = cancels /\ fails' = fails
      /\ swallowed' = swallowed /\ late' = late
    BY DEF Lookup, More, files, bounds, marks
<1>3. IdFor(u) \in Ids /\ up[u].v \in Versions
    BY <1>1, Constants DEF IdFor, Session
<1>4. up'[u] = [up[u] EXCEPT !.next = @ + 1] /\ up[u].next \in Nat
    BY <1>1, <1>2 DEF Session
<1>5. up'[u] \in Session
    BY SMTT(40), <1>1, <1>4 DEF Session
<1>6. /\ up'[u].pos = up[u].pos /\ up'[u].ino = up[u].ino
      /\ up'[u].busy = up[u].busy /\ up'[u].err = up[u].err
      /\ up'[u].hashed = up[u].hashed /\ up'[u].off = up[u].off
      /\ up'[u].next = up[u].next + 1
    BY <1>1, <1>4 DEF Session
<1>7. UpStep(u)
    BY <1>1, <1>2, <1>4, <1>5 DEF UpStep, Session
<1>8. Others'
    BY <1>1, <1>2 DEF Others
<1>9. CASE o = None
    <2>1. AtStep(h) /\ at'[h].pc = "idle" /\ at'[h].u = None
      BY <1>1, <1>2, <1>9 DEF AtStep, Idle
    <2>2. Typed' /\ Placed'
      BY <1>1, <1>2, <1>6, <1>7, <1>8, <2>1, HoldingStep
    <2> QED
      BY <1>1, <1>2, <1>3, <1>6, <1>7, <1>9, <2>1, <2>2 DEF Idle
<1>10. CASE o # None
    <2> DEFINE k == <<up[u].v, up[u].next>>
               x == [pc |-> "write", u |-> o, k |-> k]
    <2>1. o \in Uploads /\ Started(o) /\ IdFor(o) = IdFor(u) /\ up[o].next > 0
      BY <1>1, <1>3, <1>10 DEF Others, Typed, Placed
    <2>2. k \in Versions \X (1 .. N) /\ x \in AtRec
      BY <1>2, <1>3, <2>1 DEF AtRec, Pcs, Chunk
    <2>3. /\ AtStep(h) /\ at'[h].pc = "write" /\ at'[h].u = o /\ at'[h].k = k
      BY <1>1, <1>2, <1>10, <2>2 DEF AtStep
    <2> HIDE DEF k
    <2>4. Typed' /\ Placed'
      BY <1>1, <1>2, <1>6, <1>7, <1>8, <2>1, <2>2, <2>3, HoldingStep DEF InitPcs, Takers
    <2> QED
      BY <1>1, <1>2, <1>3, <1>6, <1>7, <2>1, <2>3, <2>4 DEF Idle, k
<1> QED
    BY <1>9, <1>10

LEMMA SkipStep ==
    ASSUME Typed, Placed, raced' \in BOOLEAN, NEW l \in Links, NEW h, h = <<l, "fs">>,
           NEW u, u = at[h].u, Skip(l)
    PROVE  /\ Typed' /\ Placed'
           /\ h \in Handlers /\ at[h].pc = "write" /\ u \in Uploads /\ up[u] \in Session
           /\ up[u].next > 0 /\ at[h].k[2] \in 1 .. N
           /\ AtStep(h) /\ UpStep(u) /\ at'[h].pc = "idle" /\ at'[h].u = None
           /\ up'[u].pos = up[u].pos /\ up'[u].ino = up[u].ino
           /\ up'[u].busy = up[u].busy /\ up'[u].next = up[u].next
           /\ up'[u].hashed = up[u].hashed /\ up'[u].off = up[u].off
           /\ \/ up'[u].err = up[u].err
              \/ at[h].k[2] = up[u].off + 1 /\ up[u].err /\ ~up'[u].err
           /\ sessions' = sessions /\ disk' = disk /\ part' = part /\ final' = final
           /\ dl' = dl /\ swallowed' = swallowed
<1>1. h \in Handlers /\ at[h].pc = "write" /\ at[h].pc \notin InitPcs \cup {"idle"}
    BY Constants DEF Skip, InitPcs
<1>2. /\ u \in Uploads /\ Started(u) /\ up[u] \in Session /\ up[u].next > 0
      /\ at \in [Handlers -> AtRec] /\ up \in [Uploads -> Session \cup {Unused}]
      /\ Others /\ at[h].k[2] \in 1 .. N
    BY <1>1, Holding
<1>3. /\ Return(h) /\ link' = link /\ part' = part
      /\ sessions' = sessions /\ disk' = disk /\ final' = final /\ dl' = dl
      /\ cancels' = cancels /\ fails' = fails
      /\ swallowed' = swallowed /\ late' = late
      /\ \/ up' = up
         \/ at[h].k[2] = up[u].off + 1 /\ up[u].err /\ up' = [up EXCEPT ![u].err = FALSE]
    BY DEF Skip, files, bounds, marks
<1>4. AtStep(h) /\ at'[h].pc = "idle" /\ at'[h].u = None
    BY <1>1, <1>2, <1>3, ReturnEffect
<1>5. Others'
    BY <1>2, <1>3 DEF Others
<1>6. /\ UpStep(u)
      /\ up'[u].pos = up[u].pos /\ up'[u].ino = up[u].ino
      /\ up'[u].busy = up[u].busy /\ up'[u].next = up[u].next
      /\ up'[u].hashed = up[u].hashed /\ up'[u].off = up[u].off
      /\ \/ up'[u].err = up[u].err
         \/ at[h].k[2] = up[u].off + 1 /\ up[u].err /\ ~up'[u].err
    <2>1. CASE up' = up
      BY <1>2, <2>1 DEF UpStep
    <2>2. CASE /\ at[h].k[2] = up[u].off + 1 /\ up[u].err
               /\ up' = [up EXCEPT ![u].err = FALSE]
      <3>1. up'[u] = [up[u] EXCEPT !.err = FALSE]
        BY <1>2, <2>2
      <3>2. up'[u] \in Session
        BY <1>2, <3>1 DEF Session
      <3> QED
        BY ZenonT(60), <1>2, <2>2, <3>1, <3>2 DEF UpStep, Session
    <2> QED
      BY <1>3, <2>1, <2>2
<1>7. Typed' /\ Placed'
    BY <1>1, <1>2, <1>3, <1>4, <1>5, <1>6, HoldingStep
<1> QED
    BY <1>1, <1>2, <1>3, <1>4, <1>6, <1>7

\* An append, named so that the next lemma can be cited as it stands.
Longer(s, c) == Append(s, c)

LEMMA WriteStep ==
    ASSUME Typed, Placed, raced' \in BOOLEAN, NEW l \in Links, NEW h, h = <<l, "fs">>,
           NEW u, u = at[h].u, NEW k, k = at[h].k, Write(l)
    PROVE  /\ Typed' /\ Placed'
           /\ h \in Handlers /\ at[h].pc = "write" /\ u \in Uploads /\ up[u] \in Session
           /\ up[u].next > 0 /\ k \in Chunk /\ k[2] = up[u].off + 1
           /\ up[u].busy = NoChunk /\ ~up[u].err
           /\ AtStep(h) /\ UpStep(u)
           /\ \/ at'[h].pc = "idle" /\ at'[h].u = None
              \/ at'[h].pc = "flush" /\ at'[h].u = u /\ at'[h].k = k
           /\ up'[u].pos = up[u].pos /\ up'[u].ino = up[u].ino
           /\ up'[u].busy = k /\ up'[u].next = up[u].next /\ up'[u].err = up[u].err
           /\ up'[u].hashed = Longer(up[u].hashed, k) /\ up'[u].off = up[u].off + 1
           /\ sessions' = sessions /\ disk' = disk /\ part' = part /\ final' = final
           /\ dl' = dl /\ swallowed' = swallowed
<1>1. h \in Handlers /\ at[h].pc = "write" /\ at[h].pc \notin InitPcs \cup {"idle"}
    BY Constants DEF Write, InitPcs
<1>2. /\ u \in Uploads /\ Started(u) /\ up[u] \in Session /\ up[u].next > 0
      /\ at \in [Handlers -> AtRec] /\ up \in [Uploads -> Session \cup {Unused}]
      /\ Others /\ k \in Versions \X (1 .. N) /\ k \in Chunk
    BY <1>1, Holding DEF Chunk
<1>3. /\ link' = link /\ part' = part
      /\ sessions' = sessions /\ disk' = disk /\ final' = final /\ dl' = dl
      /\ cancels' = cancels /\ fails' = fails
      /\ swallowed' = swallowed /\ late' = late
      /\ k[2] = up[u].off + 1 /\ up[u].busy = NoChunk /\ ~up[u].err
      /\ Goto(h, "flush") \/ Return(h)
    BY DEF Write, files, bounds, marks
<1>4. \E b \in Handlers \cup {<<>>} :
        up' = [up EXCEPT ![u].busy = k, ![u].hashed = Append(@, k),
                         ![u].off = @ + 1, ![u].lock = b]
    BY <1>1 DEF Write
<1>5. PICK b \in Handlers \cup {<<>>} :
        up' = [up EXCEPT ![u].busy = k, ![u].hashed = Append(@, k),
                         ![u].off = @ + 1, ![u].lock = b]
    BY <1>4
<1>6. up'[u] = [up[u] EXCEPT !.busy = k, !.hashed = Append(@, k), !.off = @ + 1, !.lock = b]
    BY <1>2, <1>5
<1>0. up[u] \in Session /\ k \in Chunk /\ u \in Uploads
      /\ up \in [Uploads -> Session \cup {Unused}]
    BY <1>2
<1>7. up'[u] \in Session
    <2>1. /\ b \in Handlers \cup {<<>>} /\ up[u].off + 1 \in Nat
          /\ Append(up[u].hashed, k) \in Seq(Chunk) /\ k \in Chunk \cup {NoChunk}
      BY SMTT(60), <1>0, <1>5 DEF Session
    <2> QED
      BY <1>0, <1>6, <2>1 DEF Session
<1>8. UpStep(u)
    <2>1. up' \in [Uploads -> Session \cup {Unused}] /\ \A w \in Uploads \ {u} : up'[w] = up[w]
      BY <1>0, <1>5, <1>7
    <2>2. up'[u].v = up[u].v /\ up'[u].link = up[u].link /\ up'[u].append = up[u].append
      BY <1>0, <1>6 DEF Session
    <2> QED
      BY <1>7, <2>1, <2>2 DEF UpStep
<1>9. /\ up'[u].pos = up[u].pos /\ up'[u].ino = up[u].ino
      /\ up'[u].busy = k /\ up'[u].next = up[u].next /\ up'[u].err = up[u].err
      /\ up'[u].hashed = Append(up[u].hashed, k) /\ up'[u].off = up[u].off + 1
    BY <1>2, <1>6 DEF Session
<1>10. /\ AtStep(h)
       /\ \/ at'[h].pc = "idle" /\ at'[h].u = None
          \/ at'[h].pc = "flush" /\ at'[h].u = u /\ at'[h].k = k
    BY <1>1, <1>2, <1>3, GotoEffect, ReturnEffect DEF Pcs
<1>11. Others'
    BY <1>2, <1>3 DEF Others
<1>12. Typed' /\ Placed'
    BY <1>1, <1>2, <1>3, <1>8, <1>9, <1>10, <1>11, HoldingStep DEF InitPcs, Takers
<1> QED
    BY <1>1, <1>2, <1>3, <1>8, <1>9, <1>10, <1>12 DEF Longer

LEMMA FlushStep ==
    ASSUME Typed, Placed, raced' \in BOOLEAN, NEW l \in Links, NEW h, h = <<l, "fs">>,
           NEW u, u = at[h].u, Flush(l)
    PROVE  /\ Typed' /\ Placed'
           /\ h \in Handlers /\ at[h].pc = "flush" /\ u \in Uploads /\ up[u] \in Session
           /\ up[u].next > 0 /\ up[u].busy = NoChunk
           /\ AtStep(h) /\ UpStep(u)
           /\ \/ at'[h].pc = "idle" /\ at'[h].u = None
              \/ at'[h].pc = "take" /\ at'[h].u = u
           /\ up'[u].pos = up[u].pos /\ up'[u].ino = up[u].ino
           /\ up'[u].busy = NoChunk /\ up'[u].next = up[u].next /\ ~up'[u].err
           /\ up'[u].hashed = up[u].hashed /\ up'[u].off = up[u].off
           /\ swallowed' = IF up[u].err THEN swallowed \cup {u} ELSE swallowed
           /\ sessions' = sessions /\ disk' = disk /\ part' = part /\ final' = final
           /\ dl' = dl
<1>1. h \in Handlers /\ at[h].pc = "flush" /\ at[h].pc \notin InitPcs \cup {"idle"}
    BY Constants DEF Flush, InitPcs
<1>2. /\ u \in Uploads /\ Started(u) /\ up[u] \in Session /\ up[u].next > 0
      /\ at \in [Handlers -> AtRec] /\ up \in [Uploads -> Session \cup {Unused}] /\ Others
    BY <1>1, Holding
<1>3. /\ link' = link /\ part' = part
      /\ sessions' = sessions /\ disk' = disk /\ final' = final /\ dl' = dl
      /\ cancels' = cancels /\ fails' = fails /\ late' = late
      /\ swallowed' = IF up[u].err THEN swallowed \cup {u} ELSE swallowed
      /\ up[u].busy = NoChunk
      /\ up' = [up EXCEPT ![u].err = FALSE, ![u].lock = <<>>]
      /\ Goto(h, "take") \/ Return(h)
    BY DEF Flush, files, bounds
<1>4. up'[u] = [up[u] EXCEPT !.err = FALSE, !.lock = <<>>]
    BY <1>2, <1>3
<1>5. up'[u] \in Session
    BY <1>2, <1>4 DEF Session
<1>6. UpStep(u)
    <2>1. up' \in [Uploads -> Session \cup {Unused}] /\ \A w \in Uploads \ {u} : up'[w] = up[w]
      BY <1>2, <1>3, <1>5
    <2>2. up'[u].v = up[u].v /\ up'[u].link = up[u].link /\ up'[u].append = up[u].append
      BY <1>2, <1>4 DEF Session
    <2> QED
      BY <1>5, <2>1, <2>2 DEF UpStep
<1>7. /\ up'[u].pos = up[u].pos /\ up'[u].ino = up[u].ino
      /\ up'[u].busy = NoChunk /\ up'[u].next = up[u].next /\ ~up'[u].err
      /\ up'[u].hashed = up[u].hashed /\ up'[u].off = up[u].off
    BY <1>2, <1>3, <1>4 DEF Session
<1>8. /\ AtStep(h)
      /\ \/ at'[h].pc = "idle" /\ at'[h].u = None
         \/ at'[h].pc = "take" /\ at'[h].u = u
    BY <1>1, <1>2, <1>3, GotoEffect, ReturnEffect DEF Pcs
<1>9. Others'
    BY <1>2, <1>3 DEF Others
<1>10. Typed' /\ Placed'
    BY <1>1, <1>2, <1>3, <1>6, <1>7, <1>8, <1>9, HoldingStep DEF InitPcs, Takers
<1> QED
    BY <1>1, <1>2, <1>3, <1>6, <1>7, <1>8, <1>10

LEMMA TakeStep ==
    ASSUME Typed, Placed, raced' \in BOOLEAN, NEW h \in Handlers,
           NEW u, u = at[h].u, NEW o, o = sessions[IdFor(u)], Take(h)
    PROVE  /\ Typed' /\ Placed'
           /\ at[h].pc = "take" /\ u \in Uploads /\ up[u] \in Session
           /\ up[u].next > 0 /\ AtStep(h) /\ up' = up
           /\ \/ o = None /\ at'[h].pc = "idle" /\ at'[h].u = None
              \/ /\ o \in Uploads /\ Started(o) /\ IdFor(o) = IdFor(u)
                 /\ at'[h].pc = "check" /\ at'[h].u = o
           /\ IdFor(u) \in Ids /\ sessions' = [sessions EXCEPT ![IdFor(u)] = None]
           /\ disk' = disk /\ part' = part /\ final' = final
           /\ dl' = dl /\ swallowed' = swallowed /\ link' = link /\ late' = late
<1>1. at[h].pc = "take" /\ at[h].pc \notin InitPcs \cup {"idle"}
    BY DEF Take, InitPcs
<1>2. /\ u \in Uploads /\ Started(u) /\ up[u] \in Session /\ up[u].next > 0
      /\ IdFor(u) \in Ids
      /\ at \in [Handlers -> AtRec] /\ up \in [Uploads -> Session \cup {Unused}] /\ Others
    BY <1>1, Holding
<1>3. /\ link' = link /\ part' = part /\ up' = up
      /\ sessions' = [sessions EXCEPT ![IdFor(u)] = None]
      /\ disk' = disk /\ final' = final /\ dl' = dl
      /\ cancels' = cancels /\ fails' = fails
      /\ swallowed' = swallowed /\ late' = late
      /\ at' = [at EXCEPT ![h] = IF o = None THEN Idle
                                 ELSE [@ EXCEPT !.pc = "check", !.u = o]]
    BY DEF Take, files, bounds, marks
<1>4. UpStep(u)
    BY <1>2, <1>3 DEF UpStep
<1>5. Others' /\ \A id \in Ids : sessions'[id] \in {None, sessions[id]}
    BY <1>2, <1>3 DEF Others
<1>6. CASE o = None
    <2>1. AtStep(h) /\ at'[h].pc = "idle" /\ at'[h].u = None
      BY <1>2, <1>3, <1>6, Constants DEF AtStep, Idle
    <2>2. Typed' /\ Placed'
      BY <1>2, <1>3, <1>4, <1>5, <2>1, HoldingStep
    <2> QED
      BY <1>1, <1>2, <1>3, <1>6, <2>1, <2>2
<1>7. CASE o # None
    <2> DEFINE x == [at[h] EXCEPT !.pc = "check", !.u = o]
    <2>1. o \in Uploads /\ Started(o) /\ IdFor(o) = IdFor(u) /\ up[o].next > 0
      BY <1>2, <1>7 DEF Others, Typed, Placed
    <2>2. x \in AtRec /\ x.pc = "check" /\ x.u = o /\ at' = [at EXCEPT ![h] = x]
      BY <1>2, <1>3, <1>7, <2>1 DEF AtRec, Pcs
    <2> HIDE DEF x
    <2>3. AtStep(h) /\ at'[h].pc = "check" /\ at'[h].u = o
      BY <1>2, <2>2 DEF AtStep
    <2>4. sessions'[IdFor(o)] # o
      BY <1>2, <1>3, <1>7, <2>1 DEF Others
    <2>5. Typed' /\ Placed'
      BY <1>2, <1>3, <1>4, <1>5, <2>1, <2>3, <2>4, HoldingStep DEF InitPcs
    <2> QED
      BY <1>1, <1>2, <1>3, <2>1, <2>3, <2>5
<1> QED
    BY <1>6, <1>7

LEMMA CheckStep ==
    ASSUME Typed, Placed, raced' \in BOOLEAN, NEW h \in Handlers,
           NEW u, u = at[h].u, Check(h)
    PROVE  /\ Typed' /\ Placed'
           /\ at[h].pc = "check" /\ u \in Uploads /\ up[u] \in Session
           /\ up[u].next > 0 /\ up[u].busy = NoChunk /\ sessions[IdFor(u)] # u
           /\ AtStep(h) /\ UpStep(u)
           /\ \/ up[u].err /\ at'[h].pc = "idle" /\ at'[h].u = None
              \/ /\ ~up[u].err /\ at'[h].u = u
                 /\ \/ at'[h].pc = "rename" /\ Verified(u)
                    \/ at'[h].pc = "clean"
                 /\ up'[u].err = up[u].err
           /\ up'[u].pos = up[u].pos /\ up'[u].ino = up[u].ino
           /\ up'[u].busy = NoChunk /\ up'[u].next = up[u].next
           /\ up'[u].hashed = up[u].hashed /\ up'[u].off = up[u].off
           /\ sessions' = sessions /\ disk' = disk /\ part' = part /\ final' = final
           /\ dl' = dl /\ swallowed' = swallowed
<1>1. at[h].pc = "check" /\ at[h].pc \notin InitPcs \cup {"idle"}
    BY DEF Check, InitPcs
<1>2. /\ u \in Uploads /\ Started(u) /\ up[u] \in Session /\ up[u].next > 0
      /\ at \in [Handlers -> AtRec] /\ up \in [Uploads -> Session \cup {Unused}] /\ Others
      /\ sessions[IdFor(u)] # u
    BY <1>1, Holding DEF Takers
<1>3. /\ link' = link /\ part' = part /\ sessions' = sessions
      /\ disk' = disk /\ final' = final /\ dl' = dl
      /\ cancels' = cancels /\ fails' = fails
      /\ swallowed' = swallowed /\ late' = late
      /\ up[u].busy = NoChunk
      /\ \/ up[u].err /\ Return(h) /\ up' = [up EXCEPT ![u].err = FALSE]
         \/ /\ ~up[u].err /\ up' = [up EXCEPT ![u].lock = h]
            /\ (Goto(h, "rename") /\ Verified(u)) \/ Goto(h, "clean")
    BY DEF Check, files, bounds, marks
<1>4. /\ AtStep(h)
      /\ \/ /\ up[u].err /\ at'[h].pc = "idle" /\ at'[h].u = None
            /\ up' = [up EXCEPT ![u].err = FALSE]
         \/ /\ ~up[u].err /\ up' = [up EXCEPT ![u].lock = h] /\ at'[h].u = u
            /\ (at'[h].pc = "rename" /\ Verified(u)) \/ at'[h].pc = "clean"
    BY <1>2, <1>3, GotoEffect, ReturnEffect DEF Pcs
<1>5. /\ UpStep(u)
      /\ up'[u].pos = up[u].pos /\ up'[u].ino = up[u].ino
      /\ up'[u].busy = NoChunk /\ up'[u].next = up[u].next
      /\ up'[u].hashed = up[u].hashed /\ up'[u].off = up[u].off
      /\ ~up[u].err => up'[u].err = up[u].err
    <2>1. CASE up[u].err /\ up' = [up EXCEPT ![u].err = FALSE]
      <3>1. up'[u] = [up[u] EXCEPT !.err = FALSE]
        BY <1>2, <2>1
      <3>2. up'[u] \in Session
        BY <1>2, <3>1 DEF Session
      <3>3. /\ up'[u].pos = up[u].pos /\ up'[u].ino = up[u].ino
            /\ up'[u].busy = NoChunk /\ up'[u].next = up[u].next
            /\ up'[u].hashed = up[u].hashed /\ up'[u].off = up[u].off
            /\ up'[u].v = up[u].v /\ up'[u].link = up[u].link
            /\ up'[u].append = up[u].append
        BY <1>2, <1>3, <3>1 DEF Session
      <3> QED
        BY <1>2, <2>1, <3>2, <3>3 DEF UpStep
    <2>2. CASE ~up[u].err /\ up' = [up EXCEPT ![u].lock = h]
      <3>1. up'[u] = [up[u] EXCEPT !.lock = h]
        BY <1>2, <2>2
      <3>2. up'[u] \in Session
        BY <1>2, <3>1 DEF Session
      <3>3. /\ up'[u].pos = up[u].pos /\ up'[u].ino = up[u].ino
            /\ up'[u].busy = NoChunk /\ up'[u].next = up[u].next
            /\ up'[u].hashed = up[u].hashed /\ up'[u].off = up[u].off
            /\ up'[u].v = up[u].v /\ up'[u].link = up[u].link
            /\ up'[u].append = up[u].append /\ up'[u].err = up[u].err
        BY <1>2, <1>3, <3>1 DEF Session
      <3> QED
        BY <1>2, <2>2, <3>2, <3>3 DEF UpStep
    <2> QED
      BY <1>4, <2>1, <2>2
<1>6. Others'
    BY <1>2, <1>3 DEF Others
<1>7. Typed' /\ Placed'
    BY <1>2, <1>3, <1>4, <1>5, <1>6, HoldingStep DEF InitPcs
<1> QED
    BY <1>1, <1>2, <1>3, <1>4, <1>5, <1>7

LEMMA CleanOrRenameStep ==
    ASSUME Typed, Placed, raced' \in BOOLEAN, NEW h \in Handlers,
           NEW u, u = at[h].u, Clean(h) \/ Rename(h)
    PROVE  /\ Typed' /\ Placed'
           /\ at[h].pc \in {"clean", "rename"} /\ u \in Uploads /\ up[u] \in Session
           /\ up[u].next > 0 /\ sessions[IdFor(u)] # u
           /\ AtStep(h) /\ UpStep(u) /\ at'[h].pc = "idle" /\ at'[h].u = None
           /\ up'[u].pos = up[u].pos /\ up'[u].ino = up[u].ino /\ up'[u].err = up[u].err
           /\ up'[u].busy = up[u].busy /\ up'[u].next = up[u].next
           /\ up'[u].hashed = up[u].hashed /\ up'[u].off = up[u].off
           /\ part' = None
           /\ \/ final' = final
              \/ at[h].pc = "rename" /\ part # None /\ final' = part
           /\ sessions' = sessions /\ disk' = disk
           /\ dl' = dl /\ swallowed' = swallowed
<1>1. at[h].pc \in {"clean", "rename"} /\ at[h].pc \notin InitPcs \cup {"idle"}
    BY DEF Clean, Rename, InitPcs
<1>2. /\ u \in Uploads /\ Started(u) /\ up[u] \in Session /\ up[u].next > 0
      /\ at \in [Handlers -> AtRec] /\ up \in [Uploads -> Session \cup {Unused}] /\ Others
      /\ sessions[IdFor(u)] # u
    BY <1>1, Holding DEF Takers
<1>3. /\ link' = link /\ part' = None /\ sessions' = sessions
      /\ disk' = disk /\ dl' = dl
      /\ cancels' = cancels /\ fails' = fails
      /\ swallowed' = swallowed /\ late' = late
      /\ up' = [up EXCEPT ![u].lock = <<>>] /\ Return(h)
      /\ \/ final' = final
         \/ at[h].pc = "rename" /\ part # None /\ final' = part
    BY DEF Clean, Rename, bounds, marks
<1>4. AtStep(h) /\ at'[h].pc = "idle" /\ at'[h].u = None
    BY <1>2, <1>3, ReturnEffect
<1>5. up'[u] = [up[u] EXCEPT !.lock = <<>>]
    BY <1>2, <1>3
<1>6. up'[u] \in Session
    BY <1>2, <1>5 DEF Session
<1>7. /\ up'[u].pos = up[u].pos /\ up'[u].ino = up[u].ino
      /\ up'[u].busy = up[u].busy /\ up'[u].next = up[u].next
      /\ up'[u].hashed = up[u].hashed /\ up'[u].off = up[u].off
      /\ up'[u].v = up[u].v /\ up'[u].link = up[u].link
      /\ up'[u].append = up[u].append /\ up'[u].err = up[u].err
    BY <1>2, <1>5 DEF Session
<1>8. UpStep(u)
    BY <1>2, <1>3, <1>6, <1>7 DEF UpStep
<1>9. Others'
    BY <1>2, <1>3 DEF Others
<1>10. Typed' /\ Placed'
    BY <1>2, <1>3, <1>4, <1>7, <1>8, <1>9, HoldingStep
<1> QED
    BY <1>1, <1>2, <1>3, <1>4, <1>7, <1>8, <1>10

LEMMA DiskWriteStep ==
    ASSUME Typed, Placed, raced' \in BOOLEAN, NEW u \in Uploads, DiskWrite(u)
    PROVE  /\ Typed' /\ Placed'
           /\ up[u] \in Session /\ up[u].next > 0 /\ Started(u)
           /\ up[u].busy # NoChunk /\ up[u].ino \in Uploads
           /\ UpStep(u) /\ at' = at
           /\ up'[u].ino = up[u].ino /\ up'[u].busy = NoChunk /\ up'[u].next = up[u].next
           /\ up'[u].hashed = up[u].hashed /\ up'[u].off = up[u].off
           /\ \/ /\ up'[u].pos = up[u].pos + 1 /\ up'[u].err = up[u].err
                 /\ disk' = [disk EXCEPT ![up[u].ino] =
                              Written(disk[up[u].ino],
                                      IF up[u].append THEN Len(disk[up[u].ino])
                                      ELSE up[u].pos, up[u].busy)]
              \/ up'[u].pos = up[u].pos /\ up'[u].err /\ disk' = disk
           /\ sessions' = sessions /\ part' = part /\ final' = final
           /\ dl' = dl /\ swallowed' = swallowed
<1> DEFINE i == up[u].ino
           p == IF up[u].append THEN Len(disk[i]) ELSE up[u].pos
<1>1. /\ at \in [Handlers -> AtRec] /\ up \in [Uploads -> Session \cup {Unused}] /\ Others
      /\ Started(u) /\ up[u] \in Session /\ up[u].busy # NoChunk
    BY Parts DEF DiskWrite
<1>2. up[u].next > 0 /\ i \in Uploads
    BY <1>1 DEF Placed, Session
<1>3. /\ link' = link /\ at' = at /\ sessions' = sessions /\ part' = part
      /\ final' = final /\ dl' = dl /\ cancels' = cancels
      /\ swallowed' = swallowed /\ late' = late
      /\ \/ /\ disk' = [disk EXCEPT ![i] = Written(disk[i], p, up[u].busy)]
            /\ up' = [up EXCEPT ![u].busy = NoChunk, ![u].pos = @ + 1]
            /\ fails' = fails
         \/ /\ fails' = fails + 1 /\ disk' = disk
            /\ up' = [up EXCEPT ![u].busy = NoChunk, ![u].err = TRUE]
    <2>1. i \in DOMAIN disk
      BY <1>1, <1>2 DEF Others
    <2> QED
      BY <1>1, <2>1 DEF DiskWrite, marks
<1>4. disk[i] \in Seq(Chunk) /\ p \in Nat /\ up[u].busy \in Chunk
    BY <1>1, <1>2 DEF Others, Session
<1>5. Written(disk[i], p, up[u].busy) \in Seq(Chunk)
    BY <1>4, WrittenType
<1> HIDE DEF p
<1>6. Others'
    <2>1. fails' \in Nat
      BY <1>1, <1>3 DEF Others
    <2>2. disk' \in [Uploads -> Seq(Chunk)]
      BY <1>1, <1>2, <1>3, <1>5 DEF Others
    <2> QED
      BY <1>1, <1>3, <2>1, <2>2 DEF Others
<1>7. \/ /\ up'[u] = [up[u] EXCEPT !.busy = NoChunk, !.pos = @ + 1]
         /\ disk' = [disk EXCEPT ![i] = Written(disk[i], p, up[u].busy)]
      \/ up'[u] = [up[u] EXCEPT !.busy = NoChunk, !.err = TRUE] /\ disk' = disk
    BY <1>1, <1>3
<1>8. up'[u] \in Session
    <2>1. up[u].pos + 1 \in Nat
      BY <1>1 DEF Session
    <2> QED
      BY <1>1, <1>7, <2>1 DEF Session
<1>9. /\ up'[u].ino = up[u].ino /\ up'[u].busy = NoChunk /\ up'[u].next = up[u].next
      /\ up'[u].hashed = up[u].hashed /\ up'[u].off = up[u].off
      /\ up'[u].v = up[u].v /\ up'[u].link = up[u].link
      /\ up'[u].append = up[u].append
    BY <1>1, <1>7 DEF Session
<1>10. \/ /\ up'[u].pos = up[u].pos + 1 /\ up'[u].err = up[u].err
          /\ disk' = [disk EXCEPT ![i] = Written(disk[i], p, up[u].busy)]
       \/ up'[u].pos = up[u].pos /\ up'[u].err /\ disk' = disk
    BY <1>1, <1>7 DEF Session
<1>11. UpStep(u)
    <2>1. up' \in [Uploads -> Session \cup {Unused}] /\ \A w \in Uploads \ {u} : up'[w] = up[w]
      BY <1>1, <1>3, <1>8
    <2> QED
      BY <1>8, <1>9, <2>1 DEF UpStep
<1>12. Typed' /\ Placed'
    <2>1. PICK h : h = <<up[u].link, "cmd">>
      OBVIOUS
    <2>2. h \in Handlers /\ HandlerFits(h) /\ AtStep(h)
      BY <1>1, <1>3, <2>1, Parts, Constants DEF Session, AtStep
    <2>3. \A w \in Uploads : Started(w) =>
             /\ Started(w)' /\ up'[w].v = up[w].v /\ up'[w].link = up[w].link
             /\ up'[w].next = up[w].next /\ up'[w].ino = up[w].ino
      BY <1>8, <1>9, <1>11, SessionsStarted DEF UpStep, Started
    <2>4. HandlerFits(h)'
      BY <1>3, <2>2, <2>3 DEF HandlerFits, Busy, IdFor
    <2>5. \A id \in Ids : sessions'[id] \in {None, sessions[id]}
      BY <1>3
    <2>6. /\ Started(u) =>
             /\ up[u].next > 0 => up'[u].next > 0
             /\ up[u].ino # None => up'[u].ino = up[u].ino
             /\ up'[u].next # up[u].next \/ up'[u].ino # up[u].ino =>
                  up[u].next > 0 \/ h = <<up[u].link, "cmd">>
          /\ up'[u].next = 0 => up'[u].busy = NoChunk
          /\ up'[u].next > 0 => up'[u].ino # None
      BY <1>2, <1>9, Constants
    <2>7. /\ part' \in {None, part} /\ final' \in {final, part}
          /\ dl'.ino \in {None, dl.ino, final} /\ Started(u) /\ up'[u].ino = up[u].ino
      BY <1>1, <1>3, <1>9
    <2> QED
      BY <1>6, <1>11, <2>2, <2>4, <2>5, <2>6, <2>7, BaseStep
<1> QED
    BY <1>1, <1>2, <1>3, <1>9, <1>10, <1>11, <1>12 DEF p

LEMMA NoDownloadType ==
    ASSUME NEW pc \in {"none", "hash", "send", "end", "ended", "stopped"}
    PROVE  /\ NoDownload(pc) \in Download
           /\ NoDownload(pc).pc = pc /\ NoDownload(pc).ino = None
           /\ NoDownload(pc).sent = <<>> /\ ~NoDownload(pc).cut
<1>1. Ids # {}
    BY TransferAssumption DEF Ids
<1>2. (CHOOSE id \in Ids : TRUE) \in Ids
    BY <1>1
<1>3. <<>> \in Seq(Chunk)
    OBVIOUS
<1> QED
    BY <1>2, <1>3 DEF NoDownload, Download

\* What a step of the download does: it begins, has read the file for its hash,
\* sends a chunk, leaves the loop, announces the end, or stops without a word.
Begun ==
    /\ dl.pc = "none" /\ dl'.pc = "hash" /\ dl'.ino = final /\ dl'.ino # None
    /\ dl'.sent = dl.sent /\ dl'.cut = dl.cut
Summed ==
    /\ dl.pc = "hash" /\ dl'.pc = "send" /\ dl'.ino = dl.ino /\ dl'.sum = disk[dl.ino]
    /\ dl'.sent = dl.sent /\ dl'.cut = dl.cut
Unsent == dl.at + Len(dl.sent) + 1 <= Len(disk[dl.ino])
Sent ==
    /\ dl.pc = "send" /\ dl'.pc = "send" /\ dl'.ino = dl.ino /\ dl'.sum = dl.sum
    /\ dl'.at = dl.at /\ dl'.cut = dl.cut /\ Unsent
    /\ dl'.sent = Append(dl.sent, disk[dl.ino][dl.at + Len(dl.sent) + 1])
Left ==
    /\ dl.pc = "send" /\ dl'.pc = "end" /\ dl'.ino = dl.ino /\ dl'.sum = dl.sum
    /\ dl'.at = dl.at /\ dl'.sent = dl.sent
    /\ \/ Unsent /\ dl'.cut
       \/ ~Unsent /\ dl'.cut = dl.cut
Announced ==
    /\ dl.pc = "end" /\ dl'.pc = "ended" /\ dl'.ino = None /\ dl'.sum = dl.sum
    /\ dl'.at = dl.at /\ dl'.sent = dl.sent /\ dl'.cut = dl.cut
Stopped == dl'.pc = "stopped" /\ dl'.ino = None

LEMMA DownloadStep ==
    ASSUME Others,
           \/ \E l \in Links, id \in Ids, r \in Downloads : DownloadInit(l, id, r)
           \/ DownloadHash \/ DownloadSend \/ DownloadEnd
    PROVE  /\ dl' \in Download /\ fails' \in Nat
           /\ Begun \/ Summed \/ Sent \/ Left \/ Announced \/ Stopped
<1>1. /\ dl \in Download /\ fails \in Nat /\ fails + 1 \in Nat
      /\ disk \in [Uploads -> Seq(Chunk)] /\ final \in {None} \cup Uploads
      /\ (dl.pc \in {"hash", "send"} => dl.ino \in Uploads)
    BY DEF Others, Download
<1>2. ASSUME fails' = fails \/ ReadFails \/ SendFails PROVE fails' \in Nat
    BY <1>1, <1>2 DEF ReadFails, SendFails
<1>3. ASSUME dl' = NoDownload("stopped") PROVE dl' \in Download /\ Stopped
    BY <1>3, NoDownloadType DEF Stopped
<1>4. ASSUME NEW l \in Links, NEW id \in Ids, NEW r \in Downloads, DownloadInit(l, id, r)
      PROVE  dl' \in Download /\ Begun /\ fails' \in Nat
    <2> DEFINE a == IF r < Len(disk[final]) THEN r ELSE Len(disk[final])
    <2>1. final \in Uploads /\ fails' = fails /\ dl.pc = "none"
      BY <1>1, <1>4 DEF DownloadInit, bounds
    <2>2. a \in Nat
      <3>1. r \in 0 .. N /\ N \in Nat
        BY TransferAssumption
      <3>2. disk[final] \in Seq(Chunk)
        BY <1>1, <2>1
      <3> QED
        BY <3>1, <3>2
    <2>3. dl' = [dl EXCEPT !.pc = "hash", !.id = id, !.link = l, !.ino = final, !.at = a]
      BY <1>4 DEF DownloadInit
    <2> HIDE DEF a
    <2>4. /\ dl' \in Download /\ dl'.pc = "hash" /\ dl'.ino = final
          /\ dl'.sent = dl.sent /\ dl'.cut = dl.cut
      BY <1>1, <2>1, <2>2, <2>3 DEF Download
    <2> QED
      BY <1>1, <2>1, <2>4, Constants DEF Begun
<1>5. ASSUME DownloadHash PROVE dl' \in Download /\ (Summed \/ Stopped) /\ fails' \in Nat
    <2>1. CASE dl' = [dl EXCEPT !.pc = "send", !.sum = disk[dl.ino]] /\ fails' = fails
      <3>1. dl.pc = "hash" /\ disk[dl.ino] \in Seq(Chunk)
        BY <1>1, <1>5 DEF DownloadHash
      <3>2. /\ dl' \in Download /\ dl'.pc = "send" /\ dl'.ino = dl.ino
            /\ dl'.sum = disk[dl.ino] /\ dl'.sent = dl.sent /\ dl'.cut = dl.cut
        BY <1>1, <2>1, <3>1 DEF Download
      <3> QED
        BY <1>2, <2>1, <3>1, <3>2 DEF Summed
    <2>2. CASE dl' = NoDownload("stopped") /\ ReadFails
      BY <1>2, <1>3, <2>2
    <2> QED
      BY <1>5, <2>1, <2>2 DEF DownloadHash
<1>6. ASSUME DownloadSend
      PROVE  dl' \in Download /\ (Sent \/ Left \/ Stopped) /\ fails' \in Nat
    <2> DEFINE d == disk[dl.ino]
               p == dl.at + Len(dl.sent) + 1
    <2>1. /\ dl.pc = "send" /\ d \in Seq(Chunk) /\ dl.at \in Nat
          /\ dl.sent \in Seq(Chunk) /\ p \in Nat \ {0}
      BY <1>1, <1>6 DEF DownloadSend, Download
    <2>2. CASE dl' = NoDownload("stopped") /\ (fails' = fails \/ ReadFails)
      BY <1>2, <1>3, <2>2
    <2>3. CASE p <= Len(d) /\ dl' = [dl EXCEPT !.sent = Append(dl.sent, d[p])]
               /\ fails' = fails
      <3>1. Append(dl.sent, d[p]) \in Seq(Chunk)
        <4>1. d[p] \in Chunk
          BY <2>1, <2>3
        <4> QED
          BY <2>1, <4>1
      <3>2. /\ dl' \in Download /\ dl'.pc = dl.pc /\ dl'.ino = dl.ino
            /\ dl'.sum = dl.sum /\ dl'.at = dl.at /\ dl'.cut = dl.cut
            /\ dl'.sent = Append(dl.sent, d[p])
        BY <1>1, <2>3, <3>1 DEF Download
      <3> QED
        BY <1>2, <2>1, <2>3, <3>2 DEF Sent, Unsent
    <2>4. CASE /\ p <= Len(d) /\ dl' = [dl EXCEPT !.pc = "end", !.cut = TRUE]
               /\ SendFails
      <3>1. /\ dl' \in Download /\ dl'.pc = "end" /\ dl'.ino = dl.ino /\ dl'.cut
            /\ dl'.sum = dl.sum /\ dl'.at = dl.at /\ dl'.sent = dl.sent
        BY <1>1, <2>4 DEF Download
      <3> QED
        BY <1>2, <2>1, <2>4, <3>1 DEF Left, Unsent
    <2>5. CASE ~(p <= Len(d)) /\ dl' = [dl EXCEPT !.pc = "end"] /\ fails' = fails
      <3>1. /\ dl' \in Download /\ dl'.pc = "end" /\ dl'.ino = dl.ino /\ dl'.cut = dl.cut
            /\ dl'.sum = dl.sum /\ dl'.at = dl.at /\ dl'.sent = dl.sent
        BY <1>1, <2>5 DEF Download
      <3> QED
        BY <1>2, <2>1, <2>5, <3>1 DEF Left, Unsent
    <2> QED
      BY <1>6, <2>2, <2>3, <2>4, <2>5 DEF DownloadSend, DownloadRead
<1>7. ASSUME DownloadEnd
      PROVE  dl' \in Download /\ (Announced \/ Stopped) /\ fails' \in Nat
    <2>1. CASE /\ dl' = [NoDownload("ended") EXCEPT !.at = dl.at, !.sum = dl.sum,
                                                   !.sent = dl.sent, !.cut = dl.cut]
               /\ fails' = fails
      <3>1. PICK e : e = NoDownload("ended")
        OBVIOUS
      <3>2. e \in Download /\ e.pc = "ended" /\ e.ino = None
        BY <3>1, NoDownloadType
      <3>3. /\ dl' \in Download /\ dl'.pc = "ended" /\ dl'.ino = None /\ dl'.cut = dl.cut
            /\ dl'.sum = dl.sum /\ dl'.at = dl.at /\ dl'.sent = dl.sent
        BY <1>1, <2>1, <3>1, <3>2 DEF Download
      <3> QED
        BY <1>2, <1>7, <2>1, <3>3 DEF Announced, DownloadEnd
    <2>2. CASE dl' = NoDownload("stopped") /\ SendFails
      BY <1>2, <1>3, <2>2
    <2> QED
      BY <1>7, <2>1, <2>2 DEF DownloadEnd
<1> QED
    BY <1>4, <1>5, <1>6, <1>7

\* The links and the download.
LEMMA OutsideStep ==
    ASSUME Typed, Placed, raced' \in BOOLEAN,
           \/ \E l \in Links : LinkDown(l) \/ Sweep(l)
           \/ \E l \in Links, id \in Ids, r \in Downloads : DownloadInit(l, id, r)
           \/ DownloadHash \/ DownloadSend \/ DownloadEnd
           \/ UNCHANGED vars
    PROVE  /\ Typed' /\ Placed'
           /\ at' = at /\ up' = up
           /\ disk' = disk /\ part' = part /\ final' = final
           /\ swallowed' = swallowed /\ dl'.ino \in {None, dl.ino, final}
           /\ \A id \in Ids : sessions'[id] \in {None, sessions[id]}
<1>1. Others
    BY Parts
<1>2. /\ at' = at /\ up' = up /\ disk' = disk /\ part' = part /\ final' = final
      /\ swallowed' = swallowed /\ cancels' = cancels /\ late' = late
    BY DEF LinkDown, Sweep, DownloadInit, DownloadHash, DownloadSend, DownloadEnd, files,
           bounds, marks, vars
<1>3. /\ \A id \in Ids : sessions'[id] \in {None, sessions[id]}
      /\ sessions' \in [Ids -> {None} \cup Uploads]
      /\ link' \in [Links -> {"up", "down", "swept"}]
    BY <1>1 DEF Others, LinkDown, Sweep, DownloadInit, DownloadHash, DownloadSend, DownloadEnd, vars
<1>4. /\ dl' \in Download /\ (dl'.pc \in {"hash", "send"} => dl'.ino # None)
      /\ dl'.ino \in {None, dl.ino, final} /\ fails' \in Nat
    <2>1. CASE dl' = dl /\ fails' = fails
      BY <1>1, <2>1 DEF Others
    <2>2. CASE \/ \E l \in Links, id \in Ids, r \in Downloads : DownloadInit(l, id, r)
               \/ DownloadHash \/ DownloadSend \/ DownloadEnd
      <3>1. /\ dl' \in Download /\ fails' \in Nat
            /\ Begun \/ Summed \/ Sent \/ Left \/ Announced \/ Stopped
        BY <1>1, <2>2, DownloadStep
      <3> QED
        BY <1>1, <3>1 DEF Others, Begun, Summed, Sent, Left, Announced, Stopped
    <2> QED
      BY <2>1, <2>2 DEF LinkDown, Sweep, vars, bounds
<1>5. Others'
    BY <1>1, <1>2, <1>3, <1>4 DEF Others
<1> QED
    BY <1>2, <1>3, <1>4, <1>5, BaseKeeps

-----------------------------------------------------------------------------
(* Types and placement hold always *)

\* What happens at a step.
LEMMA Cases ==
    ASSUME Typed, [Next]_vars
    PROVE  /\ raced' \in BOOLEAN
           /\ \/ \E l \in Links, u \in Uploads, v \in Versions, r \in Resumes :
                    InitStat(l, u, v, r)
              \/ \E l \in Links : Open(l)
              \/ \E l \in Links : Hash(l)
              \/ \E l \in Links : Insert(l)
              \/ \E l \in Links, id \in Ids : CancelTake(l, id)
              \/ \E l \in Links : CancelUnlink(l)
              \/ \E l \in Links, u \in Uploads : Started(u) /\ Lookup(l, u)
              \/ \E l \in Links : Skip(l)
              \/ \E l \in Links : Write(l)
              \/ \E l \in Links : Flush(l)
              \/ \E h \in Handlers : Take(h)
              \/ \E h \in Handlers : Check(h)
              \/ \E h \in Handlers : Clean(h) \/ Rename(h)
              \/ \E u \in Uploads : DiskWrite(u)
              \/ \/ \E l \in Links : LinkDown(l) \/ Sweep(l)
                 \/ \E l \in Links, id \in Ids, r \in Downloads : DownloadInit(l, id, r)
                 \/ DownloadHash \/ DownloadSend \/ DownloadEnd
                 \/ UNCHANGED vars
<1>1. raced' \in BOOLEAN
    BY DEF Typed, TypeOK, Next, vars
<1>2. Step \/ UNCHANGED vars
    BY DEF Next
<1> QED
    BY <1>1, <1>2 DEF Step

LEMMA BaseInit == Init => Typed /\ Placed
<1> SUFFICES ASSUME Init PROVE Typed /\ Placed
    OBVIOUS
<1>1. /\ \A h \in Handlers : at[h].pc = "idle" /\ at[h].u = None
      /\ at \in [Handlers -> AtRec]
    BY Constants DEF Init, Idle
<1>2. /\ \A u \in Uploads : ~Started(u)
      /\ up \in [Uploads -> Session \cup {Unused}]
    BY DEF Init, Started
<1>3. dl.pc = "none" /\ dl.ino = None /\ dl \in Download
    BY NoDownloadType DEF Init
<1>4. /\ link \in [Links -> {"up", "down", "swept"}]
      /\ sessions \in [Ids -> {None} \cup Uploads]
      /\ \A id \in Ids : sessions[id] = None
      /\ disk \in [Uploads -> Seq(Chunk)]
      /\ part = None /\ final = None /\ cancels \in Nat /\ fails \in Nat
      /\ raced \in BOOLEAN /\ swallowed \subseteq Uploads /\ late \subseteq Uploads
    <2>1. <<>> \in Seq(Chunk)
      OBVIOUS
    <2>2. disk \in [Uploads -> Seq(Chunk)]
      BY <2>1 DEF Init
    <2> QED
      BY <2>2 DEF Init
<1>5. Typed
    BY <1>1, <1>2, <1>3, <1>4 DEF Typed, TypeOK, AtRec, Busy
<1>6. Placed
    BY <1>1, <1>2, <1>3, <1>4, Constants DEF Placed, Busy
<1> QED
    BY <1>5, <1>6

LEMMA BaseInduction == Typed /\ Placed /\ [Next]_vars => Typed' /\ Placed'
<1> SUFFICES ASSUME Typed, Placed, [Next]_vars PROVE Typed' /\ Placed'
    OBVIOUS
<1>0. raced' \in BOOLEAN
    BY Cases
<1>1. ASSUME NEW l \in Links, NEW u \in Uploads, NEW v \in Versions, NEW r \in Resumes,
             InitStat(l, u, v, r)
      PROVE  Typed' /\ Placed'
    BY <1>0, <1>1, InitStatStep
<1>2. ASSUME NEW l \in Links, Open(l) PROVE Typed' /\ Placed'
    BY <1>0, <1>2, OpenStep
<1>3. ASSUME NEW l \in Links, Hash(l) PROVE Typed' /\ Placed'
    BY <1>0, <1>3, HashStep
<1>4. ASSUME NEW l \in Links, Insert(l) PROVE Typed' /\ Placed'
    BY <1>0, <1>4, InsertStep
<1>5. ASSUME NEW l \in Links, NEW id \in Ids, CancelTake(l, id) PROVE Typed' /\ Placed'
    BY <1>0, <1>5, CancelTakeStep
<1>6. ASSUME NEW l \in Links, CancelUnlink(l) PROVE Typed' /\ Placed'
    BY <1>0, <1>6, CancelUnlinkStep
<1>7. ASSUME NEW l \in Links, NEW u \in Uploads, Started(u), Lookup(l, u)
      PROVE  Typed' /\ Placed'
    BY <1>0, <1>7, LookupStep
<1>8. ASSUME NEW l \in Links, Skip(l) PROVE Typed' /\ Placed'
    BY <1>0, <1>8, SkipStep
<1>9. ASSUME NEW l \in Links, Write(l) PROVE Typed' /\ Placed'
    BY <1>0, <1>9, WriteStep
<1>10. ASSUME NEW l \in Links, Flush(l) PROVE Typed' /\ Placed'
    BY <1>0, <1>10, FlushStep
<1>11. ASSUME NEW h \in Handlers, Take(h) PROVE Typed' /\ Placed'
    BY <1>0, <1>11, TakeStep
<1>12. ASSUME NEW h \in Handlers, Check(h) PROVE Typed' /\ Placed'
    BY <1>0, <1>12, CheckStep
<1>13. ASSUME NEW h \in Handlers, Clean(h) \/ Rename(h) PROVE Typed' /\ Placed'
    BY <1>0, <1>13, CleanOrRenameStep
<1>14. ASSUME NEW u \in Uploads, DiskWrite(u) PROVE Typed' /\ Placed'
    BY <1>0, <1>14, DiskWriteStep
<1>15. CASE \/ \E l \in Links : LinkDown(l) \/ Sweep(l)
            \/ \E l \in Links, id \in Ids, r \in Downloads : DownloadInit(l, id, r)
            \/ DownloadHash \/ DownloadSend \/ DownloadEnd
            \/ UNCHANGED vars
    BY <1>0, <1>15, OutsideStep
<1> QED
    BY <1>1, <1>2, <1>3, <1>4, <1>5, <1>6, <1>7, <1>8, <1>9, <1>10, <1>11, <1>12,
       <1>13, <1>14, <1>15, Cases

\* Every variable has its type: a handler holds a session that an init has made,
\* the registry names one of its own id, and every file the model refers to is one
\* that an upload has created.
THEOREM TypeCorrect == Spec => []TypeOK
<1>1. Typed => TypeOK
    BY DEF Typed
<1> QED
    BY <1>1, BaseInit, BaseInduction, PTL DEF Spec

\* Only a registration puts an upload into the registry; all that follows leaves
\* uploads to the client that made them and closed links closed.
LEMMA RegistryStep ==
    ASSUME Typed, Placed, [Next]_vars
    PROVE  /\ \A id \in Ids : sessions[id] # None =>
                up'[sessions[id]].link = up[sessions[id]].link
           /\ late \subseteq late'
           /\ \/ /\ link' = link
                 /\ \A id \in Ids :
                      \/ sessions'[id] \in {None, sessions[id]}
                      \/ link[up'[sessions'[id]].link] = "swept" => sessions'[id] \in late'
              \/ \E l \in Links : LinkDown(l) \/ Sweep(l)
<1>0. /\ \A id \in Ids : sessions[id] # None =>
            sessions[id] \in Uploads /\ Started(sessions[id])
      /\ sessions \in [Ids -> {None} \cup Uploads]
    BY DEF Typed, TypeOK
<1>1. raced' \in BOOLEAN
    BY Cases
<1> DEFINE Goal ==
        /\ \A id \in Ids : sessions[id] # None =>
             up'[sessions[id]].link = up[sessions[id]].link
        /\ late \subseteq late'
        /\ link' = link
        /\ \A id \in Ids :
             \/ sessions'[id] \in {None, sessions[id]}
             \/ link[up'[sessions'[id]].link] = "swept" => sessions'[id] \in late'
<1>2. ASSUME NEW u \in Uploads, UpStep(u), sessions' = sessions,
             late' = late, link' = link
      PROVE  Goal
    BY <1>0, <1>2 DEF UpStep
<1>3. ASSUME up' = up, late' = late, link' = link,
             \A id \in Ids : sessions'[id] \in {None, sessions[id]}
      PROVE  Goal
    BY <1>0, <1>3
<1>4. ASSUME NEW l \in Links, Insert(l) PROVE Goal
    <2> DEFINE h == <<l, "cmd">>
               u == at[h].u
    <2>1. /\ h \in Handlers /\ at[h].pc = "insert" /\ u \in Uploads /\ UpStep(u)
          /\ IdFor(u) \in Ids /\ sessions' = [sessions EXCEPT ![IdFor(u)] = u]
          /\ link' = link /\ late' = IF link[l] = "swept" THEN late \cup {u} ELSE late
      BY <1>1, <1>4, InsertStep
    <2>2. up[u].link = l /\ Started(u)
      BY <2>1 DEF Placed, Typed, Busy, InitPcs
    <2>3. up'[u].link = l
      BY <2>1, <2>2 DEF UpStep
    <2> HIDE DEF h, u
    <2>4. \A id \in Ids : sessions[id] # None =>
             up'[sessions[id]].link = up[sessions[id]].link
      BY <1>0, <2>1 DEF UpStep
    <2> QED
      BY <1>0, <2>1, <2>3, <2>4
<1> HIDE DEF Goal
<1>5. ASSUME NEW l \in Links, NEW u \in Uploads, NEW v \in Versions, NEW r \in Resumes,
             InitStat(l, u, v, r)
      PROVE  Goal
    <2>1. UpStep(u)
      BY <1>1, <1>5, InitStatStep
    <2> QED
      BY <1>2, <1>5, <2>1 DEF InitStat, marks
<1>6. ASSUME NEW l \in Links, Open(l) PROVE Goal
    <2>1. at[<<l, "cmd">>].u \in Uploads /\ UpStep(at[<<l, "cmd">>].u)
      BY <1>1, <1>6, OpenStep
    <2>2. sessions' = sessions /\ late' = late /\ link' = link
      BY <1>6 DEF Open, marks
    <2> QED
      BY <1>2, <2>1, <2>2
<1>7. ASSUME NEW l \in Links, Hash(l) PROVE Goal
    <2>1. at[<<l, "cmd">>].u \in Uploads /\ UpStep(at[<<l, "cmd">>].u)
      BY <1>1, <1>7, HashStep
    <2>2. sessions' = sessions /\ late' = late /\ link' = link
      BY <1>7 DEF Hash, marks
    <2> QED
      BY <1>2, <2>1, <2>2
<1>8. ASSUME NEW l \in Links, NEW id \in Ids, CancelTake(l, id) PROVE Goal
    BY <1>0, <1>3, <1>8 DEF CancelTake, marks
<1>9. ASSUME NEW l \in Links, CancelUnlink(l) PROVE Goal
    BY <1>3, <1>9 DEF CancelUnlink, marks
<1>10. ASSUME NEW l \in Links, NEW u \in Uploads, Started(u), Lookup(l, u) PROVE Goal
    <2>1. UpStep(u)
      BY <1>1, <1>10, LookupStep
    <2>2. sessions' = sessions /\ late' = late /\ link' = link
      BY <1>10 DEF Lookup, marks
    <2> QED
      BY <1>2, <2>1, <2>2
<1>11. ASSUME NEW l \in Links, Skip(l) PROVE Goal
    <2>1. at[<<l, "fs">>].u \in Uploads /\ UpStep(at[<<l, "fs">>].u)
      BY <1>1, <1>11, SkipStep
    <2>2. sessions' = sessions /\ late' = late /\ link' = link
      BY <1>11 DEF Skip, marks
    <2> QED
      BY <1>2, <2>1, <2>2
<1>12. ASSUME NEW l \in Links, Write(l) PROVE Goal
    <2>1. at[<<l, "fs">>].u \in Uploads /\ UpStep(at[<<l, "fs">>].u)
      BY <1>1, <1>12, WriteStep
    <2>2. sessions' = sessions /\ late' = late /\ link' = link
      BY <1>12 DEF Write, marks
    <2> QED
      BY <1>2, <2>1, <2>2
<1>13. ASSUME NEW l \in Links, Flush(l) PROVE Goal
    <2>1. at[<<l, "fs">>].u \in Uploads /\ UpStep(at[<<l, "fs">>].u)
      BY <1>1, <1>13, FlushStep
    <2>2. sessions' = sessions /\ late' = late /\ link' = link
      BY <1>13 DEF Flush
    <2> QED
      BY <1>2, <2>1, <2>2
<1>14. ASSUME NEW h \in Handlers, Take(h) PROVE Goal
    BY <1>0, <1>3, <1>14 DEF Take, marks
<1>15. ASSUME NEW h \in Handlers, Check(h) PROVE Goal
    <2>1. at[h].u \in Uploads /\ UpStep(at[h].u)
      BY <1>1, <1>15, CheckStep
    <2>2. sessions' = sessions /\ late' = late /\ link' = link
      BY <1>15 DEF Check, marks
    <2> QED
      BY <1>2, <2>1, <2>2
<1>16. ASSUME NEW h \in Handlers, Clean(h) \/ Rename(h) PROVE Goal
    <2>1. at[h].u \in Uploads /\ UpStep(at[h].u)
      BY <1>1, <1>16, CleanOrRenameStep
    <2>2. sessions' = sessions /\ late' = late /\ link' = link
      BY <1>16 DEF Clean, Rename, marks
    <2> QED
      BY <1>2, <2>1, <2>2
<1>17. ASSUME NEW u \in Uploads, DiskWrite(u) PROVE Goal
    <2>1. UpStep(u)
      BY <1>1, <1>17, DiskWriteStep
    <2>2. sessions' = sessions /\ late' = late /\ link' = link
      BY <1>17 DEF DiskWrite, marks
    <2> QED
      BY <1>2, <2>1, <2>2
<1>18. ASSUME \/ \E l \in Links, id \in Ids, r \in Downloads : DownloadInit(l, id, r)
              \/ DownloadHash \/ DownloadSend \/ DownloadEnd
              \/ UNCHANGED vars
       PROVE  Goal
    <2>1. up' = up /\ late' = late /\ link' = link /\ sessions' = sessions
      BY <1>18 DEF DownloadInit, DownloadHash, DownloadSend, DownloadEnd, vars, marks
    <2> QED
      BY <1>3, <2>1
<1>19. ASSUME NEW l \in Links, LinkDown(l) \/ Sweep(l)
       PROVE  up' = up /\ late' = late
    BY <1>19 DEF LinkDown, Sweep, marks
<1>20. CASE \E l \in Links : LinkDown(l) \/ Sweep(l)
    BY <1>0, <1>19, <1>20
<1>21. CASE ~ \E l \in Links : LinkDown(l) \/ Sweep(l)
    <2>1. ASSUME \/ \E l \in Links : LinkDown(l) \/ Sweep(l)
                 \/ \E l \in Links, id \in Ids, r \in Downloads : DownloadInit(l, id, r)
                 \/ DownloadHash \/ DownloadSend \/ DownloadEnd
                 \/ UNCHANGED vars
          PROVE  Goal
      BY <1>18, <1>21, <2>1
    <2>2. Goal
      BY <1>4, <1>5, <1>6, <1>7, <1>8, <1>9, <1>10, <1>11, <1>12, <1>13, <1>14, <1>15,
         <1>16, <1>17, <2>1, Cases
    <2> QED
      BY <2>2 DEF Goal
<1> QED
    BY <1>20, <1>21

LEMMA StrandedStep ==
    ASSUME Typed, Placed, NoStrandedSession, [Next]_vars PROVE NoStrandedSession'
<1>0. /\ \A id \in Ids : sessions[id] # None =>
            sessions[id] \in Uploads /\ up[sessions[id]] \in Session
      /\ link \in [Links -> {"up", "down", "swept"}]
      /\ ClientOf \in [Links -> Clients]
      /\ raced' \in BOOLEAN
    BY TransferAssumption, Cases DEF Typed, TypeOK
<1> SUFFICES ASSUME NEW id \in Ids, NEW u, u = sessions'[id], u # None,
                    \A l \in Links : ClientOf[l] = ClientOf[up'[u].link] => link'[l] = "swept"
             PROVE  u \in late'
    BY DEF NoStrandedSession
<1>1. /\ sessions[id] = u => up'[u].link = up[u].link
      /\ late \subseteq late'
      /\ \/ /\ link' = link
            /\ \/ u = sessions[id]
               \/ link[up'[u].link] = "swept" => u \in late'
         \/ \E l \in Links : LinkDown(l) \/ Sweep(l)
    BY RegistryStep
<1>2. Typed' /\ Placed'
    BY BaseInduction
<1>3. u \in Uploads /\ up'[u] \in Session /\ up'[u].link \in Links
    BY <1>2 DEF Typed, TypeOK, Session
<1>4. sessions[id] = u /\ (\A l \in Links :
         ClientOf[l] = ClientOf[up[u].link] => link[l] = "swept") => u \in late
    BY DEF NoStrandedSession
<1>5. ASSUME NEW l \in Links, LinkDown(l)
      PROVE  u \in late'
    <2>1. sessions' = sessions /\ up' = up /\ \A k \in Links : link'[k] = "swept" => link[k] = "swept"
      BY <1>0, <1>5 DEF LinkDown
    <2> QED
      BY <1>1, <1>4, <2>1
<1>6. ASSUME NEW l \in Links, Sweep(l)
      PROVE  u \in late'
    <2>1. up' = up /\ \A k \in Links : k # l => link'[k] = link[k]
      BY <1>0, <1>6 DEF Sweep
    <2>2. sessions[id] = u /\ ClientOf[up[u].link] # ClientOf[l]
      BY <1>6 DEF Sweep
    <2> QED
      BY <1>1, <1>4, <2>1, <2>2
<1>7. CASE link' = link /\ (u = sessions[id] \/ (link[up'[u].link] = "swept" => u \in late'))
    BY <1>1, <1>3, <1>4, <1>7
<1> QED
    BY <1>1, <1>5, <1>6, <1>7

\* When the last link of a client has been swept, none of its uploads stays in the
\* registry, except one whose init was still running and registered it later.
THEOREM SweepClosesSessions == Spec => []NoStrandedSession
<1>1. Init => NoStrandedSession
    BY DEF Init, NoStrandedSession
<1>2. Typed /\ Placed /\ NoStrandedSession /\ [Next]_vars => NoStrandedSession'
    BY StrandedStep
<1> QED
    BY <1>1, <1>2, BaseInit, BaseInduction, PTL DEF Spec

-----------------------------------------------------------------------------
(* Uploads at work *)

\* An upload is at work if a handler has it, a write of it is under way, or it is
\* registered and no init of its id is about to replace it.
AtWork(u) ==
    /\ u \in Uploads
    /\ \/ \E h \in Handlers : Busy(h) /\ at[h].u = u
       \/ Started(u) /\ up[u].busy # NoChunk
       \/ \E id \in Ids :
            /\ sessions[id] = u
            /\ \A g \in Handlers : at[g].pc \in InitPcs => IdFor(at[g].u) # id

LEMMA WorkersAre == Typed => \A u : u \in Workers <=> AtWork(u)
<1> SUFFICES ASSUME Typed, NEW u PROVE u \in Workers <=> AtWork(u)
    OBVIOUS
<1>1. /\ \A h \in Handlers : ~Busy(h) => at[h].u = None
      /\ \A h \in Handlers : Busy(h) => at[h].u \in Uploads
      /\ \A h \in Handlers : at[h].pc \in InitPcs => Busy(h)
      /\ sessions \in [Ids -> {None} \cup Uploads]
      /\ None \notin Uploads
    BY Constants DEF Typed, TypeOK, Busy, InitPcs
<1>2. u \in Opening \cup Held <=> u \in Uploads /\ \E h \in Handlers : Busy(h) /\ at[h].u = u
    BY <1>1 DEF Opening, Held
<1>3. u \in Pending <=> u \in Uploads /\ Started(u) /\ up[u].busy # NoChunk
    BY DEF Pending
<1>4. u \in Waiting <=> u \in Uploads /\ \E id \in Ids :
            /\ sessions[id] = u
            /\ \A g \in Handlers : at[g].pc \in InitPcs => IdFor(at[g].u) # id
    BY <1>1 DEF Waiting, Opening
<1> QED
    BY <1>2, <1>3, <1>4 DEF Workers, AtWork

LEMMA WorkersAreNext == Typed' => (\A u : u \in Workers <=> AtWork(u))'
BY WorkersAre, PTL

\* As long as nothing raced, a step leaves at most one upload at work, and no chunk
\* has met another upload's session.
LEMMA SoloStep ==
    ASSUME Typed', Solo, [Next]_vars
    PROVE  /\ Solo'
           /\ ~raced' => ~raced /\ (Next => ~Astray)
<1>1. CASE UNCHANGED vars
    <2>1. Workers' = Workers /\ raced' = raced
      BY <1>1 DEF vars, Workers, Opening, Held, Pending, Waiting, Started, IdFor
    <2> QED
      BY <1>1, <2>1 DEF Solo, Astray, vars
<1>2. CASE Next
    <2>1. raced' = (raced \/ Cardinality(Workers') > 1 \/ Astray)
      BY <1>2 DEF Next
    <2>2. Workers' \subseteq Uploads /\ IsFiniteSet(Uploads)
      BY WorkersAreNext, FS_Interval, TransferAssumption DEF AtWork, Uploads
    <2>3. IsFiniteSet(Workers')
      BY <2>2, FS_Subset
    <2>4. ASSUME ~raced', NEW a \in Workers', NEW b \in Workers', a # b PROVE FALSE
      <3> DEFINE W == Workers'
      <3>1. a \in W /\ b \in W /\ IsFiniteSet(W) /\ ~ Cardinality(W) > 1
        BY <2>1, <2>3, <2>4
      <3> HIDE DEF W
      <3>2. Cardinality({a, b}) = 2 /\ IsFiniteSet({a, b})
        <4>1. Cardinality({a}) = 1 /\ IsFiniteSet({a})
          BY FS_Singleton
        <4>2. {a, b} = {a} \cup {b} /\ b \notin {a}
          BY <2>4
        <4> QED
          BY <4>1, <4>2, FS_AddElement
      <3>3. Cardinality({a, b}) <= Cardinality(W) /\ Cardinality(W) \in Nat
        BY <3>1, FS_Subset, FS_CardinalityType
      <3> QED
        BY <3>1, <3>2, <3>3
    <2>5. Solo'
      BY <2>4 DEF Solo
    <2> QED
      BY <2>1, <2>5
<1> QED
    BY <1>1, <1>2

\* What holds before a step that leaves the path in order.
Good == Typed /\ Placed /\ Solo /\ ~raced /\ Clear

LEMMA BusyWorks ==
    ASSUME Typed, NEW h \in Handlers, Busy(h)
    PROVE  at[h].u \in Workers /\ at[h].u \in Uploads /\ Started(at[h].u)
BY WorkersAre DEF AtWork, Typed

\* What one handler does for the upload at work brings no other one to work.
LEMMA Narrow ==
    ASSUME Good, Typed', NEW h \in Handlers, NEW u \in Uploads, u \in Workers,
           AtStep(h), UpStep(u), at[h].u \in {u, None}, at'[h].u \in {u, None},
           \A id \in Ids : sessions'[id] \in {None, sessions[id], u},
           at[h].pc \in InitPcs =>
             \/ at'[h].pc \in InitPcs /\ at'[h].u = u
             \/ sessions'[IdFor(u)] = u
    PROVE  Workers' \subseteq {u}
<1> SUFFICES ASSUME NEW w, AtWork(w)', w # u PROVE FALSE
    BY WorkersAreNext
<1>0. /\ at \in [Handlers -> AtRec] /\ up \in [Uploads -> Session \cup {Unused}]
      /\ Typed /\ Placed /\ Others /\ None \notin Uploads
      /\ \A g \in Handlers : Busy(g) => at[g].u \in Uploads /\ Started(at[g].u)
    BY Parts, Constants DEF Good, Typed
<1>1. w \notin Workers /\ ~AtWork(w) /\ w \in Uploads
    BY WorkersAre DEF Good, Solo, AtWork
<1>2. ASSUME NEW g \in Handlers, Busy(g)', at'[g].u = w PROVE FALSE
    <2>1. g # h
      BY <1>0, <1>1, <1>2
    <2>2. at'[g] = at[g]
      BY <2>1 DEF AtStep
    <2> QED
      BY <1>0, <1>1, <1>2, <2>2 DEF AtWork, Busy
<1>3. up'[w].busy = NoChunk \/ ~Started(w)'
    BY <1>0, <1>1 DEF UpStep, AtWork, Started
<1>4. ASSUME NEW id \in Ids, sessions'[id] = w,
             \A g \in Handlers : at'[g].pc \in InitPcs => IdFor(at[g].u)' # id
      PROVE  FALSE
    <2>1. sessions[id] = w
      BY <1>0, <1>1, <1>4
    <2>2. PICK g \in Handlers : at[g].pc \in InitPcs /\ IdFor(at[g].u) = id
      BY <1>1, <2>1 DEF AtWork
    <2>3. PICK x : x = at[g].u
      OBVIOUS
    <2>4. x \in Uploads /\ Started(x)
      BY <1>0, <2>2, <2>3 DEF Busy, InitPcs
    <2>5. IdFor(x)' = id
      <3>1. x = u => up'[x].v = up[x].v
        BY <2>4 DEF UpStep
      <3>2. x # u => up'[x].v = up[x].v
        BY <2>4 DEF UpStep
      <3> QED
        BY <2>2, <2>3, <3>1, <3>2 DEF IdFor
    <2>6. CASE g # h
      BY <1>4, <2>2, <2>3, <2>5, <2>6 DEF AtStep
    <2>7. CASE g = h
      <3>1. x = u /\ IdFor(u) = id
        BY <1>0, <2>2, <2>3, <2>4, <2>7
      <3>2. CASE at'[h].pc \in InitPcs /\ at'[h].u = u
        BY <1>4, <2>5, <3>1, <3>2
      <3>3. CASE sessions'[IdFor(u)] = u
        BY <1>4, <3>1, <3>3
      <3> QED
        BY <2>2, <2>7, <3>2, <3>3
    <2> QED
      BY <2>6, <2>7
<1> QED
    BY <1>1, <1>2, <1>3, <1>4 DEF AtWork

\* The handlers beside the one that moves need only stand where they may.
LEMMA Joined ==
    ASSUME Good, Typed', NEW h \in Handlers, NEW u \in Uploads,
           AtStep(h), UpStep(u), Workers' \subseteq {u},
           \A g \in Handlers \ {h} : Busy(g) =>
             /\ at[g].pc \in {"cancel", "write", "flush", "take"}
             /\ up'[u].next = up[u].next /\ Started(u)
             /\ \/ at'[h].pc = "idle"
                \/ at'[h].pc = "cancel" /\ at[g].pc # "cancel"
                \/ at'[h].pc \in {"write", "flush", "take"} /\ at[g].pc = "cancel",
           at'[h].pc # "idle" => Tie(h)' /\ Prepared(h)' /\ Ready(h)',
           Apart', Read', u \in Workers' => Sound(u)'
    PROVE  Clear'
<1>1. \A g \in Handlers \ {h} : at'[g] = at[g]
    BY DEF AtStep
<1>2. ASSUME NEW g \in Handlers, g # h, Busy(g)
      PROVE  Tie(g)' /\ Prepared(g)' /\ Ready(g)'
    <2>1. PICK x : x = at[g].u
      OBVIOUS
    <2>2. at'[g].u = x /\ Busy(g)'
      BY <1>1, <1>2, <2>1 DEF Busy
    <2>3. x = u
      <3>1. AtWork(x)'
        BY <1>2, <2>1, <2>2 DEF AtWork, Good, Typed
      <3> QED
        BY <3>1, WorkersAreNext
    <2>4. /\ at[g].pc \in {"cancel", "write", "flush", "take"}
          /\ up'[u].next = up[u].next /\ up'[u].link = up[u].link
      BY <1>2 DEF UpStep
    <2>5. Tie(g)
      BY DEF Good, Clear, Tied
    <2>6. Tie(g)'
      BY <1>1, <1>2, <2>1, <2>3, <2>4, <2>5 DEF Tie
    <2>7. Prepared(g)' /\ Ready(g)'
      BY <1>1, <1>2, <2>4 DEF Prepared, Ready, InitPcs
    <2> QED
      BY <2>6, <2>7
<1>3. Alone'
    <2> SUFFICES ASSUME NEW a \in Handlers, NEW b \in Handlers, a # b, Busy(a)', Busy(b)'
                 PROVE  Beside(a, b)' \/ Beside(b, a)'
      BY DEF Alone
    <2>1. CASE a # h /\ b # h
      BY <1>1, <2>1 DEF Good, Clear, Alone, Beside, Busy
    <2>2. CASE a = h
      BY <1>1, <2>2 DEF Beside, Busy
    <2>3. CASE b = h
      BY <1>1, <2>3 DEF Beside, Busy
    <2> QED
      BY <2>1, <2>2, <2>3
<1>4. Tied'
    <2> SUFFICES ASSUME NEW g \in Handlers PROVE Tie(g)'
      BY DEF Tied
    <2>1. CASE at'[g].pc = "idle"
      BY <2>1 DEF Tie
    <2> QED
      BY <1>1, <1>2, <2>1 DEF Busy
<1>5. \A g \in Handlers : Busy(g)' => Prepared(g)' /\ Ready(g)'
    BY <1>1, <1>2 DEF Busy
<1>6. \A w \in Workers' : Sound(w)'
    OBVIOUS
<1> QED
    BY <1>3, <1>4, <1>5, <1>6 DEF Clear

\* Who may be beside a handler at work.
LEMMA Neighbours ==
    ASSUME Good, NEW h \in Handlers, Busy(h), NEW g \in Handlers, g # h, Busy(g)
    PROVE  \/ at[h].pc = "cancel" /\ at[g].pc \in {"write", "flush", "take"}
           \/ at[h].pc \in {"write", "flush", "take"} /\ at[g].pc = "cancel"
BY DEF Good, Clear, Alone, Beside

-----------------------------------------------------------------------------
(* Each action keeps the path in order *)

\* What the invariant says of a handler and the upload it has.
LEMMA Here ==
    ASSUME Good, NEW h \in Handlers, NEW u, u = at[h].u, Busy(h)
    PROVE  /\ u \in Workers /\ u \in Uploads /\ Started(u) /\ up[u] \in Session
           /\ \A w \in Workers : w = u
           /\ Sound(u) /\ Prepared(h) /\ Ready(h) /\ Tie(h) /\ Apart /\ Read
           /\ Others /\ Typed /\ Placed
BY BusyWorks, Parts DEF Good, Clear, Solo, Tied

LEMMA OpenClear ==
    ASSUME Good, raced' \in BOOLEAN, NEW l \in Links, Open(l)
    PROVE  Clear'
<1> DEFINE h == <<l, "cmd">>
<1>0. PICK u : u = at[h].u
    OBVIOUS
<1>1. /\ Typed' /\ Placed'
      /\ h \in Handlers /\ at[h].pc = "open" /\ u \in Uploads /\ up[u] \in Session
      /\ AtStep(h) /\ UpStep(u)
      /\ up'[u].pos = up[u].pos /\ up'[u].hashed = up[u].hashed
      /\ up'[u].busy = up[u].busy /\ up'[u].err = up[u].err
      /\ up'[u].next = up[u].next /\ up'[u].off = up[u].off
      /\ up'[u].ino = part'
      /\ \/ /\ up[u].append /\ part = None /\ at'[h].pc = "idle" /\ at'[h].u = None
            /\ disk' = disk /\ part' = part
         \/ /\ up[u].append /\ part # None /\ at'[h].pc = "hash" /\ at'[h].u = u
            /\ disk' = disk /\ part' = part
         \/ /\ ~up[u].append /\ at'[h].pc = "insert" /\ at'[h].u = u
            /\ part' = IF part = None THEN u ELSE part
            /\ disk' = [disk EXCEPT ![part'] = <<>>]
      /\ Fresh(u)
      /\ sessions' = sessions /\ final' = final /\ dl' = dl
    BY <1>0, OpenStep DEF Good
<1>2. /\ u \in Workers /\ Started(u) /\ Prepared(h) /\ Apart /\ Read /\ Others
      /\ Typed /\ Placed /\ Busy(h)
    BY <1>0, <1>1, Here DEF Busy
<1> HIDE DEF h
<1>3. up'[u].append = up[u].append /\ up[u].next = 0
    BY <1>0, <1>1, <1>2 DEF UpStep, Placed, InitPcs
<1>4. /\ up[u].append => part # None /\ Len(disk[part]) = up[u].off
      /\ ~up[u].append => up[u].off = 0 /\ up[u].hashed = <<>> /\ up[u].pos = 0
      /\ ~up[u].err
    BY <1>0, <1>1, <1>2 DEF Prepared, InitPcs
<1>5. Workers' \subseteq {u}
    BY <1>0, <1>1, <1>2, <1>4, Narrow DEF InitPcs
<1>6. \A g \in Handlers \ {h} : ~Busy(g)
    BY <1>1, <1>2, Neighbours
<1>7. part' # final' /\ part' # dl'.ino /\ part' \in Uploads
    BY <1>1, <1>2, <1>4 DEF Fresh, Placed, Apart, Others
<1>8. Prepared(h)'
    <2>1. CASE at'[h].pc = "hash"
      BY <1>1, <1>3, <1>4, <2>1 DEF Prepared, InitPcs
    <2>2. CASE at'[h].pc = "insert"
      <3>1. disk'[part'] = <<>> /\ ~up[u].append /\ at'[h].u = u
        BY <1>1, <1>2, <1>7, <2>2 DEF Others
      <3> QED
        BY <1>1, <1>3, <1>4, <2>2, <3>1 DEF Prepared, InitPcs
    <2> QED
      BY <1>1, <1>4, <2>1, <2>2
<1>9. Read'
    <2>1. dl.pc = "send" => disk'[dl.ino] = disk[dl.ino]
      <3>1. dl.pc = "send" => dl.ino \in Uploads
        BY <1>2 DEF Others, Download
      <3> QED
        BY <1>1, <1>2, <1>7, <3>1 DEF Others
    <2> QED
      BY <1>1, <1>2, <2>1 DEF Read
<1>10. Sound(u)'
    BY <1>1, <1>3, <1>7 DEF Sound
<1>11. Tie(h)' /\ Ready(h)'
    BY <1>1, <1>4 DEF Tie, Ready
<1>12. Apart'
    BY <1>7 DEF Apart
<1> QED
    BY <1>1, <1>5, <1>6, <1>8, <1>9, <1>10, <1>11, <1>12, Joined

LEMMA HashClear ==
    ASSUME Good, raced' \in BOOLEAN, NEW l \in Links, Hash(l)
    PROVE  Clear'
<1> DEFINE h == <<l, "cmd">>
<1>0. PICK u : u = at[h].u
    OBVIOUS
<1>1. /\ Typed' /\ Placed'
      /\ h \in Handlers /\ at[h].pc = "hash" /\ u \in Uploads /\ up[u] \in Session
      /\ AtStep(h) /\ UpStep(u)
      /\ up'[u].pos = up[u].pos /\ up'[u].ino = up[u].ino
      /\ up'[u].busy = up[u].busy /\ up'[u].err = up[u].err
      /\ up'[u].next = up[u].next /\ up'[u].off = up[u].off
      /\ \/ part = None /\ at'[h].pc = "idle" /\ at'[h].u = None
         \/ /\ part # None /\ at'[h].pc = "insert" /\ at'[h].u = u
            /\ up'[u].hashed = disk[part]
      /\ sessions' = sessions /\ disk' = disk /\ part' = part /\ final' = final
      /\ dl' = dl
    BY <1>0, HashStep DEF Good
<1>2. /\ u \in Workers /\ Started(u) /\ Prepared(h) /\ Apart /\ Read /\ Sound(u)
      /\ Typed /\ Placed /\ Busy(h)
    BY <1>0, <1>1, Here DEF Busy
<1> HIDE DEF h
<1>3. up'[u].append = up[u].append /\ up[u].next = 0 /\ up[u].ino # None
    BY <1>0, <1>1, <1>2 DEF UpStep, Placed, InitPcs
<1>4. /\ up[u].append /\ up[u].ino = part /\ Len(disk[part]) = up[u].off
      /\ ~up[u].err
    BY <1>0, <1>1, <1>2 DEF Prepared, InitPcs
<1>5. Workers' \subseteq {u}
    BY <1>0, <1>1, <1>2, <1>3, <1>4, Narrow DEF InitPcs
<1>6. \A g \in Handlers \ {h} : ~Busy(g)
    BY <1>1, <1>2, Neighbours
<1>7. Prepared(h)' /\ Tie(h)' /\ Ready(h)'
    BY <1>1, <1>3, <1>4 DEF Prepared, InitPcs, Tie, Ready
<1>8. Apart' /\ Read'
    BY <1>1, <1>2 DEF Apart, Read
<1>9. Sound(u)'
    BY <1>1, <1>2, <1>3 DEF Sound
<1> QED
    BY <1>1, <1>5, <1>6, <1>7, <1>8, <1>9, Joined

LEMMA InsertClear ==
    ASSUME Good, raced' \in BOOLEAN, NEW l \in Links, Insert(l)
    PROVE  Clear'
<1> DEFINE h == <<l, "cmd">>
<1>0. PICK u : u = at[h].u
    OBVIOUS
<1>1. /\ Typed' /\ Placed'
      /\ h \in Handlers /\ at[h].pc = "insert" /\ u \in Uploads /\ up[u] \in Session
      /\ AtStep(h) /\ UpStep(u)
      /\ up'[u].pos = up[u].pos /\ up'[u].ino = up[u].ino
      /\ up'[u].busy = up[u].busy /\ up'[u].err = up[u].err
      /\ up'[u].hashed = up[u].hashed /\ up'[u].off = up[u].off
      /\ up'[u].next = up[u].off + 1
      /\ IF up[u].off = N THEN at'[h].pc = "take" /\ at'[h].u = u
         ELSE at'[h].pc = "idle" /\ at'[h].u = None
      /\ IdFor(u) \in Ids /\ sessions' = [sessions EXCEPT ![IdFor(u)] = u]
      /\ disk' = disk /\ part' = part /\ final' = final
      /\ dl' = dl
    BY <1>0, InsertStep DEF Good
<1>2. /\ u \in Workers /\ Started(u) /\ Prepared(h) /\ Apart /\ Read /\ Sound(u)
      /\ Typed /\ Placed /\ Busy(h) /\ Others
    BY <1>0, <1>1, Here DEF Busy
<1> HIDE DEF h
<1>3. /\ up'[u].append = up[u].append /\ up[u].next = 0 /\ up[u].ino # None
      /\ up[u].busy = NoChunk
    BY <1>0, <1>1, <1>2 DEF UpStep, Placed, InitPcs
<1>4. /\ up[u].ino = part /\ up[u].hashed = disk[part] /\ Len(up[u].hashed) = up[u].off
      /\ up[u].append \/ up[u].pos = up[u].off
      /\ ~up[u].err
    BY <1>0, <1>1, <1>2 DEF Prepared, InitPcs
<1>5. /\ sessions'[IdFor(u)] = u
      /\ \A id \in Ids : sessions'[id] \in {None, sessions[id], u}
    BY <1>1, <1>2 DEF Others
<1>6. Workers' \subseteq {u}
    BY <1>0, <1>1, <1>2, <1>5, Narrow DEF InitPcs
<1>7. \A g \in Handlers \ {h} : ~Busy(g)
    BY <1>1, <1>2, Neighbours
<1>8. at'[h].pc # "idle" => Prepared(h)' /\ Tie(h)' /\ Ready(h)'
    BY <1>1 DEF Prepared, InitPcs, Tie, Ready
<1>9. Apart' /\ Read'
    BY <1>1, <1>2 DEF Apart, Read
<1>10. Sound(u)'
    <2>1. Synced(u)'
      BY <1>1, <1>3, <1>4 DEF Synced
    <2>2. up[u].ino # final /\ up[u].ino # dl.ino
      BY <1>2, <1>3 DEF Sound
    <2> QED
      BY <1>1, <1>4, <2>1, <2>2 DEF Sound
<1> QED
    BY <1>1, <1>6, <1>7, <1>8, <1>9, <1>10, Joined

\* The partial of an upload that its command channel unlinks is not the file's.
LEMMA CancelUnlinkClear ==
    ASSUME Good, raced' \in BOOLEAN, NEW l \in Links, CancelUnlink(l)
    PROVE  Clear'
<1> DEFINE h == <<l, "cmd">>
<1>0. PICK u : u = at[h].u
    OBVIOUS
<1>1. /\ Typed' /\ Placed'
      /\ h \in Handlers /\ at[h].pc = "cancel" /\ u \in Uploads /\ Started(u)
      /\ sessions[IdFor(u)] # u
      /\ AtStep(h) /\ at'[h].pc = "idle" /\ at'[h].u = None /\ up' = up
      /\ part' = None
      /\ sessions' = sessions /\ disk' = disk /\ final' = final /\ dl' = dl
    BY <1>0, CancelUnlinkStep DEF Good
<1>2. /\ u \in Workers /\ Read /\ Sound(u) /\ Busy(h) /\ Others
      /\ up \in [Uploads -> Session \cup {Unused}] /\ up[u] \in Session
    BY <1>0, <1>1, Here, Parts DEF Busy
<1> HIDE DEF h
<1>3. UpStep(u)
    BY <1>1, <1>2 DEF UpStep
<1>4. Workers' \subseteq {u}
    BY <1>0, <1>1, <1>2, <1>3, Narrow DEF InitPcs
<1>5. \A g \in Handlers \ {h} : Busy(g) => at[g].pc \in {"cancel", "write", "flush", "take"}
    BY <1>1, <1>2, Neighbours
<1>6. Apart' /\ Read'
    BY <1>1, <1>2 DEF Apart, Read
<1>7. Sound(u)'
    <2>1. Synced(u) => Synced(u)'
      BY <1>1 DEF Synced, Stalled, AtStep
    <2> QED
      BY <1>1, <1>2, <2>1 DEF Sound, IdFor
<1> QED
    BY <1>1, <1>3, <1>4, <1>5, <1>6, <1>7, Joined

LEMMA SkipClear ==
    ASSUME Good, raced' \in BOOLEAN, NEW l \in Links, Skip(l)
    PROVE  Clear'
<1> DEFINE h == <<l, "fs">>
<1>0. PICK u : u = at[h].u
    OBVIOUS
<1>1. /\ Typed' /\ Placed'
      /\ h \in Handlers /\ at[h].pc = "write" /\ u \in Uploads /\ up[u] \in Session
      /\ up[u].next > 0 /\ at[h].k[2] \in 1 .. N
      /\ AtStep(h) /\ UpStep(u) /\ at'[h].pc = "idle" /\ at'[h].u = None
      /\ up'[u].pos = up[u].pos /\ up'[u].ino = up[u].ino
      /\ up'[u].busy = up[u].busy /\ up'[u].next = up[u].next
      /\ up'[u].hashed = up[u].hashed /\ up'[u].off = up[u].off
      /\ \/ up'[u].err = up[u].err
         \/ at[h].k[2] = up[u].off + 1 /\ up[u].err /\ ~up'[u].err
      /\ sessions' = sessions /\ disk' = disk /\ part' = part /\ final' = final
      /\ dl' = dl
    BY <1>0, SkipStep DEF Good
<1>2. /\ u \in Workers /\ Started(u) /\ Apart /\ Read /\ Sound(u) /\ Tie(h)
      /\ Busy(h) /\ Others
    BY <1>0, <1>1, Here DEF Busy
<1> HIDE DEF h
<1>3. up'[u].append = up[u].append /\ up'[u].v = up[u].v
    BY <1>1, <1>2 DEF UpStep
<1>4. Workers' \subseteq {u}
    BY <1>0, <1>1, <1>2, Narrow DEF InitPcs
<1>5. \A g \in Handlers \ {h} : Busy(g) => at[g].pc = "cancel"
    BY <1>1, <1>2, Neighbours
<1>6. Apart' /\ Read'
    BY <1>1, <1>2 DEF Apart, Read
<1>7. Sound(u)'
    <2>1. Synced(u)
      BY <1>1, <1>2 DEF Sound
    <2>2. CASE up'[u].err = up[u].err
      <3>1. Stalled(u) => Stalled(u)'
        BY <1>1, <2>2 DEF Stalled, AtStep
      <3>2. Synced(u)'
        BY <1>1, <1>3, <2>1, <2>2, <3>1 DEF Synced
      <3> QED
        BY <1>1, <1>2, <1>3, <3>2 DEF Sound, IdFor
    <2>3. CASE at[h].k[2] = up[u].off + 1 /\ up[u].err /\ ~up'[u].err
      <3>1. up[u].off < N /\ up[u].next > up[u].off + 1
        <4>1. at[h].k[2] < up[u].next
          BY <1>0, <1>1, <1>2 DEF Tie
        <4> QED
          BY <1>1, <2>3, <4>1, Constants DEF Session
      <3>2. up[u].busy = NoChunk /\ up[u].off > 0
            /\ disk[up[u].ino] = SubSeq(up[u].hashed, 1, up[u].off - 1)
        BY <2>1, <2>3 DEF Synced, Stalled
      <3>3. \A g \in Handlers : at'[g].pc # "write"
        BY <1>1, <1>5 DEF AtStep, Busy
      <3>4. Stalled(u)'
        BY <1>1, <2>3, <3>1, <3>2, <3>3 DEF Stalled
      <3>5. Synced(u)'
        BY <1>1, <1>3, <2>1, <3>2, <3>4 DEF Synced
      <3> QED
        BY <1>1, <1>2, <1>3, <3>5 DEF Sound, IdFor
    <2> QED
      BY <1>1, <2>2, <2>3
<1> QED
    BY <1>1, <1>2, <1>4, <1>5, <1>6, <1>7, Joined

\* A write makes the hasher one chunk longer than the file.
LEMMA WriteClear ==
    ASSUME Good, raced' \in BOOLEAN, NEW l \in Links, Write(l)
    PROVE  Clear'
<1> DEFINE h == <<l, "fs">>
<1>0. PICK u : u = at[h].u
    OBVIOUS
<1>00. PICK k : k = at[h].k
    OBVIOUS
<1>1. /\ Typed' /\ Placed'
      /\ h \in Handlers /\ at[h].pc = "write" /\ u \in Uploads /\ up[u] \in Session
      /\ up[u].next > 0 /\ k \in Chunk /\ k[2] = up[u].off + 1
      /\ up[u].busy = NoChunk /\ ~up[u].err
      /\ AtStep(h) /\ UpStep(u)
      /\ \/ at'[h].pc = "idle" /\ at'[h].u = None
         \/ at'[h].pc = "flush" /\ at'[h].u = u /\ at'[h].k = k
      /\ up'[u].pos = up[u].pos /\ up'[u].ino = up[u].ino
      /\ up'[u].busy = k /\ up'[u].next = up[u].next /\ up'[u].err = up[u].err
      /\ up'[u].hashed = Longer(up[u].hashed, k) /\ up'[u].off = up[u].off + 1
      /\ sessions' = sessions /\ disk' = disk /\ part' = part /\ final' = final
      /\ dl' = dl
    BY <1>0, <1>00, WriteStep DEF Good
<1>2. /\ u \in Workers /\ Started(u) /\ Apart /\ Read /\ Sound(u) /\ Tie(h)
      /\ Busy(h) /\ Others
    BY <1>0, <1>1, Here DEF Busy
<1> HIDE DEF h
<1>3. /\ up'[u].append = up[u].append /\ up'[u].v = up[u].v
      /\ up'[u].link = up[u].link
    BY <1>1, <1>2 DEF UpStep
<1>4. Workers' \subseteq {u}
    BY <1>0, <1>1, <1>2, Narrow DEF InitPcs
<1>5. \A g \in Handlers \ {h} : Busy(g) => at[g].pc = "cancel"
    BY <1>1, <1>2, Neighbours
<1>6. Apart' /\ Read'
    BY <1>1, <1>2 DEF Apart, Read
<1>7. Sound(u)'
    <2>1. Synced(u) /\ up[u].hashed \in Seq(Chunk) /\ up[u].off \in Nat
      BY <1>1, <1>2 DEF Sound, Session
    <2>2. ~Stalled(u)
      BY <1>0, <1>00, <1>1, <2>1 DEF Stalled
    <2>3. disk[up[u].ino] = up[u].hashed /\ Len(up[u].hashed) = up[u].off
          /\ (up[u].append \/ up[u].pos = Len(disk[up[u].ino]))
      BY <1>1, <2>1, <2>2, Constants DEF Synced
    <2> DEFINE s == up[u].hashed
               a == Append(s, k)
    <2>4. /\ Len(a) = Len(s) + 1 /\ a[Len(s) + 1] = k
          /\ SubSeq(a, 1, Len(s)) = s /\ Len(s) \in Nat
      BY <1>1, <2>1, AppendedLast, AppendProperties
    <2>5. Len(s) + 1 - 1 = Len(s) /\ Len(s) + 1 > 0
      BY <2>4
    <2>6. /\ up'[u].hashed = a /\ up'[u].off = Len(s) + 1 /\ disk[up[u].ino] = s
          /\ Len(s) = up[u].off
      BY <1>1, <2>3 DEF Longer
    <2> HIDE DEF a, s
    <2>7. SubSeq(up'[u].hashed, 1, up'[u].off - 1) = s /\ up'[u].hashed[up'[u].off] = k
      BY <2>4, <2>5, <2>6
    <2>8. Synced(u)'
      BY <1>1, <1>3, <2>3, <2>4, <2>5, <2>6, <2>7 DEF Synced
    <2> QED
      BY <1>1, <1>2, <1>3, <2>8 DEF Sound, IdFor
<1>8. at'[h].pc # "idle" => Prepared(h)' /\ Tie(h)' /\ Ready(h)'
    BY <1>0, <1>1, <1>2, <1>3 DEF Prepared, InitPcs, Tie, Ready
<1> QED
    BY <1>1, <1>2, <1>4, <1>5, <1>6, <1>7, <1>8, Joined

\* A flush that finds a failed write is what the invariant does not speak of.
LEMMA FlushClear ==
    ASSUME Good, raced' \in BOOLEAN, swallowed' = {}, NEW l \in Links, Flush(l)
    PROVE  Clear'
<1> DEFINE h == <<l, "fs">>
<1>0. PICK u : u = at[h].u
    OBVIOUS
<1>1. /\ Typed' /\ Placed'
      /\ h \in Handlers /\ at[h].pc = "flush" /\ u \in Uploads /\ up[u] \in Session
      /\ up[u].next > 0 /\ up[u].busy = NoChunk
      /\ AtStep(h) /\ UpStep(u)
      /\ \/ at'[h].pc = "idle" /\ at'[h].u = None
         \/ at'[h].pc = "take" /\ at'[h].u = u
      /\ up'[u].pos = up[u].pos /\ up'[u].ino = up[u].ino
      /\ up'[u].busy = NoChunk /\ up'[u].next = up[u].next /\ ~up'[u].err
      /\ up'[u].hashed = up[u].hashed /\ up'[u].off = up[u].off
      /\ swallowed' = IF up[u].err THEN swallowed \cup {u} ELSE swallowed
      /\ sessions' = sessions /\ disk' = disk /\ part' = part /\ final' = final
      /\ dl' = dl
    BY <1>0, FlushStep DEF Good
<1>2. /\ u \in Workers /\ Started(u) /\ Apart /\ Read /\ Sound(u) /\ Tie(h)
      /\ Busy(h) /\ Others
    BY <1>0, <1>1, Here DEF Busy
<1> HIDE DEF h
<1>3. /\ up'[u].append = up[u].append /\ up'[u].v = up[u].v
      /\ up'[u].link = up[u].link /\ ~up[u].err
    BY <1>1, <1>2 DEF UpStep
<1>4. Workers' \subseteq {u}
    BY <1>0, <1>1, <1>2, Narrow DEF InitPcs
<1>5. \A g \in Handlers \ {h} : Busy(g) => at[g].pc = "cancel"
    BY <1>1, <1>2, Neighbours
<1>6. Apart' /\ Read'
    BY <1>1, <1>2 DEF Apart, Read
<1>7. Sound(u)'
    <2>1. Stalled(u) => Stalled(u)'
      BY <1>1, <1>3 DEF Stalled, AtStep
    <2>2. Synced(u)'
      BY <1>1, <1>2, <1>3, <2>1 DEF Synced, Sound
    <2> QED
      BY <1>1, <1>2, <1>3, <2>2 DEF Sound, IdFor
<1>8. at'[h].pc # "idle" => Prepared(h)' /\ Tie(h)' /\ Ready(h)'
    BY <1>0, <1>1, <1>2, <1>3 DEF Prepared, InitPcs, Tie, Ready
<1> QED
    BY <1>1, <1>2, <1>4, <1>5, <1>6, <1>7, <1>8, Joined

\* What is taken is the upload that was finished.
LEMMA TakeClear ==
    ASSUME Good, raced' \in BOOLEAN, NEW h \in Handlers, Take(h)
    PROVE  Clear'
<1>0. PICK u : u = at[h].u
    OBVIOUS
<1>00. PICK o : o = sessions[IdFor(u)]
    OBVIOUS
<1>1. /\ Typed' /\ Placed'
      /\ at[h].pc = "take" /\ u \in Uploads /\ up[u] \in Session
      /\ up[u].next > 0 /\ AtStep(h) /\ up' = up
      /\ \/ o = None /\ at'[h].pc = "idle" /\ at'[h].u = None
         \/ /\ o \in Uploads /\ Started(o) /\ IdFor(o) = IdFor(u)
            /\ at'[h].pc = "check" /\ at'[h].u = o
      /\ IdFor(u) \in Ids /\ sessions' = [sessions EXCEPT ![IdFor(u)] = None]
      /\ disk' = disk /\ part' = part /\ final' = final
      /\ dl' = dl
    BY <1>0, <1>00, TakeStep DEF Good
<1>2. /\ u \in Workers /\ Started(u) /\ Apart /\ Read /\ Sound(u) /\ Tie(h)
      /\ Busy(h) /\ Others /\ Typed /\ Placed /\ \A w \in Workers : w = u
      /\ up \in [Uploads -> Session \cup {Unused}]
    BY <1>0, <1>1, Here, Parts DEF Busy
<1>3. UpStep(u)
    BY <1>1, <1>2 DEF UpStep
<1>4. \A g \in Handlers \ {h} : Busy(g) => at[g].pc = "cancel"
    BY <1>1, <1>2, Neighbours
<1>5. o \in Uploads => o = u
    <2>1. \A g \in Handlers : at[g].pc \notin InitPcs
      BY <1>1, <1>4 DEF Busy, InitPcs
    <2>2. o \in Uploads => AtWork(o)
      BY <1>00, <1>1, <2>1 DEF AtWork
    <2> QED
      BY <1>2, <2>2, WorkersAre
<1>6. \A id \in Ids : sessions'[id] \in {None, sessions[id]}
    BY <1>1, <1>2 DEF Others
<1>7. Workers' \subseteq {u}
    BY <1>0, <1>1, <1>2, <1>3, <1>5, <1>6, Narrow DEF InitPcs
<1>8. ASSUME at'[h].pc # "idle", NEW g \in Handlers \ {h}, Busy(g) PROVE FALSE
    <2>1. at[g].pc = "cancel" /\ at[g].u = u
      <3>1. at[g].pc = "cancel" /\ at[g].u \in Workers
        BY <1>2, <1>4, <1>8, BusyWorks
      <3> QED
        BY <1>2, <3>1
    <2>2. sessions[IdFor(u)] # u
      BY <1>2, <1>8, <2>1 DEF Placed, Takers
    <2> QED
      BY <1>00, <1>1, <1>5, <1>8, <2>2
<1>9. Apart' /\ Read'
    BY <1>1, <1>2 DEF Apart, Read
<1>10. Sound(u)'
    <2>1. Stalled(u) => Stalled(u)'
      BY <1>1 DEF Stalled, AtStep
    <2>2. Synced(u)'
      BY <1>1, <1>2, <2>1 DEF Synced, Sound
    <2>3. sessions[IdFor(u)] # u => sessions'[IdFor(u)] # u
      BY <1>1, <1>2, <1>6, Constants
    <2> QED
      BY <1>1, <1>2, <2>2, <2>3 DEF Sound, IdFor
<1>11. at'[h].pc # "idle" => Prepared(h)' /\ Tie(h)' /\ Ready(h)'
    BY <1>1 DEF Prepared, InitPcs, Tie, Ready
<1> QED
    BY <1>1, <1>2, <1>3, <1>4, <1>7, <1>8, <1>9, <1>10, <1>11, Joined

\* The upload that passes its check has its whole version in the partial.
LEMMA CheckClear ==
    ASSUME Good, raced' \in BOOLEAN, NEW h \in Handlers, Check(h)
    PROVE  Clear'
<1>0. PICK u : u = at[h].u
    OBVIOUS
<1>1. /\ Typed' /\ Placed'
      /\ at[h].pc = "check" /\ u \in Uploads /\ up[u] \in Session
      /\ up[u].next > 0 /\ up[u].busy = NoChunk /\ sessions[IdFor(u)] # u
      /\ AtStep(h) /\ UpStep(u)
      /\ \/ up[u].err /\ at'[h].pc = "idle" /\ at'[h].u = None
         \/ /\ ~up[u].err /\ at'[h].u = u
            /\ \/ at'[h].pc = "rename" /\ Verified(u)
               \/ at'[h].pc = "clean"
            /\ up'[u].err = up[u].err
      /\ up'[u].pos = up[u].pos /\ up'[u].ino = up[u].ino
      /\ up'[u].busy = NoChunk /\ up'[u].next = up[u].next
      /\ up'[u].hashed = up[u].hashed /\ up'[u].off = up[u].off
      /\ sessions' = sessions /\ disk' = disk /\ part' = part /\ final' = final
      /\ dl' = dl
    BY <1>0, CheckStep DEF Good
<1>2. /\ u \in Workers /\ Started(u) /\ Apart /\ Read /\ Sound(u) /\ Tie(h)
      /\ Busy(h) /\ Others /\ Typed
    BY <1>0, <1>1, Here DEF Busy
<1>3. /\ up'[u].append = up[u].append /\ up'[u].v = up[u].v
      /\ up'[u].link = up[u].link
    BY <1>1, <1>2 DEF UpStep
<1>4. Workers' \subseteq {u}
    BY <1>0, <1>1, <1>2, Narrow DEF InitPcs
<1>5. \A g \in Handlers \ {h} : ~Busy(g)
    BY <1>1, <1>2, Neighbours
<1>6. Apart' /\ Read'
    BY <1>1, <1>2 DEF Apart, Read
<1>7. Synced(u)
    BY <1>1, <1>2 DEF Sound
<1>8. u \in Workers' => Sound(u)'
    <2>1. CASE up[u].err
      <3>1. \A g \in Handlers : ~Busy(g)'
        BY <1>1, <1>5, <2>1 DEF AtStep, Busy
      <3>2. \A id \in Ids : sessions'[id] # u
        BY <1>1, <1>2, Constants DEF Typed
      <3>3. ~AtWork(u)'
        BY <1>1, <1>2, <3>1, <3>2, Constants DEF AtWork
      <3> QED
        BY <1>1, <3>3, WorkersAreNext
    <2>2. CASE ~up[u].err
      <3>1. Stalled(u) => Stalled(u)'
        BY <1>1, <2>2 DEF Stalled, AtStep
      <3>2. Synced(u)'
        BY <1>1, <1>3, <1>7, <2>2, <3>1 DEF Synced
      <3> QED
        BY <1>1, <1>2, <1>3, <3>2 DEF Sound, IdFor
    <2> QED
      BY <2>1, <2>2
<1>9. at'[h].pc # "idle" => Prepared(h)' /\ Tie(h)' /\ Ready(h)'
    <2>1. CASE at'[h].pc = "rename" /\ Verified(u) /\ ~up[u].err
      <3>1. up[u].off = N /\ up[u].hashed = Full(up[u].v)
        BY <2>1 DEF Verified
      <3>2. disk[up[u].ino] = up[u].hashed
        <4>1. ~Stalled(u)
          BY <3>1, Constants DEF Stalled
        <4> QED
          BY <1>1, <1>7, <2>1, <4>1, Constants DEF Synced, Session
      <3>3. Ready(h)'
        BY <1>1, <1>3, <2>1, <3>1, <3>2 DEF Ready
      <3> QED
        BY <1>1, <2>1, <3>3 DEF Prepared, InitPcs, Tie
    <2>2. CASE at'[h].pc = "clean"
      BY <1>1, <2>2 DEF Prepared, InitPcs, Tie, Ready
    <2> QED
      BY <1>1, <2>1, <2>2
<1> QED
    BY <1>1, <1>2, <1>4, <1>5, <1>6, <1>8, <1>9, Joined

\* What becomes the file is no upload's open file any more.
LEMMA CleanOrRenameClear ==
    ASSUME Good, raced' \in BOOLEAN, NEW h \in Handlers, Clean(h) \/ Rename(h)
    PROVE  Clear'
<1>0. PICK u : u = at[h].u
    OBVIOUS
<1>1. /\ Typed' /\ Placed'
      /\ at[h].pc \in {"clean", "rename"} /\ u \in Uploads /\ up[u] \in Session
      /\ up[u].next > 0 /\ sessions[IdFor(u)] # u
      /\ AtStep(h) /\ UpStep(u) /\ at'[h].pc = "idle" /\ at'[h].u = None
      /\ up'[u].pos = up[u].pos /\ up'[u].ino = up[u].ino /\ up'[u].err = up[u].err
      /\ up'[u].busy = up[u].busy /\ up'[u].next = up[u].next
      /\ up'[u].hashed = up[u].hashed /\ up'[u].off = up[u].off
      /\ part' = None
      /\ \/ final' = final
         \/ at[h].pc = "rename" /\ part # None /\ final' = part
      /\ sessions' = sessions /\ disk' = disk
      /\ dl' = dl
    BY <1>0, CleanOrRenameStep DEF Good
<1>2. /\ u \in Workers /\ Started(u) /\ Apart /\ Read /\ Sound(u) /\ Ready(h)
      /\ Busy(h) /\ Others /\ Typed
    BY <1>0, <1>1, Here DEF Busy
<1>3. /\ up'[u].append = up[u].append /\ up'[u].v = up[u].v
      /\ up'[u].link = up[u].link
    BY <1>1, <1>2 DEF UpStep
<1>4. Workers' \subseteq {u}
    BY <1>0, <1>1, <1>2, Narrow DEF InitPcs
<1>5. \A g \in Handlers \ {h} : ~Busy(g)
    BY <1>1, <1>2, Neighbours
<1>6. Apart' /\ Read'
    BY <1>1, <1>2 DEF Apart, Read
<1>7. u \in Workers' => Sound(u)'
    <2>1. CASE at[h].pc = "rename"
      <3>1. \A g \in Handlers : ~Busy(g)'
        BY <1>1, <1>5 DEF AtStep, Busy
      <3>2. \A id \in Ids : sessions'[id] # u
        BY <1>1, <1>2, Constants DEF Typed
      <3>3. up'[u].busy = NoChunk
        BY <1>0, <1>1, <1>2, <2>1 DEF Ready
      <3>4. ~AtWork(u)'
        BY <1>1, <1>2, <3>1, <3>2, <3>3, Constants DEF AtWork
      <3> QED
        BY <1>1, <3>4, WorkersAreNext
    <2>2. CASE at[h].pc # "rename"
      <3>1. Stalled(u) => Stalled(u)'
        BY <1>1 DEF Stalled, AtStep
      <3>2. Synced(u)'
        BY <1>1, <1>2, <1>3, <3>1 DEF Synced, Sound
      <3> QED
        BY <1>1, <1>2, <1>3, <2>2, <3>2 DEF Sound, IdFor
    <2> QED
      BY <2>1, <2>2
<1> QED
    BY <1>1, <1>2, <1>4, <1>5, <1>6, <1>7, Joined

\* The write under way is the chunk that the file lacks.
LEMMA DiskWriteClear ==
    ASSUME Good, raced' \in BOOLEAN, NEW u \in Uploads, DiskWrite(u)
    PROVE  Clear'
<1>1. /\ Typed' /\ Placed'
      /\ up[u] \in Session /\ up[u].next > 0 /\ Started(u)
      /\ up[u].busy # NoChunk /\ up[u].ino \in Uploads
      /\ UpStep(u) /\ at' = at
      /\ up'[u].ino = up[u].ino /\ up'[u].busy = NoChunk /\ up'[u].next = up[u].next
      /\ up'[u].hashed = up[u].hashed /\ up'[u].off = up[u].off
      /\ \/ /\ up'[u].pos = up[u].pos + 1 /\ up'[u].err = up[u].err
            /\ disk' = [disk EXCEPT ![up[u].ino] =
                         Written(disk[up[u].ino],
                                 IF up[u].append THEN Len(disk[up[u].ino])
                                 ELSE up[u].pos, up[u].busy)]
         \/ up'[u].pos = up[u].pos /\ up'[u].err /\ disk' = disk
      /\ sessions' = sessions /\ part' = part /\ final' = final
      /\ dl' = dl /\ swallowed' = swallowed
    BY DiskWriteStep DEF Good
<1>2. /\ AtWork(u) /\ u \in Workers /\ \A w \in Workers : w = u
      /\ Typed /\ Placed
    BY <1>1, WorkersAre DEF Good, AtWork, Solo
<1>3. /\ Sound(u) /\ Synced(u) /\ Apart /\ Read /\ Alone /\ Tied /\ Others
      /\ at \in [Handlers -> AtRec]
    BY <1>1, <1>2, Parts DEF Good, Clear, Sound
<1>4. /\ up'[u].append = up[u].append /\ up'[u].v = up[u].v
      /\ up'[u].link = up[u].link
    BY <1>1 DEF UpStep
<1>5. \A g \in Handlers : Busy(g) =>
        /\ at[g].u = u /\ at[g].pc \notin InitPcs /\ at[g].pc # "rename"
    <2> SUFFICES ASSUME NEW g \in Handlers, Busy(g)
                 PROVE  at[g].u = u /\ at[g].pc \notin InitPcs /\ at[g].pc # "rename"
      OBVIOUS
    <2>1. at[g].u = u
      BY <1>2, BusyWorks
    <2>2. at[g].pc \notin InitPcs
      BY <1>1, <1>2, <2>1 DEF Placed
    <2>3. at[g].pc # "rename"
      BY <1>1, <2>1 DEF Good, Clear, Ready
    <2> QED
      BY <2>1, <2>2, <2>3
<1>6. Workers' \subseteq {u}
    <2> SUFFICES ASSUME NEW w, AtWork(w)' PROVE w = u
      BY <1>1, WorkersAreNext
    <2>1. CASE \E h \in Handlers : Busy(h)' /\ at'[h].u = w
      BY <1>1, <1>5, <2>1 DEF Busy
    <2>2. CASE Started(w)' /\ up'[w].busy # NoChunk
      <3>1. w \in Uploads
        BY DEF AtWork
      <3>2. w # u => AtWork(w)
        BY <1>1, <2>2, <3>1 DEF UpStep, AtWork, Started
      <3> QED
        BY <1>2, <3>2, WorkersAre
    <2>3. ASSUME NEW id \in Ids, sessions'[id] = w,
                 \A g \in Handlers : at'[g].pc \in InitPcs => IdFor(at[g].u)' # id
          PROVE  w = u
      <3>1. AtWork(w)
        <4>1. w \in Uploads /\ sessions[id] = w
          BY <1>1, <2>3 DEF AtWork
        <4>2. \A g \in Handlers : at[g].pc \notin InitPcs
          BY <1>5 DEF Busy, InitPcs
        <4> QED
          BY <4>1, <4>2 DEF AtWork
      <3> QED
        BY <1>2, <3>1, WorkersAre
    <2> QED
      BY <1>1, <2>1, <2>2, <2>3 DEF AtWork
<1>7. disk'[dl.ino] = disk[dl.ino] \/ dl.pc # "send"
    BY <1>1, <1>3 DEF Sound, Others, Download
<1>8. Apart' /\ Read'
    <2>1. Apart'
      BY <1>1, <1>3 DEF Apart
    <2>2. Read'
      BY <1>1, <1>3, <1>7 DEF Read
    <2> QED
      BY <2>1, <2>2
<1>9. Sound(u)'
    <2> DEFINE s == up[u].hashed
               d == disk[up[u].ino]
    <2>1. /\ Len(s) = up[u].off /\ up[u].off > 0
          /\ d = SubSeq(s, 1, Len(s) - 1) /\ up[u].busy = s[Len(s)] /\ ~up[u].err
          /\ up[u].append \/ up[u].pos = Len(d)
          /\ s \in Seq(Chunk) /\ d \in Seq(Chunk) /\ up[u].busy \in Chunk
      BY <1>1, <1>3 DEF Synced, Stalled, Session, Others
    <2>2. d \in Seq(Chunk) /\ Len(d) = Len(s) - 1 /\ Append(d, up[u].busy) = s
      BY <2>1, LastChunk
    <2>3. Synced(u)'
      <3> DEFINE p == IF up[u].append THEN Len(d) ELSE up[u].pos
      <3>1. CASE /\ up'[u].pos = up[u].pos + 1 /\ up'[u].err = up[u].err
                 /\ disk' = [disk EXCEPT ![up[u].ino] = Written(d, p, up[u].busy)]
        <4>1. p = Len(d)
          BY <2>1
        <4>2. up[u].append \/ up'[u].pos = Len(d) + 1
          BY <2>1, <3>1
        <4> HIDE DEF d, s, p
        <4>3. disk'[up[u].ino] = Written(d, Len(d), up[u].busy)
          BY <1>1, <1>3, <3>1, <4>1 DEF Others
        <4>4. disk'[up[u].ino] = s
          BY <2>1, <2>2, <4>3, WrittenAtEnd
        <4>5. Len(s) \in Nat /\ Len(d) + 1 = Len(s)
          BY <2>1, <2>2
        <4>6. up'[u].hashed = s
          BY <1>1 DEF s
        <4> QED
          BY <1>1, <1>4, <2>1, <3>1, <4>2, <4>4, <4>5, <4>6 DEF Synced
      <3>2. CASE up'[u].pos = up[u].pos /\ up'[u].err /\ disk' = disk
        BY <1>1, <1>4, <2>1, <3>2 DEF Synced
      <3> QED
        BY <1>1, <3>1, <3>2
    <2> QED
      BY <1>1, <1>3, <1>4, <2>3 DEF Sound, IdFor
<1>10. Alone' /\ Tied'
    <2>1. Alone'
      BY <1>1, <1>3 DEF Alone, Beside, Busy
    <2>2. ASSUME NEW g \in Handlers PROVE Tie(g)'
      <3>1. Tie(g)
        BY <1>3 DEF Tied
      <3>2. CASE ~Busy(g)
        BY <1>1, <3>2 DEF Tie, Busy
      <3>3. CASE Busy(g)
        <4>1. at[g].u = u
          BY <1>5, <3>3
        <4> QED
          BY <1>1, <1>4, <3>1, <4>1 DEF Tie
      <3> QED
        BY <3>2, <3>3
    <2> QED
      BY <2>1, <2>2 DEF Tied
<1>11. \A g \in Handlers : Busy(g)' => Prepared(g)' /\ Ready(g)'
    BY <1>1, <1>5 DEF Busy, Prepared, Ready, InitPcs
<1> QED
    BY <1>6, <1>8, <1>9, <1>10, <1>11 DEF Clear

\* A step that moves no handler and no upload.
LEMMA StillClear ==
    ASSUME Good, Typed', Read', at' = at, up' = up, disk' = disk, part' = part,
           final' = final, dl'.ino \in {None, dl.ino, final},
           \A id \in Ids : sessions'[id] \in {None, sessions[id]}
    PROVE  Clear'
<1>1. Typed /\ Clear /\ Others
    BY Parts DEF Good
<1>2. ASSUME NEW w, AtWork(w)' PROVE w \in Workers
    <2>1. w \in Uploads /\ w # None
      BY <1>2, Constants DEF AtWork
    <2>2. IdFor(w)' = IdFor(w) /\ \A g \in Handlers : IdFor(at[g].u)' = IdFor(at[g].u)
      BY DEF IdFor
    <2>3. AtWork(w)
      BY <1>2, <2>1, <2>2 DEF AtWork, Busy, Started
    <2> QED
      BY <1>1, <2>3, WorkersAre
<1>3. ASSUME NEW w \in Workers PROVE Sound(w)'
    <2>1. Sound(w)
      BY <1>1 DEF Clear
    <2>2. AtWork(w) /\ w \in Uploads
      BY <1>1, WorkersAre DEF AtWork
    <2>3. Started(w)
      BY <1>1, <2>2, Constants DEF Typed, AtWork
    <2>4. Synced(w) => Synced(w)'
      BY DEF Synced, Stalled
    <2>5. up[w].next > 0 /\ sessions[IdFor(w)] # w => sessions'[IdFor(w)] # w
      <3>1. up[w].next > 0 => IdFor(w) \in Ids
        BY <1>1, <2>2, <2>3, Constants DEF IdFor, Typed, TypeOK, Session
      <3> QED
        BY <2>2, <3>1, Constants
    <2> QED
      BY <2>1, <2>4, <2>5 DEF Sound, IdFor
<1>4. \A w \in Workers' : Sound(w)'
    BY <1>2, <1>3, WorkersAreNext
<1>5. Alone' /\ Tied'
    BY <1>1 DEF Clear, Alone, Tied, Tie, Beside, Busy
<1>6. Apart'
    BY <1>1 DEF Clear, Apart
<1>7. \A h \in Handlers : Busy(h)' => Prepared(h)' /\ Ready(h)'
    BY <1>1 DEF Clear, Busy, Prepared, Ready
<1> QED
    BY <1>4, <1>5, <1>6, <1>7 DEF Clear

LEMMA OutsideClear ==
    ASSUME Good, raced' \in BOOLEAN,
           \/ \E l \in Links : LinkDown(l) \/ Sweep(l)
           \/ \E l \in Links, id \in Ids, r \in Downloads : DownloadInit(l, id, r)
           \/ DownloadHash \/ DownloadSend \/ DownloadEnd
           \/ UNCHANGED vars
    PROVE  Clear'
<1>1. /\ Typed' /\ at' = at /\ up' = up /\ disk' = disk /\ part' = part /\ final' = final
      /\ dl'.ino \in {None, dl.ino, final}
      /\ \A id \in Ids : sessions'[id] \in {None, sessions[id]}
    BY OutsideStep DEF Good
<1>2. dl \in Download /\ disk \in [Uploads -> Seq(Chunk)] /\ Read
      /\ (dl.pc = "send" => dl.ino \in Uploads)
    BY Parts DEF Good, Clear, Others, Download
<1>3. Read'
    <2>1. CASE dl' = dl
      BY <1>1, <1>2, <2>1 DEF Read
    <2>2. CASE Begun
      BY <1>2, <2>2 DEF Begun, Read
    <2>3. CASE Summed
      <3>1. dl'.sent = <<>> /\ Len(dl'.sent) = 0
        BY <1>2, <2>3 DEF Read, Summed
      <3> QED
        BY <1>1, <1>2, <2>3, <3>1 DEF Read, Summed
    <2>4. CASE Sent
      <3> DEFINE d == disk[dl.ino]
                 p == dl.at + Len(dl.sent) + 1
                 t == Append(dl.sent, d[p])
      <3>1. /\ dl.pc = "send" /\ dl.sum = d /\ d \in Seq(Chunk) /\ dl.sent \in Seq(Chunk)
            /\ dl.at \in Nat /\ Len(dl.sent) \in Nat /\ Len(d) \in Nat /\ p <= Len(d)
            /\ \A i \in 1 .. Len(dl.sent) : dl.sent[i] = d[dl.at + i]
        BY <1>2, <2>4 DEF Sent, Unsent, Download, Read
      <3>2. /\ dl'.pc = "send" /\ dl'.sent = t /\ dl'.sum = d /\ dl'.at = dl.at
            /\ dl'.ino = dl.ino /\ ~dl'.cut
        BY <1>2, <2>4, <3>1 DEF Sent, Read
      <3>3. d[p] \in Chunk
        BY <3>1
      <3>4. /\ Len(t) = Len(dl.sent) + 1
            /\ t[Len(dl.sent) + 1] = d[p]
            /\ \A i \in 1 .. Len(dl.sent) : t[i] = dl.sent[i]
        BY <3>1, <3>3, AppendProperties
      <3>5. disk'[dl'.ino] = d
        BY <1>1, <3>2
      <3> HIDE DEF d, t
      <3>6. \A i \in 1 .. Len(t) : t[i] = d[dl.at + i]
        <4> SUFFICES ASSUME NEW i \in 1 .. Len(t) PROVE t[i] = d[dl.at + i]
          OBVIOUS
        <4>1. CASE i = Len(dl.sent) + 1
          <5>1. dl.at + i = p
            BY <3>1, <4>1
          <5> QED
            BY <3>4, <4>1, <5>1
        <4>2. CASE i # Len(dl.sent) + 1
          <5>1. i \in 1 .. Len(dl.sent)
            BY <3>1, <3>4, <4>2
          <5> QED
            BY <3>1, <3>4, <5>1
        <4> QED
          BY <4>1, <4>2
      <3>7. dl.at + Len(t) <= Len(d)
        BY <3>1, <3>4
      <3> QED
        BY <3>2, <3>5, <3>6, <3>7 DEF Read
    <2>5. CASE Left
      <3>1. /\ dl.pc = "send" /\ dl.sum = disk[dl.ino] /\ ~dl.cut
            /\ dl.at \in Nat /\ Len(dl.sent) \in Nat /\ Len(dl.sum) \in Nat
        BY <1>2, <2>5 DEF Left, Download, Read
      <3>2. \/ dl.at + Len(dl.sent) < Len(dl.sum) /\ dl'.cut
            \/ ~(dl.at + Len(dl.sent) < Len(dl.sum)) /\ ~dl'.cut
        BY <2>5, <3>1 DEF Left, Unsent
      <3> QED
        BY <1>2, <2>5, <3>1, <3>2 DEF Left, Read
    <2>6. CASE Announced
      BY <1>2, <2>6 DEF Announced, Read
    <2>7. CASE Stopped
      BY <2>7 DEF Stopped, Read
    <2>8. dl' = dl \/ Begun \/ Summed \/ Sent \/ Left \/ Announced \/ Stopped
      <3>1. CASE \/ \E l \in Links, id \in Ids, r \in Downloads : DownloadInit(l, id, r)
                 \/ DownloadHash \/ DownloadSend \/ DownloadEnd
        BY <3>1, DownloadStep, Parts DEF Good
      <3> QED
        BY <3>1 DEF LinkDown, Sweep, vars
    <2> QED
      BY <2>1, <2>2, <2>3, <2>4, <2>5, <2>6, <2>7, <2>8
<1> QED
    BY <1>1, <1>3, StillClear

\* An init begins when nothing else is at work, or else two uploads have overlapped.
LEMMA InitStatClear ==
    ASSUME Good, raced' \in BOOLEAN, Solo', ~raced',
           NEW l \in Links, NEW u \in Uploads, NEW v \in Versions, NEW r \in Resumes,
           InitStat(l, u, v, r)
    PROVE  Clear'
<1> DEFINE h == <<l, "cmd">>
<1>1. /\ Typed' /\ Placed'
      /\ h \in Handlers /\ at[h].pc = "idle" /\ ~Started(u) /\ AtStep(h) /\ UpStep(u)
      /\ at'[h].pc = "open" /\ at'[h].u = u
      /\ up'[u].ino = None /\ up'[u].pos = 0 /\ up'[u].hashed = <<>>
      /\ up'[u].busy = NoChunk /\ ~up'[u].err /\ up'[u].next = 0
      /\ up'[u].append <=> Resumable(r)
      /\ up'[u].off = IF Resumable(r) THEN r ELSE 0
      /\ sessions' = sessions /\ disk' = disk /\ part' = part /\ final' = final
      /\ dl' = dl
    BY InitStatStep DEF Good
<1> HIDE DEF h
<1>2. \A w : AtWork(w)' => w = u
    <2>1. AtWork(u)'
      BY <1>1 DEF AtWork, Busy
    <2> QED
      BY <1>1, <2>1, WorkersAreNext DEF Solo
<1>3. Workers' \subseteq {u}
    BY <1>1, <1>2, WorkersAreNext
<1>4. \A g \in Handlers \ {h} : ~Busy(g)
    <2> SUFFICES ASSUME NEW g \in Handlers, g # h, Busy(g) PROVE FALSE
      OBVIOUS
    <2>1. at[g].u \in Uploads /\ Started(at[g].u) /\ at'[g] = at[g]
      BY <1>1 DEF Good, Typed, AtStep
    <2>2. PICK x : x = at[g].u
      OBVIOUS
    <2>3. AtWork(x)'
      BY <2>1, <2>2 DEF AtWork, Busy
    <2> QED
      BY <1>1, <1>2, <2>1, <2>2, <2>3
<1>5. Prepared(h)' /\ Tie(h)' /\ Ready(h)'
    BY <1>1 DEF Prepared, InitPcs, Tie, Ready, Resumable
<1>6. Apart' /\ Read'
    BY <1>1 DEF Good, Clear, Apart, Read
<1>7. Sound(u)'
    BY <1>1 DEF Sound
<1> QED
    BY <1>1, <1>3, <1>4, <1>5, <1>6, <1>7, Joined

\* A cancel takes the one upload at work.
LEMMA CancelTakeClear ==
    ASSUME Good, raced' \in BOOLEAN, Solo', ~raced',
           NEW l \in Links, NEW id \in Ids, CancelTake(l, id)
    PROVE  Clear'
<1> DEFINE h == <<l, "cmd">>
<1>0. PICK u : u = sessions[id]
    OBVIOUS
<1>1. /\ Typed' /\ Placed'
      /\ h \in Handlers /\ at[h].pc = "idle" /\ up' = up
      /\ \/ u = None /\ at' = at /\ sessions' = sessions
         \/ /\ u \in Uploads /\ Started(u) /\ AtStep(h)
            /\ at'[h].pc = "cancel" /\ at'[h].u = u
            /\ IdFor(u) = id /\ sessions' = [sessions EXCEPT ![id] = None]
      /\ disk' = disk /\ part' = part /\ final' = final
      /\ dl'.pc = dl.pc /\ dl'.ino = dl.ino /\ dl'.at = dl.at
      /\ dl'.sum = dl.sum /\ dl'.sent = dl.sent /\ dl'.cut = dl.cut
    BY <1>0, CancelTakeStep DEF Good
<1> HIDE DEF h
<1>2. Typed /\ Placed /\ Others /\ Apart' /\ Read'
      /\ at \in [Handlers -> AtRec] /\ up \in [Uploads -> Session \cup {Unused}]
      /\ \A w \in Uploads : Started(w) => up[w] \in Session
    BY <1>1, Parts DEF Good, Clear, Apart, Read
<1>3. CASE u = None
    <2>1. at' = at /\ sessions' = sessions
      BY <1>1, <1>3, Constants
    <2> QED
      BY <1>1, <1>2, <2>1, StillClear
<1>4. CASE u # None
    <2>1. /\ u \in Uploads /\ Started(u) /\ AtStep(h)
          /\ at'[h].pc = "cancel" /\ at'[h].u = u
          /\ IdFor(u) = id /\ sessions' = [sessions EXCEPT ![id] = None]
      BY <1>1, <1>4
    <2>2. \A w : AtWork(w)' => w = u
      <3>1. AtWork(u)'
        BY <1>1, <2>1 DEF AtWork, Busy
      <3> QED
        BY <1>1, <3>1, WorkersAreNext DEF Solo
    <2>3. Workers' \subseteq {u}
      BY <1>1, <2>2, WorkersAreNext
    <2>4. ASSUME NEW g \in Handlers, g # h, Busy(g)
          PROVE  at[g].u = u /\ at[g].pc \in {"write", "flush", "take"}
      <3>1. at[g].u \in Uploads /\ Started(at[g].u) /\ at'[g] = at[g]
        BY <1>2, <2>1, <2>4 DEF Typed, AtStep
      <3>2. PICK x : x = at[g].u
        OBVIOUS
      <3>3. AtWork(x)'
        BY <2>4, <3>1, <3>2 DEF AtWork, Busy
      <3>4. at[g].u = u
        BY <2>2, <3>2, <3>3
      <3>5. up[u].next > 0
        BY <1>0, <1>2, <1>4 DEF Placed
      <3>6. at[g].pc \notin InitPcs /\ at[g].pc \notin Takers
        BY <1>0, <1>2, <2>1, <2>4, <3>4, <3>5 DEF Placed
      <3>7. at[g].pc \in Pcs
        BY <1>2 DEF AtRec
      <3> QED
        BY <2>4, <3>4, <3>6, <3>7 DEF Pcs, InitPcs, Takers, Busy
    <2>5. u \in Workers
      <3>1. ASSUME NEW g \in Handlers, at[g].pc \in InitPcs PROVE FALSE
        BY <1>1, <2>4, <3>1 DEF Busy, InitPcs
      <3>2. AtWork(u)
        BY <1>0, <2>1, <3>1 DEF AtWork
      <3> QED
        BY <1>2, <3>2, WorkersAre
    <2>6. Sound(u)
      BY <2>5 DEF Good, Clear
    <2>7. UpStep(u)
      BY <1>1, <1>2, <2>1 DEF UpStep
    <2>8. Sound(u)'
      <3>1. Synced(u) => Synced(u)'
        BY <1>1, <2>1 DEF Synced, Stalled, AtStep
      <3>2. sessions'[IdFor(u)] # u
        BY <1>2, <1>4, <2>1 DEF Others
      <3> QED
        BY <1>1, <2>6, <3>1, <3>2 DEF Sound, IdFor
    <2>9. Prepared(h)' /\ Tie(h)' /\ Ready(h)'
      BY <2>1 DEF Prepared, InitPcs, Tie, Ready
    <2> QED
      BY <1>1, <1>2, <2>1, <2>3, <2>4, <2>7, <2>8, <2>9, Joined
<1> QED
    BY <1>3, <1>4

\* A chunk meets its own upload or none.
LEMMA LookupClear ==
    ASSUME Good, raced' \in BOOLEAN, Solo', ~raced', ~Astray,
           NEW l \in Links, NEW u \in Uploads, Started(u), Lookup(l, u)
    PROVE  Clear'
<1> DEFINE h == <<l, "fs">>
<1>0. PICK o : o = sessions[IdFor(u)]
    OBVIOUS
<1>1. /\ Typed' /\ Placed'
      /\ h \in Handlers /\ at[h].pc = "idle" /\ up[u] \in Session
      /\ up[u].link = l /\ up[u].next \in 1 .. N
      /\ AtStep(h) /\ UpStep(u)
      /\ up'[u].pos = up[u].pos /\ up'[u].ino = up[u].ino
      /\ up'[u].busy = up[u].busy /\ up'[u].err = up[u].err
      /\ up'[u].hashed = up[u].hashed /\ up'[u].off = up[u].off
      /\ up'[u].next = up[u].next + 1
      /\ \/ o = None /\ at' = at
         \/ /\ o \in Uploads /\ Started(o) /\ IdFor(o) = IdFor(u)
            /\ at'[h].pc = "write" /\ at'[h].u = o
            /\ at'[h].k = <<up[u].v, up[u].next>>
      /\ IdFor(u) \in Ids
      /\ sessions' = sessions /\ disk' = disk /\ part' = part /\ final' = final
      /\ dl' = dl
    BY <1>0, LookupStep DEF Good
<1>2. /\ Typed /\ Placed /\ Others /\ Apart' /\ Read'
      /\ at \in [Handlers -> AtRec] /\ up \in [Uploads -> Session \cup {Unused}]
      /\ up'[u].v = up[u].v /\ up'[u].link = up[u].link /\ up'[u].append = up[u].append
    BY <1>1, Parts DEF Good, Clear, Apart, Read, UpStep
<1>3. up[u].next > 0 /\ up'[u].next # up[u].next /\ up'[u].next > 0 /\ up[u].next # N + 1
      /\ up[u].next \in Nat
    BY <1>1, Constants
<1>4. o \in {u, None}
    BY <1>0, <1>3 DEF Astray
<1>5. Sound(u) => Sound(u)'
    <2>1. ASSUME Stalled(u) PROVE Stalled(u)'
      <3>1. up'[u].next > up'[u].off + 1
        BY <1>1, <1>3, <2>1 DEF Stalled, Session
      <3>2. ASSUME NEW g \in Handlers, at'[g].pc = "write", at'[g].u = u
            PROVE  at'[g].k[2] > up'[u].off + 1
        <4>1. CASE at'[g] = at[g]
          BY <1>1, <2>1, <3>2, <4>1 DEF Stalled
        <4>2. CASE at'[g] # at[g]
          <5>1. g = h /\ at'[g].k = <<up[u].v, up[u].next>>
            BY <1>1, <4>2 DEF AtStep
          <5> QED
            BY <1>1, <2>1, <5>1 DEF Stalled
        <4> QED
          BY <4>1, <4>2
      <3> QED
        BY <1>1, <2>1, <3>1, <3>2 DEF Stalled
    <2>2. Synced(u) => Synced(u)'
      BY <1>1, <1>2, <2>1 DEF Synced
    <2> QED
      BY <1>1, <1>2, <1>3, <2>2 DEF Sound, IdFor
<1>6. CASE o = None
    <2>1. at' = at
      BY <1>1, <1>6, Constants
    <2>2. ASSUME NEW w, AtWork(w)' PROVE w \in Workers
      <3>1. w \in Uploads /\ up'[w].busy = up[w].busy /\ (Started(w)' => Started(w))
        BY <1>1, <2>2 DEF AtWork, UpStep, Started
      <3>2. \A g \in Handlers : at[g].pc \in InitPcs => IdFor(at[g].u)' = IdFor(at[g].u)
        <4> SUFFICES ASSUME NEW g \in Handlers, at[g].pc \in InitPcs
                     PROVE  IdFor(at[g].u)' = IdFor(at[g].u)
          OBVIOUS
        <4>1. PICK x : x = at[g].u
          OBVIOUS
        <4>2. x \in Uploads
          BY <1>2, <4>1 DEF Typed, Busy, InitPcs
        <4>3. up'[x].v = up[x].v
          BY <1>1, <1>2, <4>2 DEF UpStep
        <4> QED
          BY <2>1, <4>1, <4>3 DEF IdFor
      <3>3. AtWork(w)
        BY <1>1, <2>1, <2>2, <3>1, <3>2 DEF AtWork, Busy
      <3> QED
        BY <1>2, <3>3, WorkersAre
    <2>3. ASSUME NEW w \in Workers PROVE Sound(w)'
      <3>1. Sound(w) /\ w \in Uploads
        BY <1>2, WorkersAre DEF Good, Clear, AtWork
      <3>2. CASE w = u
        BY <1>5, <3>1, <3>2
      <3>3. CASE w # u
        <4>1. up'[w] = up[w]
          BY <1>1, <3>1, <3>3 DEF UpStep
        <4>2. Synced(w) => Synced(w)'
          BY <1>1, <2>1, <4>1 DEF Synced, Stalled
        <4> QED
          BY <1>1, <3>1, <4>1, <4>2 DEF Sound, IdFor
      <3> QED
        BY <3>2, <3>3
    <2>4. \A w \in Workers' : Sound(w)'
      BY <1>1, <2>2, <2>3, WorkersAreNext
    <2>5. Alone'
      BY <2>1 DEF Good, Clear, Alone, Beside, Busy
    <2>6. ASSUME NEW g \in Handlers
          PROVE  Tie(g)' /\ (Busy(g)' => Prepared(g)' /\ Ready(g)')
      <3>1. Tie(g) /\ (Busy(g) => Prepared(g) /\ Ready(g))
        BY DEF Good, Clear, Tied
      <3>2. PICK x : x = at[g].u
        OBVIOUS
      <3>3. CASE ~Busy(g)
        BY <2>1, <3>3 DEF Busy, Tie
      <3>4. CASE Busy(g) /\ x # u
        <4>1. up'[x] = up[x]
          BY <1>1, <1>2, <3>2, <3>4 DEF UpStep, Typed
        <4> QED
          BY <1>1, <2>1, <3>1, <3>2, <3>4, <4>1 DEF Tie, Prepared, Ready, Busy
      <3>5. CASE Busy(g) /\ x = u
        <4>0. at[g].u = u /\ Busy(g) /\ Placed
          BY <1>2, <3>2, <3>5
        <4>1. at[g].pc \notin InitPcs
          BY <1>3, <4>0 DEF Placed
        <4>2. Prepared(g)'
          BY <2>1, <4>1 DEF Prepared, InitPcs
        <4>3. Ready(g)'
          BY <1>1, <1>2, <2>1, <3>1, <3>2, <3>5 DEF Ready
        <4>4. Tie(g)'
          <5>1. at[g].pc = "write" => at[g].k[2] < up'[u].next
            <6>1. at[g].pc = "write" => at[g].k \in Versions \X (1 .. N)
              BY <1>2 DEF Typed
            <6>2. at[g].pc = "write" => at[g].k[2] < up[u].next /\ at[g].k[2] \in Nat
              BY <3>1, <3>2, <3>5, <6>1, Constants DEF Tie
            <6> QED
              BY <1>1, <1>3, <6>2
          <5> QED
            BY <1>2, <1>3, <2>1, <3>1, <3>2, <3>5, <5>1 DEF Tie
        <4> QED
          BY <4>2, <4>3, <4>4
      <3> QED
        BY <3>3, <3>4, <3>5
    <2> QED
      BY <1>2, <2>4, <2>5, <2>6 DEF Clear, Tied
<1>7. CASE o = u
    <2> HIDE DEF h
    <2>1. /\ at'[h].pc = "write" /\ at'[h].u = u /\ at'[h].k = <<up[u].v, up[u].next>>
          /\ sessions[IdFor(u)] = u
      BY <1>0, <1>1, <1>7, Constants
    <2>2. \A w : AtWork(w)' => w = u
      <3>1. AtWork(u)'
        BY <1>1, <2>1 DEF AtWork, Busy
      <3> QED
        BY <1>1, <3>1, WorkersAreNext DEF Solo
    <2>3. Workers' \subseteq {u}
      BY <1>1, <2>2, WorkersAreNext
    <2>4. ASSUME NEW g \in Handlers, g # h, Busy(g)
          PROVE  FALSE
      <3>1. at[g].u \in Uploads /\ Started(at[g].u) /\ at'[g] = at[g]
        BY <1>1, <1>2, <2>4 DEF Typed, AtStep
      <3>2. PICK x : x = at[g].u
        OBVIOUS
      <3>3. AtWork(x)'
        BY <2>4, <3>1, <3>2 DEF AtWork, Busy
      <3>4. at[g].u = u
        BY <2>2, <3>2, <3>3
      <3>5. at[g].pc \notin InitPcs /\ at[g].pc \notin Takers
        BY <1>2, <1>3, <2>1, <2>4, <3>4 DEF Placed
      <3>6. at[g].pc \in {"write", "flush", "take"}
        <4>1. at[g].pc \in Pcs
          BY <1>2 DEF AtRec
        <4> QED
          BY <2>4, <3>5, <4>1 DEF Pcs, InitPcs, Takers, Busy
      <3>7. g = <<up[u].link, "fs">>
        BY <1>3, <3>4, <3>6 DEF Good, Clear, Tied, Tie
      <3> QED
        BY <1>1, <2>4, <3>7 DEF h
    <2>5. u \in Workers
      <3>1. ASSUME NEW g \in Handlers, at[g].pc \in InitPcs PROVE FALSE
        BY <1>1, <2>4, <3>1 DEF Busy, InitPcs
      <3>2. AtWork(u)
        BY <1>1, <2>1, <3>1 DEF AtWork
      <3> QED
        BY <1>2, <3>2, WorkersAre
    <2>6. Sound(u)'
      BY <1>5, <2>5 DEF Good, Clear
    <2>7. Prepared(h)' /\ Ready(h)'
      BY <2>1 DEF Prepared, InitPcs, Ready
    <2>8. Tie(h)'
      <3>1. h = <<up'[u].link, "fs">> /\ at'[h].k[2] < up'[u].next
        BY <1>1, <1>2, <1>3, <2>1 DEF h
      <3> QED
        BY <2>1, <3>1 DEF Tie
    <2> QED
      BY <1>1, <1>2, <2>3, <2>4, <2>6, <2>7, <2>8, Joined
<1> QED
    BY <1>4, <1>6, <1>7

-----------------------------------------------------------------------------
(* The invariant *)

\* A failure that nobody reported stays on record.
LEMMA MarksStay ==
    ASSUME Typed, [Next]_vars PROVE swallowed \subseteq swallowed'
<1>1. ASSUME NEW l \in Links, NEW u \in Uploads, NEW v \in Versions, NEW r \in Resumes,
             InitStat(l, u, v, r)
      PROVE  swallowed \subseteq swallowed'
    BY <1>1 DEF InitStat, marks
<1>2. ASSUME NEW l \in Links, Open(l) \/ Hash(l) \/ Insert(l)
      PROVE  swallowed \subseteq swallowed'
    BY <1>2 DEF Open, Hash, Insert, marks
<1>3. ASSUME NEW l \in Links, NEW id \in Ids, CancelTake(l, id)
      PROVE  swallowed \subseteq swallowed'
    BY <1>3 DEF CancelTake, marks
<1>4. ASSUME NEW l \in Links, NEW u \in Uploads, Lookup(l, u)
      PROVE  swallowed \subseteq swallowed'
    BY <1>4 DEF Lookup, marks
<1>5. ASSUME NEW l \in Links, CancelUnlink(l) \/ Skip(l) \/ Write(l) \/ Flush(l)
      PROVE  swallowed \subseteq swallowed'
    BY <1>5 DEF CancelUnlink, Skip, Write, Flush, marks
<1>6. ASSUME NEW h \in Handlers, Take(h) \/ Check(h) \/ Clean(h) \/ Rename(h)
      PROVE  swallowed \subseteq swallowed'
    BY <1>6 DEF Take, Check, Clean, Rename, marks
<1>7. ASSUME NEW u \in Uploads, DiskWrite(u)
      PROVE  swallowed \subseteq swallowed'
    BY <1>7 DEF DiskWrite, marks
<1>8. CASE \/ \E l \in Links : LinkDown(l) \/ Sweep(l)
           \/ \E l \in Links, id \in Ids, r \in Downloads : DownloadInit(l, id, r)
           \/ DownloadHash \/ DownloadSend \/ DownloadEnd
           \/ UNCHANGED vars
    BY <1>8 DEF LinkDown, Sweep, DownloadInit, DownloadHash, DownloadSend, DownloadEnd, marks, vars
<1> QED
    BY <1>1, <1>2, <1>3, <1>4, <1>5, <1>6, <1>7, <1>8, Cases

LEMMA ClearStep ==
    ASSUME Good, Solo', ~raced', swallowed' = {}, [Next]_vars PROVE Clear'
<1>0. raced' \in BOOLEAN /\ Typed
    BY Cases DEF Good
<1>1. ASSUME NEW l \in Links, NEW u \in Uploads, NEW v \in Versions, NEW r \in Resumes,
             InitStat(l, u, v, r)
      PROVE  Clear'
    BY <1>0, <1>1, InitStatClear
<1>2. ASSUME NEW l \in Links, Open(l) PROVE Clear'
    BY <1>0, <1>2, OpenClear
<1>3. ASSUME NEW l \in Links, Hash(l) PROVE Clear'
    BY <1>0, <1>3, HashClear
<1>4. ASSUME NEW l \in Links, Insert(l) PROVE Clear'
    BY <1>0, <1>4, InsertClear
<1>5. ASSUME NEW l \in Links, NEW id \in Ids, CancelTake(l, id) PROVE Clear'
    BY <1>0, <1>5, CancelTakeClear
<1>6. ASSUME NEW l \in Links, CancelUnlink(l) PROVE Clear'
    BY <1>0, <1>6, CancelUnlinkClear
<1>7. ASSUME NEW l \in Links, NEW u \in Uploads, Started(u), Lookup(l, u) PROVE Clear'
    <2>1. CASE UNCHANGED vars
      BY <1>0, <2>1, OutsideClear
    <2>2. CASE Next
      <3>1. ~Astray
        <4>1. Typed'
          BY BaseInduction DEF Good
        <4> QED
          BY <2>2, <4>1, SoloStep DEF Good
      <3> QED
        BY <1>0, <1>7, <3>1, LookupClear
    <2> QED
      BY <2>1, <2>2
<1>8. ASSUME NEW l \in Links, Skip(l) PROVE Clear'
    BY <1>0, <1>8, SkipClear
<1>9. ASSUME NEW l \in Links, Write(l) PROVE Clear'
    BY <1>0, <1>9, WriteClear
<1>10. ASSUME NEW l \in Links, Flush(l) PROVE Clear'
    BY <1>0, <1>10, FlushClear
<1>11. ASSUME NEW h \in Handlers, Take(h) PROVE Clear'
    BY <1>0, <1>11, TakeClear
<1>12. ASSUME NEW h \in Handlers, Check(h) PROVE Clear'
    BY <1>0, <1>12, CheckClear
<1>13. ASSUME NEW h \in Handlers, Clean(h) \/ Rename(h) PROVE Clear'
    BY <1>0, <1>13, CleanOrRenameClear
<1>14. ASSUME NEW u \in Uploads, DiskWrite(u) PROVE Clear'
    BY <1>0, <1>14, DiskWriteClear
<1>15. CASE \/ \E l \in Links : LinkDown(l) \/ Sweep(l)
            \/ \E l \in Links, id \in Ids, r \in Downloads : DownloadInit(l, id, r)
            \/ DownloadHash \/ DownloadSend \/ DownloadEnd
            \/ UNCHANGED vars
    BY <1>0, <1>15, OutsideClear
<1> QED
    BY <1>0, <1>1, <1>2, <1>3, <1>4, <1>5, <1>6, <1>7, <1>8, <1>9, <1>10, <1>11, <1>12,
       <1>13, <1>14, <1>15, Cases

LEMMA InitHolds == Init => IInv
<1> SUFFICES ASSUME Init PROVE IInv
    OBVIOUS
<1>1. Typed /\ Placed
    BY BaseInit
<1>2. /\ \A h \in Handlers : ~Busy(h)
      /\ \A u \in Uploads : ~Started(u)
      /\ \A id \in Ids : sessions[id] = None
      /\ part = None /\ dl.pc = "none" /\ dl.sent = <<>> /\ ~dl.cut
    BY NoDownloadType DEF Init, Idle, Busy, Started
<1>3. \A u : u \notin Workers
    BY <1>1, <1>2, Constants, WorkersAre DEF AtWork
<1>4. Alone /\ Apart /\ Read
    BY <1>2 DEF Alone, Apart, Read
<1>5. Tied
    BY <1>2 DEF Tied, Tie, Busy
<1> QED
    BY <1>1, <1>2, <1>3, <1>4, <1>5 DEF IInv, Solo, Clear

LEMMA StepHolds == IInv /\ [Next]_vars => IInv'
<1> SUFFICES ASSUME IInv, [Next]_vars PROVE IInv'
    OBVIOUS
<1>1. Typed' /\ Placed'
    BY BaseInduction DEF IInv
<1>2. Solo' /\ (~raced' => ~raced)
    BY <1>1, SoloStep DEF IInv
<1>3. ASSUME ~Clouded' PROVE Clear'
    <2>1. ~raced' /\ swallowed' = {}
      BY <1>3 DEF Clouded
    <2>2. ~Clouded
      BY <1>2, <2>1, MarksStay DEF IInv, Clouded
    <2>3. Good
      BY <1>2, <2>1, <2>2 DEF IInv, Good
    <2> QED
      BY <1>2, <2>1, <2>3, ClearStep
<1> QED
    BY <1>1, <1>2, <1>3 DEF IInv

LEMMA Invariance == Spec => []IInv
BY InitHolds, StepHolds, PTL DEF Spec

\* The .part path names the open file of the registered upload, which holds what its
\* hasher has read but for one write that is under way, was reported or will be: the
\* hash of the bytes received vouches for the bytes of the file.
THEOREM HashVouchesForPartial == Spec => []PartialIsHashed
<1>1. IInv => PartialIsHashed
    <2> SUFFICES ASSUME IInv, NEW id \in Ids, sessions[id] # None, Opening = {}, ~Clouded
                 PROVE  LET s == up[sessions[id]] IN
                        /\ s.ino = part
                        /\ \/ disk[part] = s.hashed /\ s.busy = NoChunk
                           \/ /\ disk[part] = SubSeq(s.hashed, 1, s.off - 1)
                              /\ s.busy # NoChunk \/ s.err \/ s.next > s.off + 1
      BY DEF PartialIsHashed
    <2>0. PICK u : u = sessions[id]
      OBVIOUS
    <2>1. /\ u \in Uploads /\ Started(u) /\ IdFor(u) = id /\ up[u].next > 0
          /\ up[u] \in Session /\ Typed /\ Clear
      BY <2>0 DEF IInv, Typed, TypeOK, Placed
    <2>2. u \in Workers
      <3>1. \A g \in Handlers : at[g].pc \notin InitPcs
        BY DEF Opening
      <3>2. AtWork(u)
        BY <2>0, <2>1, <3>1 DEF AtWork
      <3> QED
        BY <2>1, <3>2, WorkersAre
    <2>3. up[u].ino = part /\ Synced(u)
      BY <2>0, <2>1, <2>2 DEF Clear, Sound
    <2>4. up[u].off > 0 /\ up[u].busy = up[u].hashed[up[u].off] => up[u].busy # NoChunk
      BY <2>1, <2>3, Constants DEF Session, Synced
    <2> QED
      BY <2>0, <2>3, <2>4 DEF Synced, Stalled
<1> QED
    BY <1>1, Invariance, PTL

\* The hash that a download announces is that of the bytes it sent: it opens the file
\* once and reads it twice, and no upload writes it while uploads keep apart.  After a
\* send that failed, and only then, chunks are missing at the end: the client's file
\* is a proper part of what the hash is of, and the comparison refuses it.
THEOREM DownloadsAreWhole == Spec => []DownloadConsistent
<1>1. IInv => DownloadConsistent
    <2> SUFFICES ASSUME IInv, dl.pc = "ended", ~Clouded
                 PROVE  /\ dl.sent = SubSeq(dl.sum, dl.at + 1, dl.at + Len(dl.sent))
                        /\ dl.cut <=> dl.at + Len(dl.sent) < Len(dl.sum)
      BY DEF DownloadConsistent
    <2>1. PICK a \in Nat : a = dl.at
      BY DEF IInv, Typed, TypeOK, Download
    <2>2. PICK n \in Nat : n = Len(dl.sent)
      BY DEF IInv, Typed, TypeOK, Download
    <2> DEFINE t == SubSeq(dl.sum, a + 1, a + n)
    <2>3. dl.sum \in Seq(Chunk) /\ dl.sent \in Seq(Chunk) /\ Len(dl.sum) \in Nat
      BY DEF IInv, Typed, TypeOK, Download
    <2>4. /\ \A i \in 1 .. n : dl.sent[i] = dl.sum[a + i]
          /\ dl.sent = <<>> \/ a + n <= Len(dl.sum)
          /\ dl.cut <=> a + n < Len(dl.sum)
      BY <2>1, <2>2 DEF IInv, Clear, Read
    <2>5. n > 0 => a + n <= Len(dl.sum)
      <3>1. dl.sent = <<>> => n = 0
        BY <2>2
      <3> QED
        BY <2>4, <3>1
    <2>6. t \in Seq(Chunk) /\ Len(t) = n /\ \A i \in 1 .. n : t[i] = dl.sum[a + i]
      <3>1. PICK m \in Int : m = a + 1
        OBVIOUS
      <3>2. PICK e \in Int : e = a + n
        OBVIOUS
      <3>3. \A i \in m .. e : dl.sum[i] \in Chunk
        BY <2>3, <2>5, <3>1, <3>2
      <3>4. /\ SubSeq(dl.sum, m, e) \in Seq(Chunk)
            /\ Len(SubSeq(dl.sum, m, e)) = IF m <= e THEN e - m + 1 ELSE 0
            /\ \A i \in 1 .. e - m + 1 : SubSeq(dl.sum, m, e)[i] = dl.sum[m + i - 1]
        BY <3>3, SubSeqProperties
      <3>5. t = SubSeq(dl.sum, m, e)
        BY <3>1, <3>2
      <3> HIDE DEF t
      <3>6. e - m + 1 = n /\ (IF m <= e THEN n ELSE 0) = n /\ \A i \in Int : m + i - 1 = a + i
        BY <3>1, <3>2
      <3> QED
        BY <3>4, <3>5, <3>6
    <2> HIDE DEF t
    <2>7. t = dl.sent
      BY <2>2, <2>3, <2>4, <2>6, SeqEqual
    <2> QED
      BY <2>1, <2>2, <2>4, <2>7 DEF t
<1> QED
    BY <1>1, Invariance, PTL

-----------------------------------------------------------------------------
(* The transfers implement FileCopy *)

\* A handler has the upload, or it is registered.
Occupied(u) ==
    /\ u \in Uploads
    /\ \/ \E h \in Handlers : Busy(h) /\ at[h].u = u
       \/ \E id \in Ids : sessions[id] = u
Offers == {up[u].v : u \in Working}

LEMMA WorkingAre == Typed => \A u : u \in Working <=> Occupied(u)
<1> SUFFICES ASSUME Typed, NEW u PROVE u \in Working <=> Occupied(u)
    OBVIOUS
<1>1. /\ \A h \in Handlers : ~Busy(h) => at[h].u = None
      /\ \A h \in Handlers : Busy(h) => at[h].u \in Uploads
      /\ \A h \in Handlers : at[h].pc \in InitPcs => Busy(h)
      /\ sessions \in [Ids -> {None} \cup Uploads]
      /\ None \notin Uploads
    BY Constants DEF Typed, TypeOK, Busy, InitPcs
<1>2. u \in Opening \cup Held <=> u \in Uploads /\ \E h \in Handlers : Busy(h) /\ at[h].u = u
    BY <1>1 DEF Opening, Held
<1>3. u \in {sessions[id] : id \in Ids} \ {None}
        <=> u \in Uploads /\ \E id \in Ids : sessions[id] = u
    BY <1>1
<1> QED
    BY <1>2, <1>3 DEF Working, Occupied

LEMMA WorkingAreNext == Typed' => (\A u : u \in Working <=> Occupied(u))'
BY WorkingAre, PTL

LEMMA FullInjective ==
    ASSUME NEW v \in Versions, NEW w \in Versions, Full(v) = Full(w) PROVE v = w
<1>1. 1 \in 1 .. N
    BY Constants
<1>2. Full(v)[1] = <<v, 1>> /\ Full(w)[1] = <<w, 1>>
    BY <1>1 DEF Full
<1> QED
    BY <1>2

\* A step after which no other upload is held or registered withdraws offers.
LEMMA OffersShrink ==
    ASSUME Typed, Typed', \A w \in Uploads : Started(w) => up'[w].v = up[w].v,
           \A g \in Handlers : at'[g].pc = "idle" \/ Occupied(at'[g].u),
           \A id \in Ids : sessions'[id] = None \/ Occupied(sessions'[id])
    PROVE  Offers' \subseteq Offers
<1> SUFFICES ASSUME NEW w, Occupied(w)' PROVE w \in Working /\ up'[w].v = up[w].v
    BY WorkingAreNext DEF Offers
<1>1. Occupied(w)
    <2>1. CASE \E h \in Handlers : Busy(h)' /\ at'[h].u = w
      BY <2>1 DEF Busy
    <2>2. CASE \E id \in Ids : sessions'[id] = w
      <3>1. w # None
        BY Constants DEF Occupied
      <3> QED
        BY <2>2, <3>1
    <2> QED
      BY <2>1, <2>2 DEF Occupied
<1>2. w \in Uploads /\ Started(w)
    BY <1>1, Constants DEF Occupied, Typed
<1> QED
    BY <1>1, <1>2, WorkingAre

\* One handler's step: it keeps, puts back or exchanges what was occupied.
LEMMA HandlerShrinks ==
    ASSUME Typed, Typed', NEW h \in Handlers, NEW u \in Uploads,
           AtStep(h), UpStep(u), Started(u),
           at'[h].pc = "idle" \/ Occupied(at'[h].u),
           \A id \in Ids : sessions'[id] \in {None, sessions[id]}
                             \/ (sessions'[id] = u /\ Occupied(u))
    PROVE  Offers' \subseteq Offers
<1>1. \A w \in Uploads : Started(w) => up'[w].v = up[w].v
    BY DEF UpStep
<1>2. ASSUME NEW g \in Handlers PROVE at'[g].pc = "idle" \/ Occupied(at'[g].u)
    <2>1. CASE g = h
      BY <2>1
    <2>2. CASE g # h
      BY <2>2 DEF AtStep, Occupied, Typed, Busy
    <2> QED
      BY <2>1, <2>2
<1>3. ASSUME NEW id \in Ids PROVE sessions'[id] = None \/ Occupied(sessions'[id])
    <2>1. sessions[id] = None \/ Occupied(sessions[id])
      BY DEF Typed, TypeOK, Occupied
    <2> QED
      BY <2>1
<1> QED
    BY <1>1, <1>2, <1>3, OffersShrink

\* What a path holds is what its inode holds.
LEMMA SameFile ==
    ASSUME final' = final, final = None \/ disk'[final] = disk[final]
    PROVE  Contents(final)' = Contents(final)
BY DEF Contents

\* A step of the registry, a handler or the pool that publishes nothing.
LEMMA InitStep ==
    ASSUME Good, raced' \in BOOLEAN, NEW l \in Links,
           Open(l) \/ Hash(l) \/ Insert(l)
    PROVE  Offers' \subseteq Offers
<1> DEFINE h == <<l, "cmd">>
<1>0. PICK u : u = at[h].u
    OBVIOUS
<1>1. /\ Typed' /\ h \in Handlers /\ u \in Uploads /\ at[h].pc # "idle"
      /\ AtStep(h) /\ UpStep(u)
      /\ at'[h].pc = "idle" \/ at'[h].u = u
      /\ \A id \in Ids : sessions'[id] \in {None, sessions[id], u}
    <2>1. CASE Open(l)
      <3>1. Typed /\ Placed
        BY DEF Good
      <3> QED
        BY <1>0, <2>1, <3>1, OpenStep
    <2>2. CASE Hash(l)
      <3>1. Typed /\ Placed
        BY DEF Good
      <3> QED
        BY <1>0, <2>2, <3>1, HashStep
    <2>3. CASE Insert(l)
      <3>1. Typed /\ Placed /\ sessions \in [Ids -> {None} \cup Uploads]
        BY DEF Good, Typed, TypeOK
      <3>2. /\ Typed' /\ h \in Handlers /\ u \in Uploads /\ at[h].pc = "insert"
            /\ AtStep(h) /\ UpStep(u)
            /\ at'[h].pc = "idle" \/ at'[h].u = u
            /\ IdFor(u) \in Ids /\ sessions' = [sessions EXCEPT ![IdFor(u)] = u]
        BY <1>0, <2>3, <3>1, InsertStep
      <3> QED
        BY <3>1, <3>2
    <2> QED
      BY <2>1, <2>2, <2>3
<1> HIDE DEF h
<1>2. Typed /\ Started(u) /\ Occupied(u)
    BY <1>0, <1>1 DEF Good, Typed, Busy, Occupied
<1>3. at'[h].pc = "idle" \/ Occupied(at'[h].u)
    BY <1>1, <1>2
<1> QED
    BY <1>1, <1>2, <1>3, HandlerShrinks

LEMMA HolderStep ==
    ASSUME Good, raced' \in BOOLEAN, NEW h \in Handlers,
           \/ \E l \in Links : h = <<l, "cmd">> /\ CancelUnlink(l)
           \/ \E l \in Links : h = <<l, "fs">> /\ (Skip(l) \/ Write(l) \/ Flush(l))
           \/ Take(h) \/ Check(h) \/ Clean(h) \/ Rename(h)
    PROVE  Offers' \subseteq Offers
<1>0. PICK u : u = at[h].u
    OBVIOUS
<1>00. Typed /\ Placed /\ sessions \in [Ids -> {None} \cup Uploads]
       /\ up \in [Uploads -> Session \cup {Unused}]
       /\ \A x \in Uploads : Started(x) => up[x] \in Session
    BY Parts DEF Good, Typed, TypeOK
<1> DEFINE Goal ==
        /\ Typed' /\ u \in Uploads /\ at[h].pc # "idle"
        /\ AtStep(h) /\ UpStep(u)
        /\ \/ at'[h].pc = "idle"
           \/ at'[h].u = u
           \/ IdFor(u) \in Ids /\ at'[h].u = sessions[IdFor(u)] /\ at'[h].u \in Uploads
        /\ \A id \in Ids : sessions'[id] \in {None, sessions[id]}
<1>1. ASSUME NEW l \in Links, h = <<l, "cmd">>, CancelUnlink(l) PROVE Goal
    <2>1. /\ Typed' /\ u \in Uploads /\ at[h].pc # "idle" /\ Started(u)
          /\ AtStep(h) /\ up' = up /\ at'[h].pc = "idle" /\ sessions' = sessions
      BY <1>0, <1>00, <1>1, CancelUnlinkStep
    <2>2. UpStep(u)
      BY <1>00, <2>1 DEF UpStep
    <2> QED
      BY <2>1, <2>2
<1>2. ASSUME NEW l \in Links, h = <<l, "fs">>, Skip(l) PROVE Goal
    BY <1>0, <1>00, <1>2, SkipStep
<1>3. ASSUME NEW l \in Links, h = <<l, "fs">>, Write(l) PROVE Goal
    <2>0. PICK k : k = at[h].k
      OBVIOUS
    <2> QED
      BY <1>0, <1>00, <1>3, <2>0, WriteStep
<1>4. ASSUME NEW l \in Links, h = <<l, "fs">>, Flush(l) PROVE Goal
    BY <1>0, <1>00, <1>4, FlushStep
<1>5. ASSUME Take(h) PROVE Goal
    <2>0. PICK o : o = sessions[IdFor(u)]
      OBVIOUS
    <2>1. /\ Typed' /\ u \in Uploads /\ at[h].pc = "take" /\ up[u] \in Session
          /\ AtStep(h) /\ up' = up
          /\ at'[h].pc = "idle" \/ (o \in Uploads /\ at'[h].u = o)
          /\ IdFor(u) \in Ids /\ sessions' = [sessions EXCEPT ![IdFor(u)] = None]
      BY <1>0, <1>00, <1>5, <2>0, TakeStep
    <2>2. UpStep(u)
      BY <1>00, <2>1 DEF UpStep
    <2>3. \A id \in Ids : sessions'[id] \in {None, sessions[id]}
      BY <1>00, <2>1
    <2> QED
      BY <2>0, <2>1, <2>2, <2>3
<1>6. ASSUME Check(h) PROVE Goal
    BY <1>0, <1>00, <1>6, CheckStep
<1>7. ASSUME Clean(h) \/ Rename(h) PROVE Goal
    BY <1>0, <1>00, <1>7, CleanOrRenameStep
<1> HIDE DEF Goal
<1>8. Goal
    BY <1>1, <1>2, <1>3, <1>4, <1>5, <1>6, <1>7
<1>9. Started(u) /\ Occupied(u)
    BY <1>0, <1>00, <1>8 DEF Goal, Typed, Busy, Occupied
<1>10. at'[h].pc = "idle" \/ Occupied(at'[h].u)
    <2>1. CASE at'[h].u = u
      BY <1>9, <2>1
    <2>2. CASE IdFor(u) \in Ids /\ at'[h].u = sessions[IdFor(u)] /\ at'[h].u \in Uploads
      BY <2>2 DEF Occupied
    <2> QED
      BY <1>8, <2>1, <2>2 DEF Goal
<1> QED
    BY <1>00, <1>8, <1>9, <1>10, HandlerShrinks DEF Goal

LEMMA CancelOrLookupStep ==
    ASSUME Good, raced' \in BOOLEAN, NEW l \in Links,
           \/ \E id \in Ids : CancelTake(l, id)
           \/ \E u \in Uploads : Started(u) /\ Lookup(l, u)
    PROVE  Offers' \subseteq Offers /\ disk' = disk /\ final' = final
<1>0. Typed /\ Placed /\ sessions \in [Ids -> {None} \cup Uploads]
      /\ at \in [Handlers -> AtRec] /\ up \in [Uploads -> Session \cup {Unused}]
      /\ (\A x \in Uploads : Started(x) => up[x] \in Session)
      /\ (\A g \in Handlers : at[g].pc = "idle" \/ Occupied(at[g].u))
      /\ (\A i \in Ids : sessions[i] = None \/ Occupied(sessions[i]))
    BY Parts DEF Good, Typed, TypeOK, Occupied, Busy
<1>1. ASSUME NEW id \in Ids, CancelTake(l, id)
      PROVE  Offers' \subseteq Offers /\ disk' = disk /\ final' = final
    <2> DEFINE h == <<l, "cmd">>
    <2>0. PICK u : u = sessions[id]
      OBVIOUS
    <2>1. /\ Typed' /\ h \in Handlers /\ up' = up /\ disk' = disk /\ final' = final
          /\ \/ at' = at /\ sessions' = sessions
             \/ /\ u \in Uploads /\ Started(u) /\ AtStep(h) /\ at'[h].u = u
                /\ sessions' = [sessions EXCEPT ![id] = None]
      BY <1>0, <1>1, <2>0, CancelTakeStep
    <2> HIDE DEF h
    <2>2. CASE at' = at /\ sessions' = sessions
      BY <1>0, <2>1, <2>2, OffersShrink
    <2>3. CASE /\ u \in Uploads /\ Started(u) /\ AtStep(h) /\ at'[h].u = u
               /\ sessions' = [sessions EXCEPT ![id] = None]
      <3>1. UpStep(u)
        BY <1>0, <2>1, <2>3 DEF UpStep
      <3>2. Occupied(at'[h].u)
        BY <2>0, <2>3 DEF Occupied
      <3>3. \A i \in Ids : sessions'[i] \in {None, sessions[i]}
        BY <1>0, <2>3
      <3> QED
        BY <1>0, <2>1, <2>3, <3>1, <3>2, <3>3, HandlerShrinks
    <2> QED
      BY <2>1, <2>2, <2>3
<1>2. ASSUME NEW u \in Uploads, Started(u), Lookup(l, u)
      PROVE  Offers' \subseteq Offers /\ disk' = disk /\ final' = final
    <2> DEFINE h == <<l, "fs">>
    <2>0. PICK o : o = sessions[IdFor(u)]
      OBVIOUS
    <2>1. /\ Typed' /\ h \in Handlers /\ AtStep(h) /\ UpStep(u) /\ IdFor(u) \in Ids
          /\ at' = at \/ (o \in Uploads /\ at'[h].u = o)
          /\ sessions' = sessions /\ disk' = disk /\ final' = final
      BY <1>0, <1>2, <2>0, LookupStep
    <2> HIDE DEF h
    <2>2. at'[h].pc = "idle" \/ Occupied(at'[h].u)
      <3>1. CASE at' = at
        BY <1>0, <2>1, <3>1
      <3>2. CASE o \in Uploads /\ at'[h].u = o
        BY <2>0, <2>1, <3>2 DEF Occupied
      <3> QED
        BY <2>1, <3>1, <3>2
    <2> QED
      BY <1>0, <1>2, <2>1, <2>2, HandlerShrinks
<1> QED
    BY <1>1, <1>2

\* A whole version is renamed into place, and one that its upload still offers.
LEMMA RenameStep ==
    ASSUME Good, raced' \in BOOLEAN, NEW h \in Handlers, Rename(h)
    PROVE  \/ Contents(final)' = Contents(final)
           \/ \E v \in Versions : v \in Offers /\ Contents(final)' = v
<1>0. PICK u : u = at[h].u
    OBVIOUS
<1>1. /\ at[h].pc = "rename" /\ u \in Uploads /\ up[u] \in Session /\ up[u].next > 0
      /\ final' = final \/ (part # None /\ final' = part)
      /\ disk' = disk
    BY <1>0, CleanOrRenameStep DEF Good, Rename
<1>2. /\ u \in Workers /\ Sound(u) /\ Ready(h) /\ Typed /\ Others /\ Busy(h)
    BY <1>0, <1>1, Here DEF Busy
<1>3. CASE final' = final
    BY <1>1, <1>3, SameFile
<1>4. CASE part # None /\ final' = part
    <2>1. up[u].ino = part /\ disk[part] = Full(up[u].v) /\ up[u].v \in Versions
      BY <1>0, <1>1, <1>2, <1>4 DEF Ready, Sound, Session
    <2>2. u \in Working
      <3>1. Occupied(u)
        BY <1>0, <1>1, <1>2 DEF Occupied
      <3> QED
        BY <1>2, <3>1, WorkingAre
    <2>3. Contents(final)' = up[u].v
      <3>1. PICK v \in Versions : v = up[u].v
        BY <2>1
      <3>2. disk'[final'] = Full(v) /\ final' # None
        BY <1>1, <1>4, <2>1, <3>1
      <3>3. \A w \in Versions : disk'[final'] = Full(w) <=> w = v
        BY <3>2, FullInjective
      <3>4. (CHOOSE w \in Versions : disk'[final'] = Full(w)) = v
        BY <3>3
      <3> QED
        BY <3>1, <3>2, <3>4 DEF Contents, Full
    <2> QED
      BY <2>1, <2>2, <2>3 DEF Offers
<1> QED
    BY <1>1, <1>3, <1>4

LEMMA CopyStep ==
    ASSUME Good, swallowed = {}, Clear', ~raced', swallowed' = {}, [Next]_vars
    PROVE  \/ \E v \in Versions : Offers' = Offers \cup {v} /\ Contents(final)' = Contents(final)
           \/ Offers' \subseteq Offers /\ Contents(final)' = Contents(final)
           \/ \E v \in Versions :
                v \in Offers /\ Contents(final)' = v /\ Offers' \subseteq Offers
<1> DEFINE Goal ==
        \/ \E v \in Versions : Offers' = Offers \cup {v} /\ Contents(final)' = Contents(final)
        \/ Offers' \subseteq Offers /\ Contents(final)' = Contents(final)
        \/ \E v \in Versions :
             v \in Offers /\ Contents(final)' = v /\ Offers' \subseteq Offers
<1>0. /\ raced' \in BOOLEAN /\ Typed /\ Placed /\ Others /\ Typed'
      /\ sessions \in [Ids -> {None} \cup Uploads]
      /\ up \in [Uploads -> Session \cup {Unused}]
      /\ at \in [Handlers -> AtRec]
      /\ (\A g \in Handlers : at[g].pc = "idle" \/ Occupied(at[g].u))
      /\ (\A i \in Ids : sessions[i] = None \/ Occupied(sessions[i]))
    BY Cases, Parts, BaseInduction DEF Good, Typed, TypeOK, Occupied, Busy
<1>1. ASSUME NEW l \in Links, NEW u \in Uploads, NEW v \in Versions, NEW r \in Resumes,
             InitStat(l, u, v, r)
      PROVE  Goal
    <2> DEFINE h == <<l, "cmd">>
    <2>1. /\ h \in Handlers /\ at[h].pc = "idle" /\ ~Started(u) /\ AtStep(h) /\ UpStep(u)
          /\ at'[h].pc = "open" /\ at'[h].u = u
          /\ sessions' = sessions /\ disk' = disk /\ final' = final
      BY <1>0, <1>1, InitStatStep
    <2>2. up'[u].v = v
      BY <1>0, <1>1 DEF InitStat
    <2> HIDE DEF h
    <2>3. \A w : Occupied(w)' <=> w = u \/ Occupied(w)
      <3>1. ASSUME NEW w, Occupied(w) PROVE Occupied(w)'
        <4>1. \A g \in Handlers : Busy(g) => Busy(g)' /\ (at'[g].u = at[g].u)
          BY <2>1 DEF AtStep, Busy
        <4> QED
          BY <2>1, <3>1, <4>1 DEF Occupied
      <3>2. Occupied(u)'
        BY <2>1 DEF Occupied, Busy
      <3>3. ASSUME NEW w, Occupied(w)', w # u PROVE Occupied(w)
        <4>1. \A g \in Handlers : Busy(g)' /\ at'[g].u = w => Busy(g) /\ at[g].u = w
          BY <2>1, <3>3 DEF AtStep, Busy
        <4> QED
          BY <2>1, <3>3, <4>1 DEF Occupied
      <3> QED
        BY <3>1, <3>2, <3>3
    <2>4. \A w : Occupied(w) => w \in Uploads /\ w # u
      BY <1>0, <2>1, Constants DEF Occupied, Typed
    <2>5. Working' = Working \cup {u}
      BY <1>0, <2>3, WorkingAre, WorkingAreNext
    <2>6. \A w \in Working : up'[w].v = up[w].v
      BY <1>0, <2>1, <2>4, WorkingAre DEF UpStep
    <2>7. Offers' = Offers \cup {v}
      BY <2>2, <2>5, <2>6 DEF Offers
    <2>8. Contents(final)' = Contents(final)
      BY <2>1, SameFile
    <2> QED
      BY <2>7, <2>8
<1>2. ASSUME Offers' \subseteq Offers, final' = final, disk' = disk PROVE Goal
    BY <1>2, SameFile
<1>3. ASSUME NEW l \in Links, Open(l) PROVE Goal
    <2>1. Offers' \subseteq Offers
      BY <1>0, <1>3, InitStep
    <2>2. PICK h : h = <<l, "cmd">>
      OBVIOUS
    <2>3. PICK u : u = at[h].u
      OBVIOUS
    <2>4. /\ final' = final
          /\ disk' = disk \/ (part' \in Uploads /\ disk' = [disk EXCEPT ![part'] = <<>>])
      <3>1. /\ final' = final /\ u \in Uploads
            /\ \/ disk' = disk
               \/ part' = (IF part = None THEN u ELSE part)
                  /\ disk' = [disk EXCEPT ![part'] = <<>>]
        BY <1>0, <1>3, <2>2, <2>3, OpenStep
      <3> QED
        BY <1>0, <3>1 DEF Others
    <2>5. final = None \/ disk'[final] = disk[final]
      <3>1. part' # None => part' # final'
        BY DEF Clear, Apart
      <3> QED
        BY <1>0, <2>4, <3>1, Constants DEF Others
    <2> QED
      BY <2>1, <2>4, <2>5, SameFile
<1>4. ASSUME NEW l \in Links, Hash(l) \/ Insert(l) PROVE Goal
    <2>1. Offers' \subseteq Offers
      BY <1>0, <1>4, InitStep
    <2>2. final' = final /\ disk' = disk
      BY <1>4 DEF Hash, Insert, files
    <2> QED
      BY <1>2, <2>1, <2>2
<1>5. ASSUME NEW l \in Links, NEW id \in Ids, CancelTake(l, id) PROVE Goal
    BY <1>0, <1>2, <1>5, CancelOrLookupStep
<1>6. ASSUME NEW l \in Links, NEW u \in Uploads, Started(u), Lookup(l, u) PROVE Goal
    BY <1>0, <1>2, <1>6, CancelOrLookupStep
<1>7. ASSUME NEW l \in Links, CancelUnlink(l) PROVE Goal
    <2>1. Offers' \subseteq Offers
      BY <1>0, <1>7, HolderStep, Constants
    <2>2. final' = final /\ disk' = disk
      BY <1>7 DEF CancelUnlink
    <2> QED
      BY <1>2, <2>1, <2>2
<1>8. ASSUME NEW l \in Links, Skip(l) \/ Write(l) \/ Flush(l) PROVE Goal
    <2>1. Offers' \subseteq Offers
      BY <1>0, <1>8, HolderStep, Constants
    <2>2. final' = final /\ disk' = disk
      BY <1>8 DEF Skip, Write, Flush, files
    <2> QED
      BY <1>2, <2>1, <2>2
<1>9. ASSUME NEW h \in Handlers, Take(h) \/ Check(h) \/ Clean(h) PROVE Goal
    <2>1. Offers' \subseteq Offers
      BY <1>0, <1>9, HolderStep
    <2>2. final' = final /\ disk' = disk
      BY <1>9 DEF Take, Check, Clean, files
    <2> QED
      BY <1>2, <2>1, <2>2
<1>10. ASSUME NEW h \in Handlers, Rename(h) PROVE Goal
    <2>1. Offers' \subseteq Offers
      BY <1>0, <1>10, HolderStep
    <2> QED
      BY <1>0, <1>10, <2>1, RenameStep
<1>11. ASSUME NEW u \in Uploads, DiskWrite(u) PROVE Goal
    <2>1. /\ Started(u) /\ up[u].busy # NoChunk /\ up[u].ino \in Uploads
          /\ UpStep(u) /\ at' = at /\ sessions' = sessions /\ final' = final
          /\ disk' = disk \/ \E s : disk' = [disk EXCEPT ![up[u].ino] = s]
      BY <1>0, <1>11, DiskWriteStep
    <2>2. Offers' \subseteq Offers
      <3>1. \A w \in Uploads : Started(w) => up'[w].v = up[w].v
        BY <2>1 DEF UpStep
      <3> QED
        BY <1>0, <2>1, <3>1, OffersShrink
    <2>3. Sound(u)
      <3>1. AtWork(u)
        BY <2>1 DEF AtWork
      <3> QED
        BY <1>0, <3>1, WorkersAre DEF Good, Clear
    <2>4. final = None \/ disk'[final] = disk[final]
      BY <1>0, <2>1, <2>3, Constants DEF Sound, Others
    <2> QED
      BY <2>1, <2>2, <2>4, SameFile
<1>12. ASSUME \/ \E l \in Links : LinkDown(l) \/ Sweep(l)
              \/ \E l \in Links, id \in Ids, r \in Downloads : DownloadInit(l, id, r)
              \/ DownloadHash \/ DownloadSend \/ DownloadEnd
              \/ UNCHANGED vars
       PROVE  Goal
    <2>1. /\ at' = at /\ up' = up /\ disk' = disk /\ final' = final
          /\ \A id \in Ids : sessions'[id] \in {None, sessions[id]}
      BY <1>0, <1>12, OutsideStep
    <2>2. Offers' \subseteq Offers
      BY <1>0, <2>1, OffersShrink
    <2> QED
      BY <1>2, <2>1, <2>2
<1> HIDE DEF Goal
<1>13. Goal
    BY <1>0, <1>1, <1>3, <1>4, <1>5, <1>6, <1>7, <1>8, <1>9, <1>10, <1>11, <1>12, Cases
<1> QED
    BY <1>13 DEF Goal

\* Until two uploads overlap or a failed write goes unreported, the path holds a whole
\* version at every moment, and changes in one step, to a version being uploaded.
THEOREM TransfersCopyFiles == Spec => CopySpec
<1>1. Init => Copy!Init
    <2> SUFFICES ASSUME Init PROVE Copy!Init
      OBVIOUS
    <2>1. Typed /\ ~Clouded /\ final = None
      BY BaseInit DEF Init, Clouded
    <2>2. \A u : ~Occupied(u)
      BY Constants DEF Init, Idle, Occupied, Busy
    <2>3. Working = {}
      BY <2>1, <2>2, WorkingAre
    <2> QED
      BY <2>1, <2>3 DEF Copy!Init, Contents, Absent
<1>2. IInv /\ [Next]_vars => [Copy!Next]_Copy!vars
    <2> SUFFICES ASSUME IInv, [Next]_vars PROVE [Copy!Next]_Copy!vars
      OBVIOUS
    <2>1. CASE Clouded'
      BY <2>1 DEF Copy!Next, Copy!Free
    <2>2. CASE ~Clouded'
      <3>1. IInv'
        BY StepHolds
      <3>2. ~raced' /\ swallowed' = {} /\ Clear'
        BY <2>2, <3>1 DEF Clouded, IInv
      <3>3. ~Clouded /\ ~raced /\ swallowed = {}
        <4>1. Typed' /\ Typed /\ Solo
          BY <3>1 DEF IInv
        <4>2. ~raced
          BY <3>2, <4>1, SoloStep
        <4>3. swallowed = {}
          BY <3>2, <4>1, MarksStay
        <4> QED
          BY <4>2, <4>3 DEF Clouded
      <3>4. Good
        BY <3>3 DEF IInv, Good
      <3>5. Clouded' = Clouded
        <4>1. Clouded \in BOOLEAN /\ Clouded' \in BOOLEAN
          BY <3>1 DEF IInv, Typed, TypeOK, Clouded
        <4> QED
          BY <2>2, <3>3, <4>1
      <3>6. \/ \E v \in Versions : Offers' = Offers \cup {v} /\ Contents(final)' = Contents(final)
            \/ Offers' \subseteq Offers /\ Contents(final)' = Contents(final)
            \/ \E v \in Versions :
                 v \in Offers /\ Contents(final)' = v /\ Offers' \subseteq Offers
        BY <3>2, <3>3, <3>4, CopyStep
      <3> QED
        BY <3>5, <3>6
        DEF Copy!Next, Copy!Offer, Copy!Publish, Copy!Withdraw, Offers
    <2> QED
      BY <2>1, <2>2
<1> QED
    BY <1>1, <1>2, Invariance, PTL DEF Spec, CopySpec, Copy!Spec

=============================================================================
