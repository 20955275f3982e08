---------------------------- MODULE FileTransfer ----------------------------
(***************************************************************************)
(* Uploads and downloads of one path on the host: the registry of upload   *)
(* sessions, the .part file they write and the file it becomes.            *)
(*                                                                         *)
(* A link has a command channel (init, cancel) and a file channel (chunks); *)
(* each handles one message at a time, and all of them run concurrently,   *)
(* on any number of links.  Only the registry and each session are locked, *)
(* never the path: a handler is as many steps as it has awaits between     *)
(* which another handler's effects show.                                   *)
(*                                                                         *)
(* A file is the sequence of its 60 KB chunks.  A write is handed to the   *)
(* blocking pool and its result reported by the next write or flush of the *)
(* same file.  An upload is one TransferInit with the chunks its client    *)
(* sends after the reply; sessions, their open files and the inode that    *)
(* File::create makes are named after it.                                  *)
(*                                                                         *)
(* Left out: the .frankn_state file, which no code reads; acknowledgements; *)
(* the sandbox; chunks a channel may lose (it is reliable and ordered).    *)
(***************************************************************************)
EXTENDS Naturals, Sequences, FiniteSets

CONSTANTS
    Links, Clients,
    ClientOf,       \* link -> client
    Versions,       \* contents a client may upload to the path
    IdOf,           \* version -> transfer id (of the path and the size)
    N,              \* chunks of a version
    FlushAt,        \* offsets where 1 MiB is crossed
    \* Bounds of the instances that are checked:
    MaxUploads,     \* TransferInits
    MaxCancels,     \* TransferCancels
    MaxFails,       \* writes, reads and sends on a live link that fail
    Resumes,        \* resume_offset values of a TransferInit
    Downloads       \* offsets a download may start at

Ids      == {IdOf[v] : v \in Versions}
Uploads  == 1 .. MaxUploads
Handlers == Links \X {"cmd", "fs"}

ASSUME TransferAssumption ==
    /\ ClientOf \in [Links -> Clients]
    /\ DOMAIN IdOf = Versions /\ Versions # {}
    /\ N \in Nat \ {0}
    /\ FlushAt \subseteq 1 .. N
    /\ MaxUploads \in Nat /\ MaxCancels \in Nat /\ MaxFails \in Nat
    /\ Resumes \subseteq 0 .. N /\ Downloads \subseteq 0 .. N

VARIABLES
    link,       \* link -> "up", "down" or "swept"
    at,         \* handler -> where it is, and with which session
    up,         \* upload -> its session object
    sessions,   \* UPLOAD_SESSIONS: id -> upload
    disk,       \* inode -> chunks
    part,       \* the inode of the .part path
    final,      \* the inode of the path
    dl,         \* the download task
    cancels, fails,     \* counters of the bounds
    raced,      \* history: two uploads worked on the path at once
    swallowed,  \* history: uploads with a failed write nobody reported
    late        \* history: uploads registered after their link was swept

vars == <<link, at, up, sessions, disk, part, final, dl, cancels, fails,
          raced, swallowed, late>>

-----------------------------------------------------------------------------
(* Types *)

None  == 0
Hole  == <<"hole", 0>>
Chunk == Versions \X (1 .. N) \cup {Hole}
NoChunk == <<"none", 0>>

Pcs == {"idle", "open", "hash", "insert", "cancel",
        "write", "flush", "take", "check", "clean", "rename"}
Session ==
    [link : Links, v : Versions, append : BOOLEAN, ino : {None} \cup Uploads,
     pos : Nat, off : Nat, hashed : Seq(Chunk), busy : Chunk \cup {NoChunk},
     err : BOOLEAN, lock : Handlers \cup {<<>>}, next : Nat]
Unused == [link |-> <<>>]
Download == [pc : {"none", "hash", "send", "end", "ended", "stopped"}, id : Ids,
             link : {None} \cup Links, ino : {None} \cup Uploads, at : Nat,
             sum : Seq(Chunk), sent : Seq(Chunk), cut : BOOLEAN, flag : BOOLEAN]

Started(u) == up[u] # Unused

TypeOK ==
    /\ link \in [Links -> {"up", "down", "swept"}]
    /\ at \in [Handlers -> [pc : Pcs, u : {None} \cup Uploads,
                            k : Chunk \cup {NoChunk}]]
    /\ \A u \in Uploads : Started(u) => up[u] \in Session
    /\ sessions \in [Ids -> {None} \cup Uploads]
    /\ disk \in [Uploads -> Seq(Chunk)]
    /\ part \in {None} \cup Uploads /\ final \in {None} \cup Uploads
    /\ dl \in Download
    /\ cancels \in Nat /\ fails \in Nat
    /\ raced \in BOOLEAN
    /\ swallowed \subseteq Uploads /\ late \subseteq Uploads

-----------------------------------------------------------------------------
(* Helpers *)

Idle == [pc |-> "idle", u |-> None, k |-> NoChunk]
Full(v) == [k \in 1 .. N |-> <<v, k>>]
IdFor(u) == IdOf[up[u].v]
Goto(h, pc) == at' = [at EXCEPT ![h].pc = pc]
Return(h) == at' = [at EXCEPT ![h] = Idle]

\* No task streams a download: not yet, or it ended without a word.
NoDownload(pc) ==
    [pc |-> pc, id |-> CHOOSE id \in Ids : TRUE, link |-> None, ino |-> None,
     at |-> 0, sum |-> <<>>, sent |-> <<>>, cut |-> FALSE, flag |-> FALSE]

Streaming == dl.pc \in {"hash", "send", "end"}

\* What a file is after chunk c was written at position p.
Written(s, p, c) ==
    [i \in 1 .. (IF p < Len(s) THEN Len(s) ELSE p + 1) |->
        IF i = p + 1 THEN c ELSE IF i <= Len(s) THEN s[i] ELSE Hole]

Init ==
    /\ link = [l \in Links |-> "up"]
    /\ at = [h \in Handlers |-> Idle]
    /\ up = [u \in Uploads |-> Unused]
    /\ sessions = [id \in Ids |-> None]
    /\ disk = [u \in Uploads |-> <<>>]
    /\ part = None /\ final = None
    /\ dl = NoDownload("none")
    /\ cancels = 0 /\ fails = 0
    /\ raced = FALSE /\ swallowed = {} /\ late = {}

files == <<disk, part, final>>
bounds == <<cancels, fails>>
marks == <<swallowed, late>>

-----------------------------------------------------------------------------
(* handle_transfer_init, on the command channel *)

\* Mutant: any partial is taken for the one the client means.
ResumableAny(r) == r > 0 /\ part # None
\* The partial is resumed only if it is exactly as long as the client says.
Resumable(r) == r > 0 /\ part # None /\ Len(disk[part]) = r

\* Uploads are numbered in the order of their inits.
InitStat(l, u, v, r) ==
    LET h == <<l, "cmd">> IN
    /\ link[l] = "up" /\ at[h] = Idle
    /\ ~Started(u) /\ \A w \in 1 .. (u - 1) : Started(w)
    /\ up' = [up EXCEPT ![u] =
                [link |-> l, v |-> v, append |-> Resumable(r), ino |-> None,
                 pos |-> 0, off |-> IF Resumable(r) THEN r ELSE 0,
                 hashed |-> <<>>, busy |-> NoChunk, err |-> FALSE,
                 lock |-> <<>>, next |-> 0]]
    /\ at' = [at EXCEPT ![h] = [pc |-> "open", u |-> u, k |-> NoChunk]]
    /\ UNCHANGED <<link, sessions, files, dl, bounds, marks>>

\* File::create truncates an existing partial; an append needs one.
Open(l) ==
    LET h == <<l, "cmd">>  u == at[h].u IN
    /\ at[h].pc = "open"
    /\ IF up[u].append
       THEN /\ IF part = None THEN Return(h) ELSE Goto(h, "hash")
            /\ up' = [up EXCEPT ![u].ino = part]
            /\ UNCHANGED <<disk, part>>
       ELSE /\ Goto(h, "insert")
            /\ part' = IF part = None THEN u ELSE part
            /\ disk' = [disk EXCEPT ![part'] = <<>>]
            /\ up' = [up EXCEPT ![u].ino = part']
    /\ UNCHANGED <<link, sessions, final, dl, bounds, marks>>

\* The prefix is read again by path.
Hash(l) ==
    LET h == <<l, "cmd">>  u == at[h].u IN
    /\ at[h].pc = "hash"
    /\ IF part = None
       THEN Return(h) /\ UNCHANGED up
       ELSE /\ up' = [up EXCEPT ![u].hashed = disk[part]]
            /\ Goto(h, "insert")
    /\ UNCHANGED <<link, sessions, files, dl, bounds, marks>>

\* The session is registered, in the place of an older one of the same id.
Insert(l) ==
    LET h == <<l, "cmd">>  u == at[h].u IN
    /\ at[h].pc = "insert"
    /\ sessions' = [sessions EXCEPT ![IdFor(u)] = u]
    /\ up' = [up EXCEPT ![u].next = up[u].off + 1]
    /\ IF up[u].off = N THEN Goto(h, "take") ELSE Return(h)
    /\ late' = IF link[l] = "swept" THEN late \cup {u} ELSE late
    /\ UNCHANGED <<link, files, dl, bounds, swallowed>>

-----------------------------------------------------------------------------
(* handle_transfer_cancel *)

CancelTake(l, id) ==
    LET h == <<l, "cmd">>  u == sessions[id] IN
    /\ link[l] = "up" /\ at[h] = Idle /\ cancels < MaxCancels
    /\ sessions' = [sessions EXCEPT ![id] = None]
    /\ IF u = None THEN UNCHANGED at
       ELSE at' = [at EXCEPT ![h] = [Idle EXCEPT !.pc = "cancel", !.u = u]]
    /\ dl' = IF Streaming /\ dl.id = id THEN [dl EXCEPT !.flag = TRUE] ELSE dl
    /\ cancels' = cancels + 1
    /\ UNCHANGED <<link, up, files, fails, marks>>

CancelUnlink(l) ==
    LET h == <<l, "cmd">> IN
    /\ at[h].pc = "cancel" /\ up[at[h].u].lock = <<>>
    /\ part' = None
    /\ Return(h)
    /\ UNCHANGED <<link, up, sessions, disk, final, dl, bounds, marks>>

-----------------------------------------------------------------------------
(* handle_transfer_chunk_raw, on the file channel *)

\* Mutant: or equal to it.
MorePast(u) == up[u].next \in 1 .. (N + 1)
\* The chunks of a stream are sent while the offset is below the total size.
More(u) == up[u].next \in 1 .. N

\* The next chunk of u; a client that starts another upload on the link has
\* stopped sending the one before.
Lookup(l, u) ==
    LET h == <<l, "fs">>  o == sessions[IdFor(u)] IN
    /\ link[l] = "up" /\ at[h] = Idle
    /\ up[u].link = l /\ More(u)
    /\ \A w \in Uploads : w > u /\ Started(w) /\ up[w].link = l
                            => up[w].next \in {0, up[w].off + 1}
    /\ up' = [up EXCEPT ![u].next = @ + 1]
    /\ IF o = None THEN UNCHANGED at
       ELSE at' = [at EXCEPT ![h] = [pc |-> "write", u |-> o,
                                     k |-> <<up[u].v, up[u].next>>]]
    /\ UNCHANGED <<link, sessions, files, dl, bounds, marks>>

Final(k) == k[2] = N

\* A chunk at another offset, or after a failed write, is dropped.
Skip(l) ==
    LET h == <<l, "fs">>  o == at[h].u IN
    /\ at[h].pc = "write" /\ up[o].lock = <<>>
    /\ \/ /\ at[h].k[2] # up[o].off + 1
          /\ UNCHANGED up
       \/ /\ at[h].k[2] = up[o].off + 1 /\ up[o].err
          /\ up' = [up EXCEPT ![o].err = FALSE]
    /\ Return(h)
    /\ UNCHANGED <<link, sessions, files, dl, bounds, marks>>

Write(l) ==
    LET h == <<l, "fs">>  o == at[h].u  k == at[h].k
        flush == Final(k) \/ k[2] \in FlushAt
    IN
    /\ at[h].pc = "write" /\ up[o].lock = <<>>
    /\ k[2] = up[o].off + 1 /\ up[o].busy = NoChunk /\ ~up[o].err
    /\ up' = [up EXCEPT ![o].busy = k, ![o].hashed = Append(@, k),
                        ![o].off = @ + 1,
                        ![o].lock = IF flush THEN h ELSE <<>>]
    /\ IF flush THEN Goto(h, "flush") ELSE Return(h)
    /\ UNCHANGED <<link, sessions, files, dl, bounds, marks>>

\* "let _ = flush": the result of the write it waits for is not looked at.
Flush(l) ==
    LET h == <<l, "fs">>  o == at[h].u IN
    /\ at[h].pc = "flush" /\ up[o].busy = NoChunk
    /\ up' = [up EXCEPT ![o].err = FALSE, ![o].lock = <<>>]
    /\ swallowed' = IF up[o].err THEN swallowed \cup {o} ELSE swallowed
    /\ IF Final(at[h].k) THEN Goto(h, "take") ELSE Return(h)
    /\ UNCHANGED <<link, sessions, files, dl, bounds, late>>

-----------------------------------------------------------------------------
(* finalize_upload, from either channel *)

Take(h) ==
    LET id == IdFor(at[h].u)  o == sessions[id] IN
    /\ at[h].pc = "take"
    /\ sessions' = [sessions EXCEPT ![id] = None]
    /\ at' = [at EXCEPT ![h] = IF o = None THEN Idle
                               ELSE [@ EXCEPT !.pc = "check", !.u = o]]
    /\ UNCHANGED <<link, up, files, dl, bounds, marks>>

\* Mutant: only the size is compared.
VerifiedSize(u) == up[u].off = N
\* What is checked is what was received, not what is in the file.
Verified(u) == up[u].off = N /\ up[u].hashed = Full(up[u].v)

Check(h) ==
    LET u == at[h].u IN
    /\ at[h].pc = "check" /\ up[u].lock = <<>> /\ up[u].busy = NoChunk
    /\ IF up[u].err
       THEN Return(h) /\ up' = [up EXCEPT ![u].err = FALSE]
       ELSE /\ Goto(h, IF Verified(u) THEN "rename" ELSE "clean")
            /\ up' = [up EXCEPT ![u].lock = h]
    /\ UNCHANGED <<link, sessions, files, dl, bounds, marks>>

Clean(h) ==
    /\ at[h].pc = "clean"
    /\ part' = None
    /\ up' = [up EXCEPT ![at[h].u].lock = <<>>]
    /\ Return(h)
    /\ UNCHANGED <<link, sessions, disk, final, dl, bounds, marks>>

\* The rename takes whatever the .part path names now.
Rename(h) ==
    /\ at[h].pc = "rename"
    /\ final' = IF part = None THEN final ELSE part
    /\ part' = None
    /\ up' = [up EXCEPT ![at[h].u].lock = <<>>]
    /\ Return(h)
    /\ UNCHANGED <<link, sessions, disk, dl, bounds, marks>>

-----------------------------------------------------------------------------
(* The blocking pool, the links, downloads *)

DiskWrite(u) ==
    LET s == up[u]  i == s.ino IN
    /\ Started(u) /\ s.busy # NoChunk
    /\ \/ /\ disk' = [disk EXCEPT ![i] =
                        Written(@, IF s.append THEN Len(@) ELSE s.pos, s.busy)]
          /\ up' = [up EXCEPT ![u].busy = NoChunk, ![u].pos = @ + 1]
          /\ UNCHANGED fails
       \/ /\ fails < MaxFails /\ fails' = fails + 1
          /\ up' = [up EXCEPT ![u].busy = NoChunk, ![u].err = TRUE]
          /\ UNCHANGED disk
    /\ UNCHANGED <<link, at, sessions, part, final, dl, cancels, marks>>

LinkDown(l) ==
    /\ link[l] = "up"
    /\ link' = [link EXCEPT ![l] = "down"]
    /\ UNCHANGED <<at, up, sessions, files, dl, bounds, marks>>

\* Mutant: a session that is locked is not waited for.
SweepTryLock(l) ==
    /\ link[l] = "down"
    /\ sessions' = [id \in Ids |->
            IF sessions[id] # None /\ up[sessions[id]].lock = <<>>
               /\ ClientOf[up[sessions[id]].link] = ClientOf[l]
            THEN None ELSE sessions[id]]
    /\ link' = [link EXCEPT ![l] = "swept"]
    /\ UNCHANGED <<at, up, files, dl, bounds, marks>>
\* cleanup_client_uploads, at the end of the link's teardown, locks the
\* registry and every session; it goes by client id.
Sweep(l) ==
    /\ link[l] = "down"
    /\ \A id \in Ids : sessions[id] # None => up[sessions[id]].lock = <<>>
    /\ sessions' = [id \in Ids |->
            IF sessions[id] # None /\ ClientOf[up[sessions[id]].link] = ClientOf[l]
            THEN None ELSE sessions[id]]
    /\ link' = [link EXCEPT ![l] = "swept"]
    /\ UNCHANGED <<at, up, files, dl, bounds, marks>>

\* handle_download_init, up to the registration of the cancel flag; seeking in
\* the file does not fail.
DownloadInit(l, id, r) ==
    /\ link[l] = "up" /\ at[<<l, "cmd">>] = Idle
    /\ dl.pc = "none" /\ final # None
    /\ dl' = [dl EXCEPT !.pc = "hash", !.id = id, !.link = l, !.ino = final,
                        !.at = IF r < Len(disk[final]) THEN r ELSE Len(disk[final])]
    /\ UNCHANGED <<link, at, up, sessions, files, bounds, marks>>

\* stream_download reads the file that was opened from its start for the hash,
\* then from the offset for the chunks.  A read that fails ends it without a word.
ReadFails == fails < MaxFails /\ fails' = fails + 1
\* A send may fail on any link, and needs no other failure on one that went down.
SendFails == \/ link[dl.link] # "up" /\ UNCHANGED fails
             \/ fails < MaxFails /\ fails' = fails + 1

DownloadHash ==
    /\ dl.pc = "hash"
    /\ \/ dl' = [dl EXCEPT !.pc = "send", !.sum = disk[dl.ino]] /\ UNCHANGED fails
       \/ dl' = NoDownload("stopped") /\ ReadFails
    /\ UNCHANGED <<link, at, up, sessions, files, cancels, marks>>

\* Mutant: the second pass opens the path again.
DownloadReadReopened == disk[final]
DownloadRead == disk[dl.ino]

\* A send that fails leaves the loop as the end of the file does.
DownloadSend ==
    LET p == dl.at + Len(dl.sent) + 1  more == p <= Len(DownloadRead) IN
    /\ dl.pc = "send"
    /\ \/ dl.flag /\ dl' = NoDownload("stopped") /\ UNCHANGED fails
       \/ ~dl.flag /\ dl' = NoDownload("stopped") /\ ReadFails
       \/ /\ ~dl.flag /\ more /\ UNCHANGED fails
          /\ dl' = [dl EXCEPT !.sent = Append(@, DownloadRead[p])]
       \/ /\ ~dl.flag /\ more /\ SendFails
          /\ dl' = [dl EXCEPT !.pc = "end", !.cut = TRUE]
       \/ ~dl.flag /\ ~more /\ dl' = [dl EXCEPT !.pc = "end"] /\ UNCHANGED fails
    /\ UNCHANGED <<link, at, up, sessions, files, cancels, marks>>

\* DownloadEnd announces the hash of the whole file, after a failed send too; if it
\* fails itself, nobody hears of the end.  What the client has and was told stays.
DownloadEnd ==
    /\ dl.pc = "end"
    /\ \/ /\ dl' = [NoDownload("ended") EXCEPT !.at = dl.at, !.sum = dl.sum,
                                               !.sent = dl.sent, !.cut = dl.cut]
          /\ UNCHANGED fails
       \/ dl' = NoDownload("stopped") /\ SendFails
    /\ UNCHANGED <<link, at, up, sessions, files, cancels, marks>>

-----------------------------------------------------------------------------
(* History: uploads that work on the path at the same time *)

InitPcs == {"open", "hash", "insert"}
Opening == {at[h].u : h \in {x \in Handlers : at[x].pc \in InitPcs}}
Held    == {at[h].u : h \in {x \in Handlers : at[x].pc \notin InitPcs}} \ {None}
Pending == {u \in Uploads : Started(u) /\ up[u].busy # NoChunk}
\* A session that waits for chunks while an init of its id is about to
\* replace it does no work.
Waiting == {sessions[id] : id \in {i \in Ids :
              ~ \E u \in Opening : IdFor(u) = i}} \ {None}
Workers == Opening \cup Held \cup Pending \cup Waiting

Step ==
    \/ \E l \in Links :
        \/ \E u \in Uploads, v \in Versions, r \in Resumes : InitStat(l, u, v, r)
        \/ Open(l) \/ Hash(l) \/ Insert(l)
        \/ \E id \in Ids : CancelTake(l, id)
        \/ CancelUnlink(l)
        \/ \E u \in Uploads : Started(u) /\ Lookup(l, u)
        \/ Skip(l) \/ Write(l) \/ Flush(l)
        \/ LinkDown(l) \/ Sweep(l)
        \/ \E id \in Ids, r \in Downloads : DownloadInit(l, id, r)
    \/ \E h \in Handlers : Take(h) \/ Check(h) \/ Clean(h) \/ Rename(h)
    \/ \E u \in Uploads : DiskWrite(u)
    \/ DownloadHash \/ DownloadSend \/ DownloadEnd

\* A chunk meets the session of another upload of the same id.
Astray == \E u \in Uploads :
    /\ Started(u) /\ up[u].next > 0 /\ up'[u].next # up[u].next
    /\ sessions[IdFor(u)] \notin {u, None}

Next == Step /\ raced' = (raced \/ Cardinality(Workers') > 1 \/ Astray)

Spec == Init /\ [][Next]_vars

-----------------------------------------------------------------------------
(* Properties *)

\* What the path holds: a version, or something no client ever sent.
Absent == "absent"
Mixed  == "mixed"
Contents(i) ==
    IF i = None THEN Absent
    ELSE IF \E v \in Versions : disk[i] = Full(v)
         THEN CHOOSE v \in Versions : disk[i] = Full(v)
         ELSE Mixed

Working == Opening \cup Held \cup ({sessions[id] : id \in Ids} \ {None})
Clouded == raced \/ swallowed # {}

\* The uploads of the path implement a copy that replaces the file by one
\* version that is being uploaded, in one step, until two uploads overlap or
\* a failed write is not reported.
Copy == INSTANCE FileCopy WITH
            None <- Absent,
            file <- Contents(final),
            offers <- {up[u].v : u \in Working},
            free <- Clouded
CopySpec == Copy!Spec

\* A registered session's open file is the one at the .part path, and holds what
\* its hasher has read, but for the one write that is under way or failed; then
\* the failure is still to be reported, or the chunk that reported it was dropped
\* and with it the upload.  The hash of what was received speaks for the file.
PartialIsHashed ==
    \A id \in Ids : (sessions[id] # None /\ Opening = {} /\ ~Clouded) =>
        LET s == up[sessions[id]] IN
        /\ s.ino = part
        /\ \/ disk[part] = s.hashed /\ s.busy = NoChunk
           \/ /\ disk[part] = SubSeq(s.hashed, 1, s.off - 1)
              /\ s.busy # NoChunk \/ s.err \/ s.next > s.off + 1

\* A client whose links are all swept has no session left, unless its handler
\* registered it after the sweep.
NoStrandedSession ==
    \A id \in Ids : LET u == sessions[id] IN
        (u # None /\ \A l \in Links :
            ClientOf[l] = ClientOf[up[u].link] => link[l] = "swept")
        => u \in late

\* The hash a download announces is that of the bytes it sent (and, if it was
\* resumed, of those before), although the path may be replaced meanwhile; after a
\* failed send, when the same hash is announced, at least one chunk is missing and
\* none is wrong, so that the client's comparison with its file refuses it.
DownloadConsistent ==
    (dl.pc = "ended" /\ ~Clouded) =>
        /\ dl.sent = SubSeq(dl.sum, dl.at + 1, dl.at + Len(dl.sent))
        /\ dl.cut <=> dl.at + Len(dl.sent) < Len(dl.sum)

=============================================================================
