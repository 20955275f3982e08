-------------------------------- MODULE Login --------------------------------
(***************************************************************************)
(* The OPAQUE login of clients on a private host, and the pairing that     *)
(* ends it: the client's attempt on a link, the host's pending logins and  *)
(* credentials, the access list in memory, on disk and at the signaling    *)
(* server.                                                                 *)
(*                                                                         *)
(* The messages of a link are handled one after the other, those of two    *)
(* links side by side; the handler finds its session by the peer id when   *)
(* it starts, and that may be the session of a later link.  The client has *)
(* one attempt id for all the tries on a link, here the link itself.       *)
(*                                                                         *)
(* An exchange is a try on a link: its request, response and finalization  *)
(* fit each other and no others, and the credential derived from it stands *)
(* for nothing else.  Left out: the 9 hours of a credential, the limits of *)
(* 128 pending logins and 16 client handles, malformed messages.           *)
(***************************************************************************)
EXTENDS Naturals, Sequences, FiniteSets

CONSTANTS
    Clients,    \* peer ids of clients
    Links,      \* connections, numbered in the order they are made
    Owner,      \* link -> the client that makes it
    Tries,      \* link -> passcodes entered on it in an instance
    MaxTroubles \* links that fail or are left, logins that take 30 s, wrong
                \* passcodes, errors of the disk, signaling connections lost

ASSUME LoginAssumption ==
    /\ Links \subseteq Nat \ {0}
    /\ Owner \in [Links -> Clients] /\ Tries \in [Links -> Nat]
    /\ MaxTroubles \in Nat

VARIABLES
    using,      \* client -> its connection attempt of the moment, or none
    cli,        \* link -> the AuthAttempt of the client
    toHost,     \* link -> what the client sent and the host has not taken
    toClient,   \* link -> what the host sent and the client has not read
    sess,       \* link -> where the host's session is
    role,       \* link -> role of that session
    peers,      \* peer_map: client -> link of its session, or none
    handler,    \* link -> the message the host is handling on it
    pend,       \* pending_logins: attempt id -> exchange and owner scope
    timers,     \* expiry tasks that sleep, by the exchange they are for
    old,        \* exchanges begun 30 s ago or more
    tokens,     \* AuthManager::sessions
    acl,        \* allowed_clients, in memory
    saved,      \* allowed_clients of the config file
    lock,       \* the lock of allowed_clients: the link that holds it, or none
    sig,        \* the host's signaling connection, published or not
    server,     \* allowed peers at the signaling server
    sigOf,      \* link -> the signaling connection its context holds
    troubles,   \* counter of the bound
    late,       \* history: logins begun for a session that was torn down
    missed      \* history: clients paired over a signaling connection gone

vars == <<using, cli, toHost, toClient, sess, role, peers, handler, pend,
          timers, old, tokens, acl, saved, lock, sig, server, sigOf, troubles,
          late, missed>>

clientVars == <<using, cli>>
netVars    == <<toHost, toClient>>
sessVars   == <<sess, role, peers>>
authVars   == <<pend, timers, old, tokens, late>>
aclVars    == <<acl, saved, lock, sig, server, sigOf, missed>>

-----------------------------------------------------------------------------
(* Types *)

None == 0
Exchange(l, n) == [link |-> l, n |-> n]
Exchanges == UNION {{Exchange(l, n) : n \in 1 .. Tries[l]} : l \in Links}
AuthStates == {"idle", "awaiting", "sending", "auth", "failed"}
HandlerPcs == {"idle", "start", "finish", "lock", "persist", "publish",
               "revoke", "role", "reply"}
NoPending == [n |-> 0, scope |-> 0]

TypeOK ==
    /\ using \in [Clients -> Links \cup {None}]
    /\ \A l \in Links :
        /\ cli[l].st \in AuthStates
        /\ {cli[l].n, cli[l].handle, cli[l].cred, cli[l].tok}
               \subseteq 0 .. Tries[l]
        /\ sess[l] \in {"none", "live", "closing", "cancelled", "gone"}
        /\ role[l] \in {"client", "authenticated"}
        /\ handler[l].pc \in HandlerPcs
        /\ handler[l].on = None <=> handler[l].pc = "idle"
        /\ pend[l].n \in 0 .. Tries[l] /\ pend[l].scope \in Links \cup {None}
        /\ pend[l].n = 0 <=> pend[l].scope = None
        /\ sigOf[l] \in 0 .. MaxTroubles + 1
    /\ peers \in [Clients -> Links \cup {None}]
    /\ timers \subseteq Exchanges /\ old \subseteq Exchanges
    /\ tokens \subseteq Exchanges
    /\ acl \subseteq Clients /\ saved \subseteq Clients
    /\ server \subseteq Clients /\ missed \subseteq Clients
    /\ lock \in Links \cup {None}
    /\ sig \in [n : 1 .. MaxTroubles + 1, published : BOOLEAN]
    /\ troubles \in 0 .. MaxTroubles /\ late \subseteq Exchanges

-----------------------------------------------------------------------------
(* Helpers *)

ToHost(l, kind, n) ==
    toHost' = [toHost EXCEPT ![l] = Append(@, [kind |-> kind, n |-> n])]

\* What a handler sends goes to the link of the session it found, under the
\* attempt id of the message it answers; a closed link loses it.
Reply(l, kind, n) ==
    LET on == handler[l].on IN
    toClient' = IF sess[on] = "live" /\ using[Owner[on]] = on
                THEN [toClient EXCEPT ![on] =
                        Append(@, [kind |-> kind, id |-> l, n |-> n])]
                ELSE toClient
Handle(l, pc) == handler' = [handler EXCEPT ![l].pc = pc]
Idle == [pc |-> "idle", on |-> None, n |-> 0]
Done(l) == handler' = [handler EXCEPT ![l] = Idle]
Trouble == troubles < MaxTroubles /\ troubles' = troubles + 1
\* AuthAttempt::clearOpaqueState
Cleared(a) == [a EXCEPT !.handle = 0, !.cred = 0]
Young(l) == pend[l].n # 0 /\ Exchange(l, pend[l].n) \notin old

NoAttempt == [st |-> "idle", n |-> 0, handle |-> 0, cred |-> 0, tok |-> 0,
              right |-> FALSE]

Init ==
    /\ using = [c \in Clients |-> None] /\ peers = [c \in Clients |-> None]
    /\ cli = [l \in Links |-> NoAttempt]
    /\ toHost = [l \in Links |-> <<>>] /\ toClient = [l \in Links |-> <<>>]
    /\ sess = [l \in Links |-> "none"] /\ role = [l \in Links |-> "client"]
    /\ handler = [l \in Links |-> Idle]
    /\ pend = [l \in Links |-> NoPending]
    /\ timers = {} /\ old = {} /\ tokens = {} /\ late = {}
    /\ acl = {} /\ saved = {} /\ lock = None
    /\ sig = [n |-> 1, published |-> TRUE] /\ server = {}
    /\ sigOf = [l \in Links |-> 0] /\ troubles = 0 /\ missed = {}

-----------------------------------------------------------------------------
(* Links *)

\* The client drops its attempt and connects anew; the Offer is handled in the
\* signaling loop, replaces the session of the peer and closes it.
Open(l) ==
    LET c == Owner[l] IN
    /\ sess[l] = "none" /\ sig.published
    /\ \A k \in Links : (Owner[k] = c /\ k < l) => sess[k] # "none"
    /\ using' = [using EXCEPT ![c] = l]
    /\ cli' = IF using[c] = None THEN cli
              ELSE [cli EXCEPT ![using[c]] =
                      [NoAttempt EXCEPT !.n = cli[using[c]].n]]
    /\ toClient' = [k \in Links |-> IF k = using[c] THEN <<>> ELSE toClient[k]]
    /\ peers' = [peers EXCEPT ![c] = l]
    /\ sess' = [k \in Links |->
                  IF k = l THEN "live"
                  ELSE IF k = peers[c] /\ sess[k] = "live" THEN "closing"
                  ELSE sess[k]]
    /\ sigOf' = [sigOf EXCEPT ![l] = sig.n]
    /\ UNCHANGED <<toHost, role, handler, authVars, acl, saved, lock, sig,
                   server, missed>>
    /\ IF peers[c] # None /\ sess[peers[c]] = "live"
       THEN Trouble ELSE UNCHANGED troubles

\* The link fails: the state callback wakes the session's task...
Down(l) ==
    /\ sess[l] = "live" /\ Trouble
    /\ sess' = [sess EXCEPT ![l] = "closing"]
    /\ UNCHANGED <<clientVars, netVars, role, peers, handler, authVars,
                   aclVars>>

\* Mutant: by the attempt id instead of the owner scope.
CancelOwn(l) ==
    /\ sess[l] = "closing"
    /\ pend' = [a \in Links |-> IF a = l THEN NoPending ELSE pend[a]]
    /\ sess' = [sess EXCEPT ![l] = "cancelled"]
    /\ UNCHANGED <<clientVars, netVars, role, peers, handler, timers, old,
                   tokens, late, aclVars,
                   troubles>>

\* ... which cancels the logins of its scope...
Cancel(l) ==
    /\ sess[l] = "closing"
    /\ pend' = [a \in Links |->
                  IF pend[a].scope = l THEN NoPending ELSE pend[a]]
    /\ sess' = [sess EXCEPT ![l] = "cancelled"]
    /\ UNCHANGED <<clientVars, netVars, role, peers, handler, timers, old,
                   tokens, late, aclVars,
                   troubles>>

\* ... and leaves the peer map, if the entry is still its own.
Leave(l) ==
    /\ sess[l] = "cancelled"
    /\ sess' = [sess EXCEPT ![l] = "gone"]
    /\ peers' = [c \in Clients |-> IF peers[c] = l THEN None ELSE peers[c]]
    /\ UNCHANGED <<clientVars, netVars, role, handler, authVars, aclVars,
                   troubles>>

-----------------------------------------------------------------------------
(* The client *)

\* A passcode is entered, or the one of the last connection is tried again.
Authenticate(l, right) ==
    /\ using[Owner[l]] = l /\ cli[l].st # "auth" /\ cli[l].n < Tries[l]
    /\ IF right THEN UNCHANGED troubles ELSE Trouble
    /\ cli' = [cli EXCEPT ![l] =
                 [Cleared(cli[l]) EXCEPT
                    !.st = "awaiting", !.n = cli[l].n + 1,
                    !.handle = cli[l].n + 1, !.right = right]]
    /\ ToHost(l, "start", cli[l].n + 1)
    /\ UNCHANGED <<using, toClient, sessVars, handler, authVars, aclVars>>

Read(l, kind) ==
    /\ using[Owner[l]] = l /\ toClient[l] # <<>>
    /\ Head(toClient[l]).kind = kind
    /\ toClient' = [toClient EXCEPT ![l] = Tail(@)]

\* The response must be to the request of the handle, and the passcode right,
\* for the client to finish.
OnResponse(l) ==
    LET a == cli[l]
        m == Head(toClient[l])
    IN
    /\ Read(l, "response")
    /\ \/ /\ m.id = l /\ a.handle # 0 /\ m.n = a.handle /\ a.right
          /\ cli' = [cli EXCEPT ![l].st = "sending", ![l].handle = 0,
                                ![l].cred = a.handle]
          /\ ToHost(l, "finish", a.handle)
       \/ /\ m.id # l \/ (a.handle # 0 /\ (m.n # a.handle \/ ~a.right))
          /\ cli' = [cli EXCEPT ![l] = [Cleared(cli[l]) EXCEPT !.st = "failed"]]
          /\ UNCHANGED toHost
       \/ m.id = l /\ a.handle = 0 /\ UNCHANGED <<cli, toHost>>
    /\ UNCHANGED <<using, sessVars, handler, authVars, aclVars,
                   troubles>>

\* A success ends the attempt that has a credential, and no other.
OnSuccess(l) ==
    /\ Read(l, "success")
    /\ cli' = IF Head(toClient[l]).id = l /\ cli[l].cred # 0
              THEN [cli EXCEPT ![l].st = "auth", ![l].tok = cli[l].cred,
                               ![l].cred = 0]
              ELSE cli
    /\ UNCHANGED <<using, toHost, sessVars, handler, authVars, aclVars,
                   troubles>>

\* A failure names no attempt.
OnFailed(l) ==
    /\ Read(l, "failed")
    /\ cli' = [cli EXCEPT ![l] = [Cleared(cli[l]) EXCEPT !.st = "failed", !.tok = 0]]
    /\ UNCHANGED <<using, toHost, sessVars, handler, authVars, aclVars,
                   troubles>>

-----------------------------------------------------------------------------
(* The host: parse_dc_msg *)

\* Mutant: a peer that has left is served without a session.
TakeUnbound(l) ==
    LET on == peers[Owner[l]]
        m == Head(toHost[l])
    IN
    /\ handler[l].pc = "idle" /\ toHost[l] # <<>>
    /\ toHost' = [toHost EXCEPT ![l] = Tail(@)]
    /\ handler' = IF on # None /\ role[on] # "client" THEN handler
                  ELSE [handler EXCEPT ![l] = [pc |-> m.kind, on |-> on,
                                               n |-> m.n]]
    /\ UNCHANGED <<clientVars, toClient, sessVars, authVars, aclVars,
                   troubles>>

\* The session is looked up by the peer id.  An authenticated client may not
\* log in again: its message is dropped, like that of a peer without session.
Take(l) ==
    LET on == peers[Owner[l]]
        m == Head(toHost[l])
    IN
    /\ handler[l].pc = "idle" /\ toHost[l] # <<>>
    /\ toHost' = [toHost EXCEPT ![l] = Tail(@)]
    /\ handler' = IF on = None \/ role[on] # "client" THEN handler
                  ELSE [handler EXCEPT ![l] = [pc |-> m.kind, on |-> on,
                                               n |-> m.n]]
    /\ UNCHANGED <<clientVars, toClient, sessVars, authVars, aclVars,
                   troubles>>

\* Mutant: a refusal is only logged.
BeginQuietly(l) ==
    LET h == handler[l]
        x == Exchange(l, h.n)
    IN
    /\ h.pc = "start"
    /\ IF Young(l)
       THEN /\ UNCHANGED toClient
            /\ pend' = [a \in Links |-> IF Young(a) THEN pend[a] ELSE NoPending]
            /\ UNCHANGED <<timers, late>>
       ELSE /\ pend' = [a \in Links |->
                          IF a = l THEN [n |-> h.n, scope |-> h.on]
                          ELSE IF Young(a) THEN pend[a] ELSE NoPending]
            /\ timers' = timers \cup {x}
            /\ late' = IF sess[h.on] \in {"cancelled", "gone"}
                       THEN late \cup {x} ELSE late
            /\ Reply(l, "response", h.n)
    /\ Done(l)
    /\ UNCHANGED <<clientVars, toHost, sessVars, old, tokens, aclVars,
                   troubles>>

\* begin_opaque_login drops what is old and refuses an id in use; an expiry
\* task is spawned.
Begin(l) ==
    LET h == handler[l]
        x == Exchange(l, h.n)
    IN
    /\ h.pc = "start"
    /\ IF Young(l)
       THEN /\ Reply(l, "failed", h.n)
            /\ pend' = [a \in Links |-> IF Young(a) THEN pend[a] ELSE NoPending]
            /\ UNCHANGED <<timers, late>>
       ELSE /\ pend' = [a \in Links |->
                          IF a = l THEN [n |-> h.n, scope |-> h.on]
                          ELSE IF Young(a) THEN pend[a] ELSE NoPending]
            /\ timers' = timers \cup {x}
            /\ late' = IF sess[h.on] \in {"cancelled", "gone"}
                       THEN late \cup {x} ELSE late
            /\ Reply(l, "response", h.n)
    /\ Done(l)
    /\ UNCHANGED <<clientVars, toHost, sessVars, old, tokens, aclVars,
                   troubles>>

\* finish_opaque_login consumes the attempt, whatever comes of it.
Finish(l) ==
    LET h == handler[l] IN
    /\ h.pc = "finish"
    /\ pend' = [pend EXCEPT ![l] = NoPending]
    /\ IF Young(l) /\ pend[l].scope = h.on /\ pend[l].n = h.n
       THEN /\ tokens' = tokens \cup {Exchange(l, h.n)}
            /\ Handle(l, "lock")
            /\ UNCHANGED toClient
       ELSE /\ Reply(l, "failed", h.n)
            /\ Done(l)
            /\ UNCHANGED tokens
    /\ UNCHANGED <<clientVars, toHost, sessVars, timers, old, late, aclVars,
                   troubles>>

-----------------------------------------------------------------------------
(* The host: complete_authenticated_client *)

\* Mutant: the list is read under its lock and written later.
PairUnlocked(l) ==
    /\ handler[l].pc = "lock" /\ lock = None
    /\ IF Owner[l] \in acl
       THEN Handle(l, "role") /\ UNCHANGED lock
       ELSE Handle(l, "persist") /\ UNCHANGED lock
    /\ UNCHANGED <<clientVars, netVars, sessVars, authVars, acl, saved, sig,
                   server, sigOf, troubles, missed>>
Pair(l) ==
    /\ handler[l].pc = "lock" /\ lock = None
    /\ IF Owner[l] \in acl
       THEN Handle(l, "role") /\ UNCHANGED lock
       ELSE Handle(l, "persist") /\ lock' = l
    /\ UNCHANGED <<clientVars, netVars, sessVars, authVars, acl, saved, sig,
                   server, sigOf, troubles, missed>>

\* The config is written aside and renamed; an error may come before the
\* rename or after it, from the permissions.
Persist(l) ==
    /\ handler[l].pc = "persist"
    /\ \/ saved' = acl \cup {Owner[l]} /\ Handle(l, "publish")
          /\ UNCHANGED <<toClient, troubles>>
       \/ /\ Trouble
          /\ saved' \in {saved, acl \cup {Owner[l]}}
          /\ Reply(l, "failed", handler[l].n)
          /\ Handle(l, "revoke")
    /\ UNCHANGED <<clientVars, toHost, sessVars, authVars, acl, lock, sig,
                   server, sigOf, missed>>

\* Mutant: a failed pairing keeps its credential.
RevokeNothing(l) ==
    /\ handler[l].pc = "revoke"
    /\ UNCHANGED tokens
    /\ lock' = None
    /\ Done(l)
    /\ UNCHANGED <<clientVars, netVars, sessVars, pend, timers, old, late, acl,
                   saved, sig, server, sigOf, troubles, missed>>
Revoke(l) ==
    /\ handler[l].pc = "revoke"
    /\ tokens' = tokens \ {Exchange(l, handler[l].n)}
    /\ lock' = None
    /\ Done(l)
    /\ UNCHANGED <<clientVars, netVars, sessVars, pend, timers, old, late, acl,
                   saved, sig, server, sigOf, troubles, missed>>

\* Mutant: the list before the update is sent.
PublishOld(l) ==
    LET list == acl \cup {Owner[l]} IN
    /\ handler[l].pc = "publish"
    /\ IF sigOf[l] = sig.n THEN server' = acl /\ UNCHANGED missed
       ELSE missed' = missed \cup {Owner[l]} /\ UNCHANGED server
    /\ acl' = list
    /\ lock' = None
    /\ Handle(l, "role")
    /\ UNCHANGED <<clientVars, netVars, sessVars, authVars, saved, sig, sigOf,
                   troubles>>

\* The context's signaling client is the one the Offer came by: if the host has
\* connected anew the update is lost, and only logged.
Publish(l) ==
    LET list == acl \cup {Owner[l]} IN
    /\ handler[l].pc = "publish"
    /\ IF sigOf[l] = sig.n THEN server' = list /\ UNCHANGED missed
       ELSE missed' = missed \cup {Owner[l]} /\ UNCHANGED server
    /\ acl' = list
    /\ lock' = None
    /\ Handle(l, "role")
    /\ UNCHANGED <<clientVars, netVars, sessVars, authVars, saved, sig, sigOf,
                   troubles>>

GrantRole(l) ==
    /\ handler[l].pc = "role"
    /\ role' = [role EXCEPT ![handler[l].on] = "authenticated"]
    /\ Handle(l, "reply")
    /\ UNCHANGED <<clientVars, netVars, sess, peers, authVars, aclVars,
                   troubles>>

Succeed(l) ==
    /\ handler[l].pc = "reply"
    /\ Reply(l, "success", handler[l].n)
    /\ Done(l)
    /\ UNCHANGED <<clientVars, toHost, sessVars, authVars, aclVars,
                   troubles>>

-----------------------------------------------------------------------------
(* Time and signaling *)

Age(x) ==
    /\ x \in timers \ old /\ Trouble
    /\ old' = old \cup {x}
    /\ UNCHANGED <<clientVars, netVars, sessVars, handler, pend, timers, tokens,
                   late, aclVars>>

\* Mutant: the creation times are not compared.
ExpireAny(x) ==
    /\ x \in timers \cap old
    /\ timers' = timers \ {x} /\ old' = old \ {x}
    /\ pend' = IF pend[x.link].n # 0 THEN [pend EXCEPT ![x.link] = NoPending]
               ELSE pend
    /\ UNCHANGED <<clientVars, netVars, sessVars, handler, tokens, late,
                   aclVars, troubles>>

\* The expiry task removes the login it was spawned for and no later one.
Expire(x) ==
    /\ x \in timers \cap old
    /\ timers' = timers \ {x} /\ old' = old \ {x}
    /\ pend' = IF pend[x.link].n = x.n THEN [pend EXCEPT ![x.link] = NoPending]
               ELSE pend
    /\ UNCHANGED <<clientVars, netVars, sessVars, handler, tokens, late,
                   aclVars, troubles>>

\* The signaling connection ends and the loop connects again: the host is
\* registered with an empty list...
Reconnect ==
    /\ Trouble
    /\ sig' = [n |-> sig.n + 1, published |-> FALSE]
    /\ server' = {}
    /\ UNCHANGED <<clientVars, netVars, sessVars, handler, authVars, acl, saved,
                   lock, sigOf, missed>>

\* ... until it has the lock of its own and publishes it.
Republish ==
    /\ ~sig.published /\ lock = None
    /\ sig' = [sig EXCEPT !.published = TRUE]
    /\ server' = acl /\ missed' = {}
    /\ UNCHANGED <<clientVars, netVars, sessVars, handler, authVars, acl, saved,
                   lock, sigOf, troubles>>

Client(l) == \/ \E right \in BOOLEAN : Authenticate(l, right)
             \/ OnResponse(l) \/ OnSuccess(l) \/ OnFailed(l)
Handler(l) == Take(l) \/ Begin(l) \/ Finish(l) \/ Pair(l) \/ Persist(l)
              \/ Revoke(l) \/ Publish(l) \/ GrantRole(l) \/ Succeed(l)
Link(l) == Open(l) \/ Down(l) \/ Cancel(l) \/ Leave(l)

Next ==
    \/ \E l \in Links : Client(l) \/ Handler(l) \/ Link(l)
    \/ \E x \in Exchanges : Age(x) \/ Expire(x)
    \/ Reconnect \/ Republish

Spec == Init /\ [][Next]_vars

-----------------------------------------------------------------------------
(* Properties *)

\* The authenticated role is granted to a session only after its client has
\* proved itself, and with everything a login leaves behind: the credential is
\* there and the client is in the list, in memory and on disk.  Two pairings at
\* a time lose nobody.
RoleIsEarned ==
    \A l \in Links : role[l] = "authenticated" =>
        /\ \E x \in tokens : Owner[x.link] = Owner[l]
        /\ Owner[l] \in acl \cap saved

\* What the client takes for its credential is one the host accepts, and what the
\* host accepts is, at rest, of a client in the list: a failed pairing leaves no
\* credential behind.
CredentialsAgree ==
    /\ \A l \in Links : cli[l].st = "auth" => Exchange(l, cli[l].tok) \in tokens
    /\ \A x \in tokens : Owner[x.link] \in acl \/ handler[x.link].pc # "idle"

\* A pending login will be cleared: an expiry task is under way for it, and its
\* session has not been torn down without it, unless it began after that.
PendingCleared ==
    \A l \in Links : pend[l].n # 0 =>
        /\ Exchange(l, pend[l].n) \in timers
        /\ sess[pend[l].scope] \in {"live", "closing"}
               \/ Exchange(l, pend[l].n) \in late

\* A client that waits has something to wait for, as long as its link is there
\* and the host has not already let it in: a request or an answer under way, or
\* a handler that owes one.
AnswerOwed ==
    \A l \in Links :
        (/\ using[Owner[l]] = l /\ cli[l].st \in {"awaiting", "sending"}
         /\ sess[l] = "live" /\ role[l] = "client")
            => toHost[l] # <<>> \/ toClient[l] # <<>> \/ handler[l].pc # "idle"

\* At rest the server has the host's list, but for those paired over a signaling
\* connection that had been replaced.
ListPublished ==
    (lock = None /\ sig.published) =>
        server \subseteq acl /\ acl \ missed \subseteq server

\* No expiry task ends a login that is younger than 30 s: only its own finish
\* or the end of its session does.
YoungKept ==
    [][\A l \in Links :
        (Young(l) /\ pend'[l].n # pend[l].n) =>
            \/ handler[l].pc = "finish"
            \/ sess[pend[l].scope] = "closing"]_vars

=============================================================================
