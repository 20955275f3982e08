------------------------------ MODULE LoginProofs ------------------------------
(***************************************************************************)
(* Theorems about logins and pairing, for any number of clients, links,    *)
(* tries and troubles.                                                     *)
(***************************************************************************)
EXTENDS Login, QueueLemmas

-----------------------------------------------------------------------------
(* The inductive invariant, part by part *)

Requests == [kind : {"start", "finish"}, n : Nat]
Answers  == [kind : {"response", "success", "failed"}, id : Links, n : Nat]
Attempts == [st : AuthStates, n : Nat, handle : Nat, cred : Nat, tok : Nat,
             right : BOOLEAN]
Handlings == [pc : HandlerPcs, on : Links \cup {None}, n : Nat]

\* The types, as functions and without the bounds that depend on the link.
ClientTyped ==
    /\ using \in [Clients -> Links \cup {None}]
    /\ cli \in [Links -> Attempts]
NetTyped ==
    /\ toHost \in [Links -> Seq(Requests)]
    /\ toClient \in [Links -> Seq(Answers)]
SessTyped ==
    /\ sess \in [Links -> {"none", "live", "closing", "cancelled", "gone"}]
    /\ role \in [Links -> {"client", "authenticated"}]
    /\ peers \in [Clients -> Links \cup {None}]
HandlerTyped == handler \in [Links -> Handlings]
AuthTyped ==
    /\ pend \in [Links -> [n : Nat, scope : Links \cup {None}]]
    /\ timers \subseteq Exchanges /\ old \subseteq Exchanges
    /\ tokens \subseteq Exchanges /\ late \subseteq Exchanges
AclTyped ==
    /\ acl \subseteq Clients /\ saved \subseteq Clients /\ server \subseteq Clients
    /\ missed \subseteq Clients
    /\ lock \in Links \cup {None}
    /\ sig \in [n : Nat \ {0}, published : BOOLEAN]
    /\ sigOf \in [Links -> Nat]
    /\ troubles \in 0 .. MaxTroubles
    /\ sig.n <= troubles + 1
    /\ \A l \in Links : sigOf[l] <= sig.n
Typed == ClientTyped /\ NetTyped /\ SessTyped /\ HandlerTyped /\ AuthTyped /\ AclTyped

\* No number of a try is larger than the last one of its link.
Numbered ==
    \A l \in Links :
        /\ cli[l].n <= Tries[l]
        /\ cli[l].handle \in {0, cli[l].n} /\ cli[l].cred \in {0, cli[l].n}
        /\ cli[l].tok <= cli[l].n
        /\ Ascending(toHost[l])
        /\ \A m \in Items(toHost[l]) :
              m.n \in 1 .. cli[l].n /\ handler[l].n <= m.n
        /\ handler[l].on = None <=> handler[l].pc = "idle"
        /\ handler[l].n <= cli[l].n
        /\ handler[l].pc # "idle" => handler[l].n >= 1
        /\ \A m \in Items(toClient[l]) : m.id = l => m.n \in 1 .. cli[l].n
        /\ pend[l].n <= cli[l].n
        /\ pend[l].n = 0 <=> pend[l].scope = None

\* Links, sessions and entries of one client, and what a link is before it is
\* there.  A message of a live link is handled with its own session.
Placed ==
    /\ \A c \in Clients :
        /\ using[c] # None => Owner[using[c]] = c /\ sess[using[c]] # "none"
        /\ peers[c] # None => Owner[peers[c]] = c /\ sess[peers[c]] # "none"
    /\ \A l \in Links :
        /\ sess[l] = "live" => peers[Owner[l]] = l
        /\ sess[l] = "none" =>
              /\ cli[l] = NoAttempt /\ handler[l] = Idle
              /\ toHost[l] = <<>> /\ toClient[l] = <<>>
        /\ handler[l].pc # "idle" =>
              /\ Owner[handler[l].on] = Owner[l]
              /\ sess[handler[l].on] # "none"
              /\ sess[l] = "live" => handler[l].on = l

Proven == {"lock", "persist", "publish", "revoke", "role", "reply"}

\* Who has the lock of the list is about to add a client that is not in it.
Pairing ==
    /\ acl \subseteq saved
    /\ lock # None => Owner[lock] \notin acl
    /\ \A l \in Links :
        /\ handler[l].pc \in {"persist", "publish", "revoke"} <=> lock = l
        /\ handler[l].pc = "publish" => Owner[l] \in saved
        /\ handler[l].pc \in {"role", "reply"} => Owner[l] \in acl
        /\ handler[l].pc = "reply" => role[handler[l].on] = "authenticated"
        /\ handler[l].pc \in Proven => Exchange(l, handler[l].n) \in tokens

\* What a success says is so, and a session that got one takes no more logins.
Successes ==
    \A l \in Links : \A m \in Items(toClient[l]) :
        (m.kind = "success" /\ m.id = l) =>
            /\ role[l] = "authenticated" /\ handler[l].on # l
            /\ Owner[l] \in acl /\ Exchange(l, m.n) \in tokens

\* Credentials, at the client and at the host.
Credited ==
    /\ \A l \in Links : cli[l].st = "auth" =>
        Owner[l] \in acl /\ Exchange(l, cli[l].tok) \in tokens
    /\ \A x \in tokens :
        \/ Owner[x.link] \in acl
        \/ /\ handler[x.link].pc \in {"lock", "persist", "publish", "revoke"}
           /\ handler[x.link].n = x.n

\* The finish of a try is on its way, handled or answered.
Finishing(l, n) ==
    \/ \E m \in Items(toHost[l]) : m.kind = "finish" /\ m.n = n
    \/ /\ handler[l].pc \in {"finish", "lock", "persist", "publish", "role",
                             "reply"}
       /\ handler[l].n = n
    \/ \E m \in Items(toClient[l]) : m.kind = "success" /\ m.id = l /\ m.n = n

\* Until then the client has the credential of that try or none, and no response
\* is coming that would give it another.
OneFinish ==
    \A l \in Links : \A n \in 1 .. cli[l].n : Finishing(l, n) =>
        /\ n = cli[l].n => cli[l].handle = 0
        /\ cli[l].cred \in {0, n}
        /\ \A m \in Items(toClient[l]) :
              (m.kind = "response" /\ m.id = l) => m.n # cli[l].handle

\* A client that waits on a live link is owed an answer, each state its own.
Waits(l) == using[Owner[l]] = l /\ sess[l] = "live" /\ role[l] = "client"
Owed ==
    \A l \in Links : Waits(l) =>
        /\ cli[l].st = "awaiting" =>
            /\ cli[l].handle # 0
            /\ \/ \E m \in Items(toHost[l]) : m.kind = "start"
               \/ handler[l].pc = "start"
               \/ \E m \in Items(toClient[l]) : m.kind \in {"failed", "response"}
        /\ cli[l].st = "sending" =>
            /\ cli[l].handle = 0
            /\ \/ \E m \in Items(toHost[l]) : m.kind = "finish"
               \/ handler[l].pc \in {"finish", "lock", "persist", "publish", "role"}
               \/ \E m \in Items(toClient[l]) : m.kind = "failed"

Published ==
    /\ server \subseteq acl
    /\ sig.published => acl \ missed \subseteq server

IInv == Typed /\ Numbered /\ Placed /\ Pairing /\ Successes /\ Credited
        /\ OneFinish /\ Owed /\ Published /\ RoleIsEarned /\ PendingCleared


-----------------------------------------------------------------------------
(* What the operators of the model do *)

LEMMA ExchangeFacts ==
    /\ \A l, n : Exchange(l, n).link = l /\ Exchange(l, n).n = n
    /\ \A l \in Links : \A n \in 1 .. Tries[l] : Exchange(l, n) \in Exchanges
    /\ \A x \in Exchanges :
          /\ x.link \in Links /\ x.n \in 1 .. Tries[x.link]
          /\ x = Exchange(x.link, x.n)
BY DEF Exchange, Exchanges

\* What a handler sends is in the queue of the session it found or nowhere, and
\* there if the client still listens to it.
LEMMA ReplyEffect ==
    ASSUME Typed, Placed, NEW l \in Links, handler[l].pc # "idle",
           handler[l].on \in Links,
           NEW kind \in {"response", "success", "failed"}, NEW n \in Nat,
           Reply(l, kind, n)
    PROVE  LET on == handler[l].on
               m  == [kind |-> kind, id |-> l, n |-> n]
           IN  /\ toClient' \in [Links -> Seq(Answers)]
               /\ \A k \in Links : k # on => toClient'[k] = toClient[k]
               /\ \A k \in Links :
                     /\ Items(toClient[k]) \subseteq Items(toClient'[k])
                     /\ Items(toClient'[k]) \subseteq Items(toClient[k]) \cup {m}
               /\ \A k \in Links : sess[k] = "none" => toClient'[k] = toClient[k]
               /\ Waits(on) => m \in Items(toClient'[on])
<1> DEFINE on == handler[l].on
           m  == [kind |-> kind, id |-> l, n |-> n]
<1>1. m \in Answers /\ on \in Links /\ toClient \in [Links -> Seq(Answers)]
    BY DEF Answers, Typed, NetTyped
<1>2. CASE sess[on] = "live" /\ using[Owner[on]] = on
    <2>1. toClient' = [toClient EXCEPT ![on] = Append(@, m)]
      BY <1>2 DEF Reply
    <2>2. /\ Append(toClient[on], m) \in Seq(Answers)
          /\ Items(Append(toClient[on], m)) = Items(toClient[on]) \cup {m}
      BY <1>1, ItemsAppend
    <2> QED
      BY <1>1, <1>2, <2>1, <2>2
<1>3. CASE ~(sess[on] = "live" /\ using[Owner[on]] = on)
    <2>1. toClient' = toClient
      BY <1>3 DEF Reply
    <2> QED
      BY <1>1, <1>3, <2>1 DEF Waits
<1> QED
    BY <1>2, <1>3

\* What the client sends is the last of the queue to the host.
LEMMA ToHostEffect ==
    ASSUME Typed, NEW l \in Links, NEW kind \in {"start", "finish"}, NEW n \in Nat,
           ToHost(l, kind, n)
    PROVE  LET m == [kind |-> kind, n |-> n] IN
           /\ toHost' \in [Links -> Seq(Requests)]
           /\ \A k \in Links : k # l => toHost'[k] = toHost[k]
           /\ toHost'[l] = Append(toHost[l], m)
           /\ Items(toHost'[l]) = Items(toHost[l]) \cup {m}
<1> DEFINE m == [kind |-> kind, n |-> n]
<1>1. m \in Requests /\ toHost \in [Links -> Seq(Requests)]
    BY DEF Requests, Typed, NetTyped
<1>2. /\ Append(toHost[l], m) \in Seq(Requests)
      /\ Items(Append(toHost[l], m)) = Items(toHost[l]) \cup {m}
    BY <1>1, ItemsAppend
<1> QED
    BY <1>1, <1>2 DEF ToHost

\* What the client reads is the first of the queue from the host.
LEMMA ReadEffect ==
    ASSUME Typed, NEW l \in Links, NEW kind, Read(l, kind)
    PROVE  LET m == Head(toClient[l]) IN
           /\ m \in Answers /\ m.kind = kind /\ using[Owner[l]] = l
           /\ toClient' \in [Links -> Seq(Answers)]
           /\ \A k \in Links : k # l => toClient'[k] = toClient[k]
           /\ toClient[l] # <<>>
           /\ Items(toClient[l]) = {m} \cup Items(toClient'[l])
<1>1. toClient \in [Links -> Seq(Answers)] /\ toClient[l] # <<>>
    BY DEF Typed, NetTyped, Read
<1>2. /\ Head(toClient[l]) \in Answers /\ Tail(toClient[l]) \in Seq(Answers)
      /\ Items(toClient[l]) = {Head(toClient[l])} \cup Items(Tail(toClient[l]))
    BY <1>1, ItemsTail
<1> QED
    BY <1>1, <1>2 DEF Read

\* An attempt whose OPAQUE state is cleared keeps the rest.
LEMMA ClearedEffect ==
    ASSUME NEW a \in Attempts
    PROVE  /\ Cleared(a) \in Attempts
           /\ Cleared(a).handle = 0 /\ Cleared(a).cred = 0
           /\ Cleared(a).st = a.st /\ Cleared(a).n = a.n /\ Cleared(a).tok = a.tok
           /\ Cleared(a).right = a.right
BY DEF Attempts, Cleared

\* A handler that goes on, and one that ends.
LEMMA HandleEffect ==
    ASSUME Typed, NEW l \in Links, NEW pc \in HandlerPcs, Handle(l, pc)
    PROVE  /\ HandlerTyped'
           /\ \A k \in Links : k # l => handler'[k] = handler[k]
           /\ handler'[l].pc = pc /\ handler'[l].on = handler[l].on
           /\ handler'[l].n = handler[l].n
BY DEF Typed, HandlerTyped, Handlings, Handle

LEMMA DoneEffect ==
    ASSUME Typed, NEW l \in Links, Done(l)
    PROVE  /\ HandlerTyped'
           /\ \A k \in Links : k # l => handler'[k] = handler[k]
           /\ handler'[l].pc = "idle" /\ handler'[l].on = None /\ handler'[l].n = 0
BY DEF Typed, HandlerTyped, Handlings, HandlerPcs, Done, Idle, None

-----------------------------------------------------------------------------
(* What each part of the invariant depends on *)

\* A step that leaves alone the variables of a part leaves the part alone.
LEMMA Frames ==
    /\ Typed /\ UNCHANGED clientVars => ClientTyped'
    /\ Typed /\ UNCHANGED netVars => NetTyped'
    /\ Typed /\ UNCHANGED sessVars => SessTyped'
    /\ Typed /\ UNCHANGED handler => HandlerTyped'
    /\ Typed /\ UNCHANGED authVars => AuthTyped'
    /\ Typed /\ UNCHANGED <<aclVars, troubles>> => AclTyped'
    /\ Numbered /\ UNCHANGED <<cli, toHost, toClient, handler, pend>> => Numbered'
    /\ Placed /\ UNCHANGED <<using, cli, toHost, toClient, sess, peers, handler>>
          => Placed'
    /\ Pairing /\ UNCHANGED <<acl, saved, lock, handler, role, tokens>> => Pairing'
    /\ Successes /\ UNCHANGED <<toClient, role, handler, acl, tokens>> => Successes'
    /\ Credited /\ UNCHANGED <<cli, acl, tokens, handler>> => Credited'
    /\ OneFinish /\ UNCHANGED <<cli, toHost, toClient, handler>> => OneFinish'
    /\ Owed /\ UNCHANGED <<using, sess, role, cli, toHost, toClient, handler>>
          => Owed'
    /\ Published /\ UNCHANGED <<server, acl, sig, missed>> => Published'
    /\ RoleIsEarned /\ UNCHANGED <<role, tokens, acl, saved>> => RoleIsEarned'
    /\ PendingCleared /\ UNCHANGED <<pend, timers, sess, late>> => PendingCleared'
<1>1. Typed /\ UNCHANGED clientVars => ClientTyped'
    BY DEF Typed, ClientTyped, clientVars
<1>2. Typed /\ UNCHANGED netVars => NetTyped'
    BY DEF Typed, NetTyped, netVars
<1>3. Typed /\ UNCHANGED sessVars => SessTyped'
    BY DEF Typed, SessTyped, sessVars
<1>4. Typed /\ UNCHANGED handler => HandlerTyped'
    BY DEF Typed, HandlerTyped
<1>5. Typed /\ UNCHANGED authVars => AuthTyped'
    BY DEF Typed, AuthTyped, authVars
<1>6. Typed /\ UNCHANGED <<aclVars, troubles>> => AclTyped'
    BY DEF Typed, AclTyped, aclVars
<1>7. Numbered /\ UNCHANGED <<cli, toHost, toClient, handler, pend>> => Numbered'
    BY DEF Numbered
<1>8. Placed /\ UNCHANGED <<using, cli, toHost, toClient, sess, peers, handler>>
          => Placed'
    BY DEF Placed
<1>9. Pairing /\ UNCHANGED <<acl, saved, lock, handler, role, tokens>> => Pairing'
    BY DEF Pairing
<1>10. Successes /\ UNCHANGED <<toClient, role, handler, acl, tokens>> => Successes'
    BY DEF Successes
<1>11. Credited /\ UNCHANGED <<cli, acl, tokens, handler>> => Credited'
    BY DEF Credited
<1>12. OneFinish /\ UNCHANGED <<cli, toHost, toClient, handler>> => OneFinish'
    BY DEF OneFinish, Finishing
<1>13. Owed /\ UNCHANGED <<using, sess, role, cli, toHost, toClient, handler>>
          => Owed'
    BY DEF Owed, Waits
<1>14. Published /\ UNCHANGED <<server, acl, sig, missed>> => Published'
    BY DEF Published
<1>15. RoleIsEarned /\ UNCHANGED <<role, tokens, acl, saved>> => RoleIsEarned'
    BY DEF RoleIsEarned
<1>16. PendingCleared /\ UNCHANGED <<pend, timers, sess, late>> => PendingCleared'
    BY DEF PendingCleared
<1> QED
    BY <1>1, <1>2, <1>3, <1>4, <1>5, <1>6, <1>7, <1>8, <1>9, <1>10, <1>11, <1>12,
       <1>13, <1>14, <1>15, <1>16

-----------------------------------------------------------------------------
(* The initial states *)

LEMMA InitHolds == Init => IInv
<1> SUFFICES ASSUME Init PROVE IInv
    OBVIOUS
<1>1. \A l \in Links : l # None
    BY LoginAssumption DEF None
<1>2. \A l \in Links : Items(toHost[l]) = {} /\ Items(toClient[l]) = {}
    BY DEF Init, Items
<1>3. Typed
    <2>1. ClientTyped /\ NetTyped /\ SessTyped /\ HandlerTyped
      BY DEF Init, ClientTyped, NetTyped, SessTyped, HandlerTyped, NoAttempt, Idle,
             Attempts, AuthStates, Handlings, HandlerPcs
    <2>2. AuthTyped /\ AclTyped
      BY LoginAssumption DEF Init, AuthTyped, AclTyped, NoPending, None
    <2> QED
      BY <2>1, <2>2 DEF Typed
<1>4. Numbered
    <2>1. \A l \in Links : Tries[l] \in Nat /\ Ascending(toHost[l])
      BY LoginAssumption DEF Init, Ascending
    <2> QED
      BY <1>2, <2>1 DEF Init, Numbered, NoAttempt, Idle, NoPending, None
<1>5. Placed /\ Pairing
    BY <1>1 DEF Init, Placed, Pairing, Idle, Proven
<1>6. Successes /\ Credited /\ OneFinish /\ Owed /\ Published
    BY <1>2 DEF Init, Successes, Credited, OneFinish, Finishing, Owed, Waits,
                Published, NoAttempt, Idle
<1>7. RoleIsEarned /\ PendingCleared
    BY DEF Init, RoleIsEarned, PendingCleared, NoPending
<1> QED
    BY <1>3, <1>4, <1>5, <1>6, <1>7 DEF IInv

-----------------------------------------------------------------------------
(* The steps of the links *)

LEMMA DownStep ==
    ASSUME IInv, NEW l \in Links, Down(l) PROVE IInv'
<1>1. /\ sess[l] = "live" /\ sess' = [sess EXCEPT ![l] = "closing"]
      /\ troubles < MaxTroubles /\ troubles' = troubles + 1
      /\ UNCHANGED <<clientVars, netVars, role, peers, handler, authVars, aclVars>>
    BY DEF Down, Trouble
<1>2. Typed'
    <2>1. SessTyped' /\ AclTyped'
      BY <1>1, LoginAssumption DEF IInv, Typed, SessTyped, AclTyped, aclVars
    <2> QED
      BY <1>1, <2>1, Frames DEF IInv, Typed
<1>3. Placed'
    BY <1>1 DEF IInv, Typed, SessTyped, Placed, clientVars, netVars
<1>4. Owed'
    BY <1>1 DEF IInv, Typed, SessTyped, Owed, Waits, clientVars, netVars
<1>5. PendingCleared'
    BY <1>1 DEF IInv, Typed, SessTyped, AuthTyped, Numbered, PendingCleared, authVars
<1>6. /\ Numbered' /\ Pairing' /\ Successes' /\ Credited' /\ OneFinish'
      /\ Published' /\ RoleIsEarned'
    BY <1>1, Frames DEF IInv, clientVars, netVars, authVars, aclVars
<1> QED
    BY <1>2, <1>3, <1>4, <1>5, <1>6 DEF IInv

LEMMA CancelStep ==
    ASSUME IInv, NEW l \in Links, Cancel(l) PROVE IInv'
<1>1. /\ sess[l] = "closing" /\ sess' = [sess EXCEPT ![l] = "cancelled"]
      /\ pend' = [a \in Links |-> IF pend[a].scope = l THEN NoPending ELSE pend[a]]
      /\ UNCHANGED <<clientVars, netVars, role, peers, handler, timers, old, tokens,
                     late, aclVars, troubles>>
    BY DEF Cancel
<1>2. Typed'
    <2>1. SessTyped' /\ AuthTyped'
      BY <1>1 DEF IInv, Typed, SessTyped, AuthTyped, NoPending, None
    <2> QED
      BY <1>1, <2>1, Frames DEF IInv, Typed
<1>3. Numbered'
    <2>1. \A k \in Links : \/ pend'[k] = pend[k]
                           \/ pend'[k].n = 0 /\ pend'[k].scope = None
      BY <1>1 DEF NoPending, None
    <2> QED
      BY <1>1, <2>1 DEF IInv, Typed, ClientTyped, Attempts, Numbered, clientVars,
                        netVars
<1>4. Placed'
    BY <1>1 DEF IInv, Typed, SessTyped, Placed, clientVars, netVars
<1>5. Owed'
    BY <1>1 DEF IInv, Typed, SessTyped, Owed, Waits, clientVars, netVars
<1>6. PendingCleared'
    BY <1>1 DEF IInv, Typed, SessTyped, AuthTyped, Numbered, PendingCleared, NoPending
<1>7. /\ Pairing' /\ Successes' /\ Credited' /\ OneFinish' /\ Published'
      /\ RoleIsEarned'
    BY <1>1, Frames DEF IInv, clientVars, netVars, aclVars
<1> QED
    BY <1>2, <1>3, <1>4, <1>5, <1>6, <1>7 DEF IInv

LEMMA LeaveStep ==
    ASSUME IInv, NEW l \in Links, Leave(l) PROVE IInv'
<1>1. /\ sess[l] = "cancelled" /\ sess' = [sess EXCEPT ![l] = "gone"]
      /\ peers' = [c \in Clients |-> IF peers[c] = l THEN None ELSE peers[c]]
      /\ UNCHANGED <<clientVars, netVars, role, handler, authVars, aclVars, troubles>>
    BY DEF Leave
<1>2. Typed'
    <2>1. SessTyped'
      BY <1>1 DEF IInv, Typed, SessTyped
    <2> QED
      BY <1>1, <2>1, Frames DEF IInv, Typed
<1>3. Placed'
    <2>1. \A c \in Clients : using[c] # None => using[c] \in Links
      BY DEF IInv, Typed, ClientTyped
    <2>2. \A k \in Links : Owner[k] \in Clients /\ k # None
      BY LoginAssumption DEF None
    <2> QED
      BY <1>1, <2>1, <2>2 DEF IInv, Typed, SessTyped, Placed, clientVars, netVars
<1>4. Owed'
    BY <1>1 DEF IInv, Typed, SessTyped, Owed, Waits, clientVars, netVars
<1>5. PendingCleared'
    BY <1>1 DEF IInv, Typed, SessTyped, AuthTyped, Numbered, PendingCleared, authVars
<1>6. /\ Numbered' /\ Pairing' /\ Successes' /\ Credited' /\ OneFinish'
      /\ Published' /\ RoleIsEarned'
    BY <1>1, Frames DEF IInv, clientVars, netVars, authVars, aclVars
<1> QED
    BY <1>2, <1>3, <1>4, <1>5, <1>6 DEF IInv

LEMMA OpenStep ==
    ASSUME IInv, NEW l \in Links, Open(l) PROVE IInv'
<1> DEFINE c == Owner[l]
<1>1. /\ sess[l] = "none"
      /\ using' = [using EXCEPT ![c] = l] /\ peers' = [peers EXCEPT ![c] = l]
      /\ toClient' = [k \in Links |-> IF k = using[c] THEN <<>> ELSE toClient[k]]
      /\ sess' = [k \in Links |-> IF k = l THEN "live"
                                  ELSE IF k = peers[c] /\ sess[k] = "live"
                                       THEN "closing" ELSE sess[k]]
      /\ sigOf' = [sigOf EXCEPT ![l] = sig.n]
      /\ UNCHANGED <<toHost, role, handler, authVars, acl, saved, lock, sig, server,
                     missed>>
    BY DEF Open
<1>2. /\ c \in Clients /\ \A k \in Links : Owner[k] \in Clients /\ k # None
      /\ using \in [Clients -> Links \cup {None}]
      /\ cli \in [Links -> Attempts]
    BY LoginAssumption DEF IInv, Typed, ClientTyped, None
<1>3. /\ cli' \in [Links -> Attempts]
      /\ \A k \in Links : k # using[c] => cli'[k] = cli[k]
      /\ \A k \in Links : cli'[k].n = cli[k].n
      /\ \A k \in Links : k = using[c] => cli'[k].handle = 0 /\ cli'[k].cred = 0
      /\ \A k \in Links : \/ cli'[k] = cli[k]
                          \/ /\ cli'[k].st = "idle" /\ cli'[k].handle = 0
                             /\ cli'[k].cred = 0 /\ cli'[k].tok = 0
    <2>1. CASE using[c] = None
      BY <1>2, <2>1 DEF Open
    <2>2. CASE using[c] # None
      <3> DEFINE a == [NoAttempt EXCEPT !.n = cli[using[c]].n]
      <3>1. using[c] \in Links /\ cli' = [cli EXCEPT ![using[c]] = a]
        BY <1>2, <2>2 DEF Open
      <3>2. /\ a \in Attempts /\ a.n = cli[using[c]].n
            /\ a.st = "idle" /\ a.handle = 0 /\ a.cred = 0 /\ a.tok = 0
        BY <1>2, <3>1 DEF NoAttempt, Attempts, AuthStates
      <3> HIDE DEF a
      <3> QED
        BY <1>2, <3>1, <3>2
    <2> QED
      BY <2>1, <2>2
<1>4. \A k \in Links :
        /\ k # using[c] => toClient'[k] = toClient[k]
        /\ k = using[c] => Items(toClient'[k]) = {}
        /\ Items(toClient'[k]) \subseteq Items(toClient[k])
    BY <1>1 DEF Items
<1>5. \/ using[c] # l /\ sess[using[c]] # "none"
      \/ using[c] = None
    BY <1>1, <1>2 DEF IInv, Placed
<1>5a. UNCHANGED <<toHost, role, handler, pend, tokens, acl>>
    BY <1>1 DEF authVars
<1>6. Typed'
    <2>1. ClientTyped'
      BY <1>1, <1>2, <1>3 DEF ClientTyped
    <2>2. NetTyped'
      BY <1>1 DEF IInv, Typed, NetTyped
    <2>3. SessTyped'
      BY <1>1, <1>2 DEF IInv, Typed, SessTyped
    <2>4. HandlerTyped' /\ AuthTyped'
      BY <1>1, Frames DEF IInv
    <2>5. AclTyped'
      <3>1. troubles' = troubles \/ (troubles < MaxTroubles /\ troubles' = troubles + 1)
        BY DEF Open, Trouble
      <3> QED
        BY <1>1, <3>1, LoginAssumption DEF IInv, Typed, AclTyped
    <2> QED
      BY <2>1, <2>2, <2>3, <2>4, <2>5 DEF Typed
<1>7. Numbered'
    <2> SUFFICES ASSUME NEW k \in Links
                 PROVE  /\ cli'[k].handle \in {0, cli[k].n}
                        /\ cli'[k].cred \in {0, cli[k].n}
                        /\ cli'[k].tok <= cli[k].n
      BY <1>3, <1>4, <1>5a DEF IInv, Numbered
    <2>1. cli[k].n \in Nat
      BY <1>2 DEF Attempts
    <2> QED
      BY <1>3, <2>1 DEF IInv, Numbered
<1>8. Placed'
    <2>1. \A d \in Clients :
            /\ using'[d] # None => Owner[using'[d]] = d /\ sess'[using'[d]] # "none"
            /\ peers'[d] # None => Owner[peers'[d]] = d /\ sess'[peers'[d]] # "none"
      BY <1>1, <1>2 DEF IInv, Typed, SessTyped, Placed
    <2>2. ASSUME NEW k \in Links
          PROVE  /\ sess'[k] = "live" => peers'[Owner[k]] = k
                 /\ sess'[k] = "none" => k # l /\ sess[k] = "none"
      BY <1>1, <1>2 DEF IInv, Typed, SessTyped, Placed
    <2>3. ASSUME NEW k \in Links, sess'[k] = "none"
          PROVE  /\ cli'[k] = NoAttempt /\ handler'[k] = Idle
                 /\ toHost'[k] = <<>> /\ toClient'[k] = <<>>
      BY <1>1, <1>2, <1>3, <1>5, <2>2, <2>3 DEF IInv, Placed
    <2>4. ASSUME NEW k \in Links, handler'[k].pc # "idle"
          PROVE  /\ Owner[handler'[k].on] = Owner[k]
                 /\ sess'[handler'[k].on] # "none"
                 /\ sess'[k] = "live" => handler'[k].on = k
      <3>1. k # l /\ handler[k].on \in Links
        BY <1>1, <2>4 DEF IInv, Typed, HandlerTyped, Handlings, Numbered, Placed, Idle
      <3> QED
        BY <1>1, <2>4, <3>1 DEF IInv, Placed
    <2> QED
      BY <2>1, <2>2, <2>3, <2>4 DEF Placed
<1>9. Pairing' /\ RoleIsEarned'
    BY <1>1, Frames DEF IInv, authVars
<1>10. Successes' /\ Credited' /\ Published'
    <2>1. Successes'
      BY <1>4, <1>5a DEF IInv, Successes
    <2>2. Credited'
      BY <1>1, <1>3 DEF IInv, Credited, authVars
    <2> QED
      BY <1>1, <2>1, <2>2 DEF IInv, Published
<1>11. OneFinish'
    <2> SUFFICES ASSUME NEW k \in Links, NEW n \in 1 .. cli[k].n, Finishing(k, n)'
                 PROVE  /\ n = cli'[k].n => cli'[k].handle = 0
                        /\ cli'[k].cred \in {0, n}
                        /\ \A m \in Items(toClient'[k]) :
                              (m.kind = "response" /\ m.id = k) => m.n # cli'[k].handle
      BY <1>3 DEF OneFinish
    <2>1. CASE k # using[c]
      BY <1>1, <1>3, <1>4, <2>1 DEF IInv, OneFinish, Finishing
    <2>2. CASE k = using[c]
      BY <1>2, <1>3, <1>4, <2>2
    <2> QED
      BY <2>1, <2>2
<1>12. Owed'
    <2> SUFFICES ASSUME NEW k \in Links, Waits(k)'
                 PROVE  cli'[k].st = "idle"
                        \/ /\ Waits(k) /\ cli'[k] = cli[k] /\ toClient'[k] = toClient[k]
      BY <1>1 DEF IInv, Owed
    <2>1. CASE k = l
      BY <1>1, <1>3, <1>5, <1>2, <2>1 DEF IInv, Placed, NoAttempt
    <2>2. CASE k # l
      <3>1. Owner[k] # c /\ sess[k] = "live"
        BY <1>1, <1>2, <2>2 DEF Waits, IInv, Typed, SessTyped
      <3>2. k # using[c]
        BY <1>2, <3>1 DEF IInv, Placed
      <3> QED
        BY <1>1, <1>3, <3>1, <3>2, <1>2 DEF Waits
    <2> QED
      BY <2>1, <2>2
<1>13. PendingCleared'
    BY <1>1 DEF IInv, Typed, SessTyped, AuthTyped, Numbered, PendingCleared, authVars
<1> QED
    BY <1>6, <1>7, <1>8, <1>9, <1>10, <1>11, <1>12, <1>13 DEF IInv

-----------------------------------------------------------------------------
(* The steps of the client *)

LEMMA AuthenticateStep ==
    ASSUME IInv, NEW l \in Links, NEW right \in BOOLEAN, Authenticate(l, right)
    PROVE  IInv'
<1> DEFINE n == cli[l].n + 1
           m == [kind |-> "start", n |-> n]
<1>1. /\ using[Owner[l]] = l /\ cli[l].st # "auth" /\ cli[l].n < Tries[l]
      /\ ToHost(l, "start", n)
      /\ UNCHANGED <<using, toClient, sessVars, handler, authVars, aclVars>>
    BY DEF Authenticate
<1>2. /\ l # None /\ Owner[l] \in Clients /\ Tries[l] \in Nat
      /\ cli \in [Links -> Attempts] /\ cli[l].n \in Nat /\ n \in Nat
    BY LoginAssumption DEF IInv, Typed, ClientTyped, Attempts, None
<1>3. /\ toHost' \in [Links -> Seq(Requests)]
      /\ \A k \in Links : k # l => toHost'[k] = toHost[k]
      /\ toHost'[l] = Append(toHost[l], m)
      /\ Items(toHost'[l]) = Items(toHost[l]) \cup {m}
      /\ m.kind = "start" /\ m.n = n /\ n # 0
    BY <1>1, <1>2, ToHostEffect DEF IInv
<1>4. /\ cli' \in [Links -> Attempts]
      /\ \A k \in Links : k # l => cli'[k] = cli[k]
      /\ cli'[l].st = "awaiting" /\ cli'[l].n = n /\ cli'[l].handle = n
      /\ cli'[l].cred = 0 /\ cli'[l].tok = cli[l].tok
    <2> DEFINE b == Cleared(cli[l])
               a == [b EXCEPT !.st = "awaiting", !.n = cli[l].n + 1,
                              !.handle = cli[l].n + 1, !.right = right]
    <2>1. cli' = [cli EXCEPT ![l] = a]
      BY Zenon DEF Authenticate
    <2>2. b \in Attempts /\ b.n = cli[l].n /\ b.cred = 0 /\ b.tok = cli[l].tok
      BY <1>2, ClearedEffect
    <2> HIDE DEF b
    <2>3. /\ a \in Attempts /\ a.st = "awaiting" /\ a.n = n /\ a.handle = n
          /\ a.cred = 0 /\ a.tok = cli[l].tok
      BY <1>2, <2>2 DEF Attempts, AuthStates
    <2> HIDE DEF a
    <2> QED
      BY <1>2, <2>1, <2>3
<1>5. UNCHANGED <<using, toClient, sess, role, peers, handler, pend, timers, tokens,
                  late, acl, saved, lock, sig, server, missed>>
    BY <1>1 DEF sessVars, authVars, aclVars
<1>6. Typed'
    <2>1. ClientTyped' /\ NetTyped'
      BY <1>3, <1>4, <1>5 DEF IInv, Typed, ClientTyped, NetTyped
    <2>2. troubles' = troubles \/ (troubles < MaxTroubles /\ troubles' = troubles + 1)
      BY DEF Authenticate, Trouble
    <2>3. AclTyped'
      BY <1>1, <2>2, LoginAssumption DEF IInv, Typed, AclTyped, aclVars
    <2> QED
      BY <1>1, <2>1, <2>3, Frames DEF IInv, Typed
<1>7. Numbered'
    <2>1. Ascending(toHost'[l])
      <3>1. toHost[l] \in Seq(Requests) /\ m \in Requests
            /\ \A x \in Requests : x.n \in Nat
        BY <1>2 DEF IInv, Typed, NetTyped, Requests
      <3>2. \A x \in Items(toHost[l]) : x.n <= m.n
        BY <1>2 DEF IInv, Numbered
      <3>3. Ascending(toHost[l])
        BY DEF IInv, Numbered
      <3> HIDE DEF m
      <3> QED
        BY <1>3, <3>1, <3>2, <3>3, AscendingAppend
    <2>2. handler[l].n \in Nat /\ pend[l].n \in Nat
      BY DEF IInv, Typed, HandlerTyped, Handlings, AuthTyped
    <2>3. \A x \in Items(toHost'[l]) : x.n \in 1 .. n /\ handler[l].n <= x.n
      BY <1>2, <1>3, <2>2 DEF IInv, Numbered
    <2>4. \A x \in Items(toClient[l]) : x.id = l => x.n \in 1 .. n
      BY <1>2 DEF IInv, Numbered
    <2>5. cli[l].tok \in Nat /\ cli[l].tok <= n
      BY <1>2 DEF IInv, Numbered, Attempts
    <2> SUFFICES ASSUME NEW k \in Links
                 PROVE  /\ cli'[k].n <= Tries[k]
                        /\ cli'[k].handle \in {0, cli'[k].n}
                        /\ cli'[k].cred \in {0, cli'[k].n}
                        /\ cli'[k].tok <= cli'[k].n
                        /\ Ascending(toHost'[k])
                        /\ \A x \in Items(toHost'[k]) :
                              x.n \in 1 .. cli'[k].n /\ handler[k].n <= x.n
                        /\ handler[k].on = None <=> handler[k].pc = "idle"
                        /\ handler[k].n <= cli'[k].n
                        /\ handler[k].pc # "idle" => handler[k].n >= 1
                        /\ \A x \in Items(toClient[k]) :
                              x.id = k => x.n \in 1 .. cli'[k].n
                        /\ pend[k].n <= cli'[k].n
                        /\ pend[k].n = 0 <=> pend[k].scope = None
      BY <1>5 DEF Numbered
    <2>6. CASE k = l
      BY <1>1, <1>2, <1>4, <2>1, <2>2, <2>3, <2>4, <2>5, <2>6 DEF IInv, Numbered
    <2>7. CASE k # l
      BY <1>3, <1>4, <2>7 DEF IInv, Numbered
    <2> QED
      BY <2>6, <2>7
<1>8. Placed'
    <2>1. sess[l] # "none"
      BY <1>1, <1>2 DEF IInv, Placed
    <2> QED
      BY ZenonT(60), <1>3, <1>4, <1>5, <2>1 DEF IInv, Placed
<1>9. Credited'
    BY <1>4, <1>5 DEF IInv, Credited
<1>10. OneFinish'
    <2> SUFFICES ASSUME NEW k \in Links, NEW i \in 1 .. cli'[k].n, Finishing(k, i)'
                 PROVE  /\ i = cli'[k].n => cli'[k].handle = 0
                        /\ cli'[k].cred \in {0, i}
                        /\ \A x \in Items(toClient[k]) :
                              (x.kind = "response" /\ x.id = k) => x.n # cli'[k].handle
      BY <1>5 DEF OneFinish
    <2>1. CASE k # l
      BY ZenonT(60), <1>3, <1>4, <1>5, <2>1 DEF IInv, OneFinish, Finishing
    <2>2. CASE k = l
      <3>1. i <= cli[l].n
        <4> HIDE DEF m
        <4>1. Finishing(l, i)
          BY <1>3, <1>5, <2>2 DEF Finishing
        <4> QED
          BY <1>2, <4>1 DEF IInv, Numbered, Finishing
      <3>2. \A x \in Items(toClient[l]) : x.id = l => x.n <= cli[l].n
        BY <1>2 DEF IInv, Numbered
      <3>3. \A x \in Items(toClient[l]) : x.id = l => x.n # n
        BY <1>2, <3>2 DEF IInv, Numbered
      <3> QED
        BY <1>2, <1>4, <2>2, <3>1, <3>3
    <2> QED
      BY <2>1, <2>2
<1>11. Owed'
    <2> SUFFICES ASSUME NEW k \in Links, Waits(k)
                 PROVE  \/ k # l /\ cli'[k] = cli[k] /\ toHost'[k] = toHost[k]
                        \/ /\ cli'[k].st = "awaiting" /\ cli'[k].handle # 0
                           /\ \E x \in Items(toHost'[k]) : x.kind = "start"
      BY <1>5 DEF IInv, Owed, Waits
    <2> HIDE DEF m
    <2> QED
      BY <1>2, <1>3, <1>4
<1>12. /\ Pairing' /\ Successes' /\ Published' /\ RoleIsEarned' /\ PendingCleared'
    BY <1>5, Frames DEF IInv
<1> QED
    BY <1>6, <1>7, <1>8, <1>9, <1>10, <1>11, <1>12 DEF IInv

\* What the client does with an answer, but for its attempt: the rest of the
\* invariant depends on what it makes of that.
LEMMA ReadKeeps ==
    ASSUME IInv, NEW l \in Links, NEW kind, Read(l, kind), cli' \in [Links -> Attempts],
           \A k \in Links : k # l => cli'[k] = cli[k],
           toHost' \in [Links -> Seq(Requests)],
           \A k \in Links : k # l => toHost'[k] = toHost[k],
           UNCHANGED <<using, sessVars, handler, authVars, aclVars, troubles>>
    PROVE  /\ Typed' /\ Placed' /\ Successes' /\ Pairing' /\ Published'
           /\ RoleIsEarned' /\ PendingCleared'
<1>1. /\ using[Owner[l]] = l
      /\ toClient' \in [Links -> Seq(Answers)]
      /\ \A k \in Links : k # l => toClient'[k] = toClient[k]
      /\ Items(toClient[l]) = {Head(toClient[l])} \cup Items(toClient'[l])
    BY ReadEffect DEF IInv
<1>2. Owner[l] \in Clients /\ l # None
    BY LoginAssumption DEF None
<1>3. UNCHANGED <<sess, peers, role, handler, acl, tokens>>
    BY DEF sessVars, authVars, aclVars
<1>4. Typed'
    <2>1. ClientTyped' /\ NetTyped'
      BY <1>1 DEF IInv, Typed, ClientTyped, NetTyped
    <2> QED
      BY <2>1, Frames DEF IInv, Typed
<1>5. Placed'
    <2>1. sess[l] # "none"
      BY <1>1, <1>2 DEF IInv, Placed
    <2>2. \A k \in Links : sess[k] = "none" =>
              cli'[k] = cli[k] /\ toHost'[k] = toHost[k] /\ toClient'[k] = toClient[k]
      BY <1>1, <2>1
    <2>3. using' = using
      OBVIOUS
    <2> QED
      BY SMTT(40), <1>3, <2>2, <2>3 DEF IInv, Placed
<1>6. Successes'
    <2> SUFFICES ASSUME NEW k \in Links, NEW m \in Items(toClient[k]),
                        m.kind = "success", m.id = k
                 PROVE  /\ role[k] = "authenticated" /\ handler[k].on # k
                        /\ Owner[k] \in acl /\ Exchange(k, m.n) \in tokens
      BY <1>1, <1>3 DEF Successes
    <2> QED
      BY DEF IInv, Successes
<1>7. Pairing' /\ Published' /\ RoleIsEarned' /\ PendingCleared'
    BY Frames DEF IInv, sessVars, authVars, aclVars
<1> QED
    BY <1>4, <1>5, <1>6, <1>7

\* An attempt that is given up, or that only loses its credential to the state
\* authenticated, keeps the numbers in order and makes no finish ambiguous.
LEMMA LesserAttempt ==
    ASSUME IInv, NEW l \in Links, NEW kind, Read(l, kind), cli' \in [Links -> Attempts],
           \A k \in Links : k # l => cli'[k] = cli[k],
           cli'[l].n = cli[l].n, cli'[l].handle \in {0, cli[l].handle},
           cli'[l].cred \in {0, cli[l].cred},
           cli'[l].tok \in {0, cli[l].tok, cli[l].cred},
           UNCHANGED <<toHost, handler, pend>>
    PROVE  Numbered' /\ OneFinish'
<1>1. /\ \A k \in Links : k # l => toClient'[k] = toClient[k]
      /\ Items(toClient'[l]) \subseteq Items(toClient[l])
    BY ReadEffect DEF IInv
<1>2. \A k \in Links : Items(toClient'[k]) \subseteq Items(toClient[k])
    BY <1>1
<1>3. cli[l].n \in Nat /\ cli[l].cred \in Nat /\ cli[l].tok \in Nat
    BY DEF IInv, Typed, ClientTyped, Attempts
<1>4. /\ cli'[l].handle \in {0, cli[l].n} /\ cli'[l].cred \in {0, cli[l].n}
      /\ cli'[l].tok <= cli[l].n
    BY <1>3 DEF IInv, Numbered
<1>5. Numbered'
    BY <1>2, <1>4 DEF IInv, Numbered
<1>6. OneFinish'
    <2> SUFFICES ASSUME NEW k \in Links, NEW i \in 1 .. cli[k].n, Finishing(k, i)'
                 PROVE  /\ i = cli[k].n => cli'[k].handle = 0
                        /\ cli'[k].cred \in {0, i}
                        /\ \A m \in Items(toClient'[k]) :
                              (m.kind = "response" /\ m.id = k) => m.n # cli'[k].handle
      BY DEF OneFinish
    <2>1. Finishing(k, i)
      BY <1>2 DEF Finishing
    <2>2. \A m \in Items(toClient[k]) : m.id = k => m.n # 0
      BY DEF IInv, Numbered
    <2> QED
      BY <1>2, <2>1, <2>2 DEF IInv, OneFinish
<1> QED
    BY <1>5, <1>6

LEMMA OnFailedStep ==
    ASSUME IInv, NEW l \in Links, OnFailed(l) PROVE IInv'
<1>1. Read(l, "failed")
    BY DEF OnFailed
<1>2. UNCHANGED <<using, toHost, sessVars, handler, authVars, aclVars, troubles>>
    BY DEF OnFailed
<1>3. /\ cli' \in [Links -> Attempts]
      /\ \A k \in Links : k # l => cli'[k] = cli[k]
      /\ cli'[l].st = "failed" /\ cli'[l].n = cli[l].n
      /\ cli'[l].handle = 0 /\ cli'[l].cred = 0 /\ cli'[l].tok = 0
    <2> DEFINE b == Cleared(cli[l])
               a == [b EXCEPT !.st = "failed", !.tok = 0]
    <2>1. cli' = [cli EXCEPT ![l] = a]
      BY Zenon DEF OnFailed
    <2>2. cli \in [Links -> Attempts]
      BY DEF IInv, Typed, ClientTyped
    <2>3. b \in Attempts /\ b.n = cli[l].n /\ b.handle = 0 /\ b.cred = 0
      BY <2>2, ClearedEffect
    <2> HIDE DEF b
    <2>4. /\ a \in Attempts /\ a.st = "failed" /\ a.n = b.n
          /\ a.handle = b.handle /\ a.cred = b.cred /\ a.tok = 0
      BY <2>3 DEF Attempts, AuthStates
    <2> HIDE DEF a
    <2> QED
      BY <2>1, <2>2, <2>3, <2>4
<1>4. UNCHANGED <<handler, pend, sess, role, acl, tokens>>
    BY <1>2 DEF sessVars, authVars, aclVars
<1>5. /\ Typed' /\ Placed' /\ Successes' /\ Pairing' /\ Published' /\ RoleIsEarned'
      /\ PendingCleared'
    <2>1. toHost' \in [Links -> Seq(Requests)] /\ \A k \in Links : toHost'[k] = toHost[k]
      BY <1>2 DEF IInv, Typed, NetTyped
    <2> QED
      BY <1>1, <1>2, <1>3, <2>1, ReadKeeps
<1>6. Numbered' /\ OneFinish'
    BY <1>1, <1>2, <1>3, <1>4, LesserAttempt
<1>7. Credited'
    BY <1>3, <1>4 DEF IInv, Credited
<1>8. Owed'
    <2>1. \A k \in Links : k # l => toClient'[k] = toClient[k]
      BY <1>1, ReadEffect DEF IInv
    <2> SUFFICES ASSUME NEW k \in Links, Waits(k)
                 PROVE  \/ k # l /\ cli'[k] = cli[k] /\ toClient'[k] = toClient[k]
                        \/ cli'[k].st = "failed"
      BY <1>2, <1>4 DEF IInv, Owed, Waits
    <2> QED
      BY <1>3, <2>1
<1> QED
    BY <1>5, <1>6, <1>7, <1>8 DEF IInv

LEMMA OnSuccessStep ==
    ASSUME IInv, NEW l \in Links, OnSuccess(l) PROVE IInv'
<1> DEFINE m == Head(toClient[l])
<1>1. Read(l, "success")
    BY DEF OnSuccess
<1>2. UNCHANGED <<using, toHost, sessVars, handler, authVars, aclVars, troubles>>
    BY DEF OnSuccess
<1>3. /\ m \in Items(toClient[l]) /\ m.kind = "success"
      /\ \A k \in Links : k # l => toClient'[k] = toClient[k]
      /\ Items(toClient[l]) = {m} \cup Items(toClient'[l])
    BY ZenonT(60), <1>1, ReadEffect DEF IInv
<1>4. /\ cli' \in [Links -> Attempts]
      /\ \A k \in Links : k # l => cli'[k] = cli[k]
      /\ \/ cli'[l] = cli[l]
         \/ /\ m.id = l /\ cli[l].cred # 0
            /\ cli'[l].st = "auth" /\ cli'[l].n = cli[l].n
            /\ cli'[l].handle = cli[l].handle /\ cli'[l].cred = 0
            /\ cli'[l].tok = cli[l].cred
    <2>1. cli \in [Links -> Attempts]
      BY DEF IInv, Typed, ClientTyped
    <2>2. CASE m.id = l /\ cli[l].cred # 0
      <3> DEFINE a == [cli[l] EXCEPT !.st = "auth", !.tok = cli[l].cred, !.cred = 0]
      <3>1. cli' = [cli EXCEPT ![l].st = "auth", ![l].tok = cli[l].cred, ![l].cred = 0]
        BY <2>2 DEF OnSuccess
      <3>2. \A b \in Attempts : \A t \in Nat :
              LET e == [b EXCEPT !.st = "auth", !.tok = t, !.cred = 0] IN
              /\ e \in Attempts /\ e.st = "auth" /\ e.n = b.n /\ e.handle = b.handle
              /\ e.cred = 0 /\ e.tok = t
        BY DEF Attempts, AuthStates
      <3>3. cli[l] \in Attempts /\ cli[l].cred \in Nat
        BY <2>1 DEF Attempts
      <3>4. /\ a \in Attempts /\ a.st = "auth" /\ a.n = cli[l].n
            /\ a.handle = cli[l].handle /\ a.cred = 0 /\ a.tok = cli[l].cred
        BY <3>2, <3>3
      <3>5. cli' = [cli EXCEPT ![l] = a]
        BY <2>1, <3>1
      <3> HIDE DEF a
      <3> QED
        BY <2>1, <2>2, <3>4, <3>5
    <2>3. CASE ~(m.id = l /\ cli[l].cred # 0)
      BY <2>1, <2>3 DEF OnSuccess
    <2> QED
      BY <2>2, <2>3
<1>5. UNCHANGED <<handler, pend, sess, role, acl, tokens>>
    BY <1>2 DEF sessVars, authVars, aclVars
<1>6. /\ Typed' /\ Placed' /\ Successes' /\ Pairing' /\ Published' /\ RoleIsEarned'
      /\ PendingCleared'
    <2>1. toHost' \in [Links -> Seq(Requests)] /\ \A k \in Links : toHost'[k] = toHost[k]
      BY <1>2 DEF IInv, Typed, NetTyped
    <2> QED
      BY <1>1, <1>2, <1>4, <2>1, ReadKeeps
<1>7. Numbered' /\ OneFinish'
    BY <1>1, <1>2, <1>4, <1>5, LesserAttempt
<1>8. Credited'
    <2>1. ASSUME m.id = l, cli[l].cred # 0
          PROVE  Owner[l] \in acl /\ Exchange(l, cli[l].cred) \in tokens
      <3>1. m.n \in 1 .. cli[l].n /\ Finishing(l, m.n)
        BY <1>3, <2>1 DEF IInv, Numbered, Finishing
      <3>2. cli[l].cred = m.n
        BY <2>1, <3>1 DEF IInv, OneFinish
      <3> QED
        BY <1>3, <2>1, <3>2 DEF IInv, Successes
    <2> QED
      BY <1>4, <1>5, <2>1 DEF IInv, Credited
<1>9. Owed'
    <2> SUFFICES ASSUME NEW k \in Links, Waits(k)
                 PROVE  \/ /\ cli'[k] = cli[k]
                           /\ \A x \in Items(toClient[k]) :
                                 x.kind # "success" => x \in Items(toClient'[k])
                        \/ cli'[k].st = "auth"
      BY <1>2, <1>5 DEF IInv, Owed, Waits
    <2> QED
      BY <1>3, <1>4
<1> QED
    BY <1>6, <1>7, <1>8, <1>9 DEF IInv

LEMMA OnResponseStep ==
    ASSUME IInv, NEW l \in Links, OnResponse(l) PROVE IInv'
<1> DEFINE m == Head(toClient[l])
           h == cli[l].handle
           r == [kind |-> "finish", n |-> h]
<1>1. Read(l, "response")
    BY DEF OnResponse
<1>2. UNCHANGED <<using, sessVars, handler, authVars, aclVars, troubles>>
    BY DEF OnResponse
<1>3. UNCHANGED <<handler, pend, sess, role, acl, tokens>>
    BY <1>2 DEF sessVars, authVars, aclVars
<1>4. /\ m \in Items(toClient[l]) /\ m.kind = "response"
      /\ \A k \in Links : k # l => toClient'[k] = toClient[k]
      /\ Items(toClient[l]) = {m} \cup Items(toClient'[l])
    BY ZenonT(60), <1>1, ReadEffect DEF IInv
<1>5. /\ cli \in [Links -> Attempts] /\ cli[l] \in Attempts
      /\ h \in Nat /\ cli[l].n \in Nat
      /\ toHost \in [Links -> Seq(Requests)]
    BY DEF IInv, Typed, ClientTyped, NetTyped, Attempts
\* The client finishes.
<1>6. ASSUME m.id = l, h # 0, m.n = h, ToHost(l, "finish", h),
             cli' = [cli EXCEPT ![l].st = "sending", ![l].handle = 0, ![l].cred = h]
      PROVE  IInv'
    <2>1. /\ cli' \in [Links -> Attempts]
          /\ \A k \in Links : k # l => cli'[k] = cli[k]
          /\ cli'[l].st = "sending" /\ cli'[l].n = cli[l].n /\ cli'[l].handle = 0
          /\ cli'[l].cred = h /\ cli'[l].tok = cli[l].tok
      <3> DEFINE a == [cli[l] EXCEPT !.st = "sending", !.handle = 0, !.cred = h]
      <3>1. \A b \in Attempts : \A t \in Nat :
              LET e == [b EXCEPT !.st = "sending", !.handle = 0, !.cred = t] IN
              /\ e \in Attempts /\ e.st = "sending" /\ e.n = b.n /\ e.handle = 0
              /\ e.cred = t /\ e.tok = b.tok
        BY DEF Attempts, AuthStates
      <3>2. /\ a \in Attempts /\ a.st = "sending" /\ a.n = cli[l].n /\ a.handle = 0
            /\ a.cred = h /\ a.tok = cli[l].tok
        BY <1>5, <3>1
      <3>3. cli' = [cli EXCEPT ![l] = a]
        BY <1>5, <1>6
      <3> HIDE DEF a
      <3> QED
        BY <1>5, <3>2, <3>3
    <2>2. /\ toHost' \in [Links -> Seq(Requests)]
          /\ \A k \in Links : k # l => toHost'[k] = toHost[k]
          /\ toHost'[l] = Append(toHost[l], r)
          /\ Items(toHost'[l]) = Items(toHost[l]) \cup {r}
          /\ r \in Requests /\ r.kind = "finish" /\ r.n = h
      BY <1>5, <1>6, ToHostEffect DEF IInv, Requests
    <2> HIDE DEF r
    <2>3. /\ Typed' /\ Placed' /\ Successes' /\ Pairing' /\ Published'
          /\ RoleIsEarned' /\ PendingCleared'
      BY <1>1, <1>2, <2>1, <2>2, ReadKeeps
    <2>4. h = cli[l].n
      BY <1>6 DEF IInv, Numbered
    <2>5. Numbered'
      <3>1. Ascending(toHost'[l])
        <4>1. \A x \in Requests : x.n \in Nat
          BY DEF Requests
        <4>2. Ascending(toHost[l]) /\ \A x \in Items(toHost[l]) : x.n <= h
          BY <2>4 DEF IInv, Numbered
        <4> QED
          BY <1>5, <2>2, <4>1, <4>2, AscendingAppend
      <3>2. \A x \in Items(toHost'[l]) : x.n \in 1 .. cli[l].n /\ handler[l].n <= x.n
        BY <1>5, <1>6, <2>2, <2>4 DEF IInv, Numbered
      <3>3. \A k \in Links : Items(toClient'[k]) \subseteq Items(toClient[k])
        BY <1>4
      <3> SUFFICES ASSUME NEW k \in Links
                   PROVE  /\ cli'[k].n = cli[k].n
                          /\ cli'[k].handle \in {0, cli[k].n}
                          /\ cli'[k].cred \in {0, cli[k].n}
                          /\ cli'[k].tok <= cli[k].n
                          /\ Ascending(toHost'[k])
                          /\ \A x \in Items(toHost'[k]) :
                                x.n \in 1 .. cli[k].n /\ handler[k].n <= x.n
        BY <1>3, <3>3 DEF IInv, Numbered
      <3>4. CASE k = l
        BY <2>1, <2>4, <3>1, <3>2, <3>4 DEF IInv, Numbered
      <3>5. CASE k # l
        BY <2>1, <2>2, <3>5 DEF IInv, Numbered
      <3> QED
        BY <3>4, <3>5
    <2>6. Credited'
      BY <1>3, <2>1 DEF IInv, Credited
    <2>7. OneFinish'
      \* No finish was under way, or the response would not be to the handle.
      <3>1. \A i \in 1 .. cli[l].n : ~Finishing(l, i)
        BY <1>4, <1>6 DEF IInv, OneFinish
      <3>2. \A x \in Items(toClient[l]) : x.id = l => x.n # 0
        BY DEF IInv, Numbered
      <3> SUFFICES ASSUME NEW k \in Links, NEW i \in 1 .. cli[k].n, Finishing(k, i)'
                   PROVE  /\ i = cli[k].n => cli'[k].handle = 0
                          /\ cli'[k].cred \in {0, i}
                          /\ \A x \in Items(toClient'[k]) :
                                (x.kind = "response" /\ x.id = k) => x.n # cli'[k].handle
        BY <2>1 DEF OneFinish
      <3>3. CASE k # l
        <4>1. cli'[k] = cli[k] /\ toClient'[k] = toClient[k] /\ toHost'[k] = toHost[k]
          BY <1>4, <2>1, <2>2, <3>3
        <4>2. Finishing(k, i)
          BY <1>3, <4>1 DEF Finishing
        <4> QED
          BY <4>1, <4>2 DEF IInv, OneFinish
      <3>4. CASE k = l
        <4>1. i = h
          BY <1>3, <1>4, <2>2, <3>1, <3>4 DEF Finishing
        <4> QED
          BY <1>4, <2>1, <3>2, <3>4, <4>1
      <3> QED
        BY <3>3, <3>4
    <2>8. Owed'
      <3> SUFFICES ASSUME NEW k \in Links, Waits(k)
                   PROVE  \/ /\ k # l /\ cli'[k] = cli[k] /\ toHost'[k] = toHost[k]
                             /\ toClient'[k] = toClient[k]
                          \/ /\ cli'[k].st = "sending" /\ cli'[k].handle = 0
                             /\ \E x \in Items(toHost'[k]) : x.kind = "finish"
        BY <1>2, <1>3 DEF IInv, Owed, Waits
      <3> QED
        BY <1>4, <2>1, <2>2
    <2> QED
      BY <2>3, <2>5, <2>6, <2>7, <2>8 DEF IInv
\* It gives up, or drops the response.
<1>7. ASSUME toHost' = toHost, cli' \in [Links -> Attempts],
             \A k \in Links : k # l => cli'[k] = cli[k],
             cli'[l].n = cli[l].n, cli'[l].tok = cli[l].tok,
             \/ /\ cli'[l].st = "failed" /\ cli'[l].handle = 0 /\ cli'[l].cred = 0
             \/ m.id = l /\ h = 0 /\ cli'[l] = cli[l]
      PROVE  IInv'
    <2>1. /\ Typed' /\ Placed' /\ Successes' /\ Pairing' /\ Published'
          /\ RoleIsEarned' /\ PendingCleared'
      <3>1. toHost' \in [Links -> Seq(Requests)] /\ \A k \in Links : toHost'[k] = toHost[k]
        BY <1>5, <1>7
      <3> QED
        BY <1>1, <1>2, <1>7, <3>1, ReadKeeps
    <2>2. Numbered' /\ OneFinish'
      BY <1>1, <1>3, <1>7, LesserAttempt
    <2>3. Credited'
      BY <1>3, <1>7 DEF IInv, Credited
    <2>4. Owed'
      <3> SUFFICES ASSUME NEW k \in Links, Waits(k)
                   PROVE  \/ /\ cli'[k] = cli[k] /\ (k = l => cli[k].handle = 0)
                             /\ \A x \in Items(toClient[k]) :
                                   x.kind # "response" \/ k # l => x \in Items(toClient'[k])
                          \/ cli'[k].st = "failed"
        BY <1>2, <1>3, <1>7 DEF IInv, Owed, Waits
      <3> QED
        BY <1>4, <1>7
    <2> QED
      BY <2>1, <2>2, <2>3, <2>4 DEF IInv
<1>8. ASSUME cli' = [cli EXCEPT ![l] = [Cleared(cli[l]) EXCEPT !.st = "failed"]]
      PROVE  /\ cli' \in [Links -> Attempts]
             /\ \A k \in Links : k # l => cli'[k] = cli[k]
             /\ cli'[l].st = "failed" /\ cli'[l].n = cli[l].n /\ cli'[l].handle = 0
             /\ cli'[l].cred = 0 /\ cli'[l].tok = cli[l].tok
    <2> DEFINE b == Cleared(cli[l])
               a == [b EXCEPT !.st = "failed"]
    <2>1. cli' = [cli EXCEPT ![l] = a]
      BY <1>8
    <2>2. /\ b \in Attempts /\ b.n = cli[l].n /\ b.handle = 0 /\ b.cred = 0
          /\ b.tok = cli[l].tok
      BY <1>5, ClearedEffect
    <2> HIDE DEF b
    <2>3. /\ a \in Attempts /\ a.st = "failed" /\ a.n = b.n
          /\ a.handle = b.handle /\ a.cred = b.cred /\ a.tok = b.tok
      BY <2>2 DEF Attempts, AuthStates
    <2> HIDE DEF a
    <2> QED
      BY <1>5, <2>1, <2>2, <2>3
<1>9. \/ /\ m.id = l /\ h # 0 /\ m.n = h /\ ToHost(l, "finish", h)
         /\ cli' = [cli EXCEPT ![l].st = "sending", ![l].handle = 0, ![l].cred = h]
      \/ /\ cli' = [cli EXCEPT ![l] = [Cleared(cli[l]) EXCEPT !.st = "failed"]]
         /\ toHost' = toHost
      \/ m.id = l /\ h = 0 /\ cli' = cli /\ toHost' = toHost
    BY DEF OnResponse
<1> QED
    BY <1>5, <1>6, <1>7, <1>8, <1>9

-----------------------------------------------------------------------------
(* The steps of the host's handlers *)

\* An answer goes out and the handler is done, or has only the revocation left:
\* a response answers a start, a success the end of a pairing.
LEMMA AnswerKeeps ==
    ASSUME IInv, NEW l \in Links, handler[l].pc # "idle",
           NEW kind \in {"response", "success", "failed"},
           kind = "response" => handler[l].pc = "start",
           kind = "success" => handler[l].pc = "reply",
           Reply(l, kind, handler[l].n),
           HandlerTyped', \A k \in Links : k # l => handler'[k] = handler[k],
           \/ /\ handler'[l].pc = "idle" /\ handler'[l].on = None
              /\ handler'[l].n = 0
           \/ /\ kind = "failed" /\ handler'[l].pc = "revoke"
              /\ handler'[l].on = handler[l].on /\ handler'[l].n = handler[l].n,
           \A k \in Links : /\ pend'[k].n <= cli[k].n
                            /\ pend'[k].n = 0 <=> pend'[k].scope = None,
           UNCHANGED <<using, cli, toHost, sess, role, peers, acl, tokens>>
    PROVE  /\ NetTyped' /\ Numbered' /\ Placed' /\ Successes' /\ OneFinish' /\ Owed'
<1> DEFINE on == handler[l].on
           m  == [kind |-> kind, id |-> l, n |-> handler[l].n]
<1>1. /\ on \in Links /\ l # None /\ on # None /\ handler[l].n \in Nat /\ handler[l].n >= 1
      /\ handler[l].n <= cli[l].n /\ cli[l].n \in Nat
      /\ handler \in [Links -> Handlings]
    BY LoginAssumption DEF IInv, Typed, HandlerTyped, ClientTyped, Attempts,
                           Handlings, Numbered, None
<1>2. /\ toClient' \in [Links -> Seq(Answers)]
      /\ \A k \in Links : k # on => toClient'[k] = toClient[k]
      /\ \A k \in Links :
            /\ Items(toClient[k]) \subseteq Items(toClient'[k])
            /\ Items(toClient'[k]) \subseteq Items(toClient[k]) \cup {m}
      /\ \A k \in Links : sess[k] = "none" => toClient'[k] = toClient[k]
      /\ Waits(on) => m \in Items(toClient'[on])
      /\ m.kind = kind /\ m.id = l /\ m.n = handler[l].n
    BY ZenonT(60), <1>1, ReplyEffect DEF IInv
<1> HIDE DEF m
<1>3. NetTyped'
    BY <1>2 DEF IInv, Typed, NetTyped
<1>4. Numbered'
    <2> SUFFICES ASSUME NEW k \in Links
                 PROVE  /\ \A x \in Items(toHost[k]) : handler'[k].n <= x.n
                        /\ handler'[k].on = None <=> handler'[k].pc = "idle"
                        /\ handler'[k].n <= cli[k].n
                        /\ handler'[k].pc # "idle" => handler'[k].n >= 1
                        /\ \A x \in Items(toClient'[k]) : x.id = k => x.n \in 1 .. cli[k].n
      BY DEF IInv, Numbered
    <2>1. \A x \in Items(toClient'[k]) : x.id = k => x.n \in 1 .. cli[k].n
      BY <1>1, <1>2 DEF IInv, Numbered
    <2>2. \A x \in Items(toHost[k]) : x.n \in 1 .. cli[k].n /\ handler[k].n <= x.n
      BY DEF IInv, Numbered
    <2>3. CASE k # l
      BY <2>1, <2>3 DEF IInv, Numbered
    <2>4. CASE k = l
      <3>1. \A x \in Items(toHost[k]) : handler'[k].n <= x.n
        BY <2>2, <2>4
      <3> QED
        BY <1>1, <2>1, <2>4, <3>1
    <2> QED
      BY <2>3, <2>4
<1>5. Placed'
    <2>1. \A k \in Links : sess[k] = "none" => k # l /\ toClient'[k] = toClient[k]
      BY <1>2 DEF IInv, Placed, Idle
    <2>2. ASSUME NEW k \in Links, handler'[k].pc # "idle"
          PROVE  handler[k].pc # "idle" /\ handler'[k].on = handler[k].on
      BY <2>2
    <2> QED
      BY <2>1, <2>2 DEF IInv, Placed
<1>6. Successes'
    <2> SUFFICES ASSUME NEW k \in Links, NEW x \in Items(toClient'[k]),
                        x.kind = "success", x.id = k
                 PROVE  /\ role[k] = "authenticated" /\ handler'[k].on # k
                        /\ Owner[k] \in acl /\ Exchange(k, x.n) \in tokens
      BY DEF Successes
    <2>1. CASE x \in Items(toClient[k])
      <3>1. /\ role[k] = "authenticated" /\ handler[k].on # k
            /\ Owner[k] \in acl /\ Exchange(k, x.n) \in tokens
        BY <2>1 DEF IInv, Successes
      <3>2. handler'[k].on \in {None, handler[k].on} /\ k # None
        BY LoginAssumption DEF None
      <3> QED
        BY <3>1, <3>2
    <2>2. CASE x \notin Items(toClient[k])
      <3>1. x = m /\ k = on /\ k = l
        BY <1>1, <1>2, <2>2
      <3>2. kind = "success" /\ handler[l].pc = "reply"
        BY <1>2, <3>1
      <3>3. /\ role[on] = "authenticated" /\ Owner[l] \in acl
            /\ Exchange(l, handler[l].n) \in tokens
        BY <3>2 DEF IInv, Pairing, Proven
      <3> QED
        BY <1>1, <1>2, <3>1, <3>2, <3>3
    <2> QED
      BY <2>1, <2>2
<1>7. OneFinish'
    <2> SUFFICES ASSUME NEW k \in Links, NEW i \in 1 .. cli[k].n, Finishing(k, i)'
                 PROVE  /\ i = cli[k].n => cli[k].handle = 0
                        /\ cli[k].cred \in {0, i}
                        /\ \A x \in Items(toClient'[k]) :
                              (x.kind = "response" /\ x.id = k) => x.n # cli[k].handle
      BY DEF OneFinish
    <2>1. Finishing(k, i)
      <3>1. \A x \in Items(toClient'[k]) :
              x \in Items(toClient[k]) \/ x = m
        BY <1>2
      <3>2. (handler'[k] # handler[k]) => k = l /\ handler'[k].pc \in {"idle", "revoke"}
        OBVIOUS
      <3> QED
        BY <1>2, <3>1, <3>2 DEF Finishing
    <2>2. ASSUME NEW x \in Items(toClient'[k]), x.kind = "response", x.id = k
          PROVE  x.n # cli[k].handle
      <3>1. CASE x \in Items(toClient[k])
        BY <2>1, <2>2, <3>1 DEF IInv, OneFinish
      <3>2. CASE x \notin Items(toClient[k])
        <4>1. x = m /\ k = on /\ k = l /\ handler[l].pc = "start"
          BY <1>2, <2>2, <3>2
        \* The finish that comes is of this try or a later one.
        <4>2. \E y \in Items(toHost[l]) : y.kind = "finish" /\ y.n = i
          <5>1. \A y \in Items(toClient[l]) : ~(y.kind = "success" /\ y.id = l)
            BY <4>1 DEF IInv, Successes
          <5> QED
            BY <2>1, <4>1, <5>1 DEF Finishing
        <4>3. handler[l].n <= i
          BY <4>2 DEF IInv, Numbered
        <4>4. cli[l].handle \in {0, cli[l].n} /\ (i = cli[l].n => cli[l].handle = 0)
          BY <2>1, <4>1 DEF IInv, OneFinish, Numbered
        <4> QED
          BY <1>1, <1>2, <4>1, <4>3, <4>4
      <3> QED
        BY <3>1, <3>2
    <2> QED
      BY <2>1, <2>2 DEF IInv, OneFinish
<1>8. Owed'
    <2> DEFINE AwaitOwed(k) ==
                 \/ \E x \in Items(toHost[k]) : x.kind = "start"
                 \/ handler'[k].pc = "start"
                 \/ \E x \in Items(toClient'[k]) : x.kind \in {"failed", "response"}
               SendOwed(k) ==
                 \/ \E x \in Items(toHost[k]) : x.kind = "finish"
                 \/ handler'[k].pc \in {"finish", "lock", "persist", "publish", "role"}
                 \/ \E x \in Items(toClient'[k]) : x.kind = "failed"
    <2>1. ASSUME NEW k \in Links, Waits(k), k # l
          PROVE  /\ cli[k].st = "awaiting" => cli[k].handle # 0 /\ AwaitOwed(k)
                 /\ cli[k].st = "sending" => cli[k].handle = 0 /\ SendOwed(k)
      BY <1>2, <2>1 DEF IInv, Owed
    <2>2. ASSUME Waits(l)
          PROVE  /\ cli[l].st = "awaiting" => cli[l].handle # 0 /\ AwaitOwed(l)
                 /\ cli[l].st = "sending" => cli[l].handle = 0 /\ SendOwed(l)
      <3>1. on = l
        BY <2>2 DEF Waits, IInv, Placed
      <3>2. kind # "success"
        BY <2>2, <3>1 DEF Waits, IInv, Pairing
      <3>3. m \in Items(toClient'[l])
        BY <1>2, <2>2, <3>1
      <3> QED
        BY <1>2, <2>2, <3>2, <3>3 DEF IInv, Owed
    <2> QED
      BY <2>1, <2>2 DEF Owed, Waits
<1> QED
    BY <1>3, <1>4, <1>5, <1>6, <1>7, <1>8

LEMMA SucceedStep ==
    ASSUME IInv, NEW l \in Links, Succeed(l) PROVE IInv'
<1>1. /\ handler[l].pc = "reply" /\ Reply(l, "success", handler[l].n) /\ Done(l)
      /\ UNCHANGED <<clientVars, toHost, sessVars, authVars, aclVars, troubles>>
    BY DEF Succeed
<1>2. /\ HandlerTyped'
      /\ \A k \in Links : k # l => handler'[k] = handler[k]
      /\ handler'[l].pc = "idle" /\ handler'[l].on = None /\ handler'[l].n = 0
    BY <1>1, DoneEffect DEF IInv
<1>3. UNCHANGED <<using, cli, toHost, sess, role, peers, pend, tokens, acl, saved, lock>>
    BY <1>1 DEF clientVars, sessVars, authVars, aclVars
<1>4. /\ NetTyped' /\ Numbered' /\ Placed' /\ Successes' /\ OneFinish' /\ Owed'
    <2>1. \A k \in Links : /\ pend'[k].n <= cli[k].n
                           /\ pend'[k].n = 0 <=> pend'[k].scope = None
      BY <1>3 DEF IInv, Numbered
    <2> QED
      BY <1>1, <1>2, <1>3, <2>1, AnswerKeeps
<1>5. Typed'
    BY <1>1, <1>2, <1>4, Frames DEF IInv, Typed
<1>6. Pairing'
    BY <1>1, <1>2, <1>3 DEF IInv, Pairing, Proven
<1>7. Credited'
    BY <1>1, <1>2, <1>3, ExchangeFacts DEF IInv, Typed, AuthTyped, Credited
<1>8. Published' /\ RoleIsEarned' /\ PendingCleared'
    BY <1>1, Frames DEF IInv, sessVars, authVars, aclVars
<1> QED
    BY <1>4, <1>5, <1>6, <1>7, <1>8 DEF IInv

LEMMA TakeStep ==
    ASSUME IInv, NEW l \in Links, Take(l) PROVE IInv'
<1> DEFINE on == peers[Owner[l]]
           m  == Head(toHost[l])
           h  == [pc |-> m.kind, on |-> on, n |-> m.n]
<1>1. /\ handler[l].pc = "idle" /\ toHost[l] # <<>>
      /\ toHost' = [toHost EXCEPT ![l] = Tail(@)]
      /\ handler' = IF on = None \/ role[on] # "client" THEN handler
                    ELSE [handler EXCEPT ![l] = h]
      /\ UNCHANGED <<clientVars, toClient, sessVars, authVars, aclVars, troubles>>
    BY DEF Take
<1>2. UNCHANGED <<using, cli, toClient, sess, role, peers, pend, tokens, acl, saved,
                  lock>>
    BY <1>1 DEF clientVars, sessVars, authVars, aclVars
<1>3. /\ Owner[l] \in Clients /\ on \in Links \cup {None}
      /\ toHost \in [Links -> Seq(Requests)] /\ handler \in [Links -> Handlings]
      /\ \A k \in Links : cli[k].n \in Nat /\ handler[k].n \in Nat
    BY LoginAssumption DEF IInv, Typed, SessTyped, NetTyped, HandlerTyped, ClientTyped,
                           Attempts, Handlings
<1>4. /\ m \in Requests /\ m.kind \in {"start", "finish"} /\ m.n \in Nat
      /\ toHost' \in [Links -> Seq(Requests)]
      /\ \A k \in Links : k # l => toHost'[k] = toHost[k]
      /\ Items(toHost[l]) = {m} \cup Items(toHost'[l])
      /\ Ascending(toHost'[l]) /\ \A x \in Items(toHost'[l]) : m.n <= x.n
    <2>1. Ascending(toHost[l])
      BY DEF IInv, Numbered
    <2>2. /\ m \in Requests /\ Tail(toHost[l]) \in Seq(Requests)
          /\ Items(toHost[l]) = {m} \cup Items(Tail(toHost[l]))
      BY <1>1, <1>3, ItemsTail
    <2>3. /\ Ascending(Tail(toHost[l]))
          /\ \A x \in Items(Tail(toHost[l])) : m.n <= x.n
      BY <1>1, <1>3, <2>1, AscendingTail
    <2> QED
      BY <1>1, <1>3, <2>2, <2>3 DEF Requests
<1>5. m.n \in 1 .. cli[l].n /\ sess[l] # "none"
    BY <1>1, <1>4 DEF IInv, Numbered, Placed
<1>6. /\ HandlerTyped'
      /\ \A k \in Links : k # l => handler'[k] = handler[k]
      /\ \/ handler' = handler /\ (on = None \/ role[on] # "client")
         \/ /\ handler'[l].pc = m.kind /\ handler'[l].on = on /\ handler'[l].n = m.n
            /\ on \in Links /\ on # None /\ role[on] = "client"
    <2>1. CASE on = None \/ role[on] # "client"
      BY <1>1, <1>3, <2>1 DEF HandlerTyped
    <2>2. CASE ~(on = None \/ role[on] # "client")
      <3>1. on \in Links /\ on # None /\ role[on] = "client"
        BY <1>2, <1>3, <2>2 DEF IInv, Typed, SessTyped
      <3>2. h \in Handlings /\ h.pc = m.kind /\ h.on = on /\ h.n = m.n
        BY <1>4, <3>1 DEF Handlings, HandlerPcs
      <3>3. handler' = [handler EXCEPT ![l] = h]
        BY <1>1, <2>2
      <3> HIDE DEF h
      <3> QED
        BY <1>3, <3>1, <3>2, <3>3 DEF HandlerTyped
    <2> QED
      BY <2>1, <2>2
<1> HIDE DEF on, m, h
<1>7. Typed'
    <2>1. NetTyped'
      BY <1>2, <1>4 DEF IInv, Typed, NetTyped
    <2> QED
      BY <1>1, <1>6, <2>1, Frames DEF IInv, Typed
<1>8. Numbered'
    <2> SUFFICES ASSUME NEW k \in Links
                 PROVE  /\ Ascending(toHost'[k])
                        /\ \A x \in Items(toHost'[k]) :
                              x.n \in 1 .. cli[k].n /\ handler'[k].n <= x.n
                        /\ handler'[k].on = None <=> handler'[k].pc = "idle"
                        /\ handler'[k].n <= cli[k].n
                        /\ handler'[k].pc # "idle" => handler'[k].n >= 1
      BY <1>2 DEF IInv, Numbered
    <2>1. CASE k # l
      BY <1>4, <1>6, <2>1 DEF IInv, Numbered
    <2>2. CASE k = l
      <3>1. \A x \in Items(toHost'[l]) : x.n \in 1 .. cli[l].n /\ handler[l].n <= x.n
        BY <1>4 DEF IInv, Numbered
      <3>2. CASE handler' = handler
        BY <1>4, <2>2, <3>1, <3>2 DEF IInv, Numbered
      <3>3. CASE handler' # handler
        BY <1>3, <1>4, <1>5, <1>6, <2>2, <3>1, <3>3
      <3> QED
        BY <3>2, <3>3
    <2> QED
      BY <2>1, <2>2
<1>9. Placed'
    <2>1. ASSUME on # None
          PROVE  /\ Owner[on] = Owner[l] /\ sess[on] # "none"
                 /\ sess[l] = "live" => on = l
      BY <1>3, <2>1 DEF on, IInv, Placed
    <2>2. \A k \in Links : sess[k] = "none" => k # l
      BY <1>5
    <2> QED
      BY <1>2, <1>4, <1>6, <2>1, <2>2 DEF IInv, Placed
<1>10. Pairing'
    BY <1>1, <1>2, <1>4, <1>6 DEF IInv, Pairing, Proven
<1>11. Successes'
    <2>1. \A k \in Links : role[k] = "authenticated" /\ handler[k].on # k
                              => handler'[k].on # k
      BY <1>6
    <2> QED
      BY <1>2, <2>1 DEF IInv, Successes
<1>12. Credited'
    BY <1>1, <1>2, <1>6, ExchangeFacts DEF IInv, Typed, AuthTyped, Credited
<1>13. OneFinish'
    <2> SUFFICES ASSUME NEW k \in Links, NEW i \in 1 .. cli[k].n, Finishing(k, i)'
                 PROVE  Finishing(k, i)
      BY <1>2 DEF IInv, OneFinish
    <2> QED
      BY <1>2, <1>4, <1>6 DEF Finishing
<1>14. Owed'
    <2>1. ASSUME Waits(l)
          PROVE  \A x \in Items(toHost[l]) :
                    x \in Items(toHost'[l]) \/ handler'[l].pc = x.kind
      <3>1. on = l /\ role[l] = "client"
        BY <2>1 DEF on, Waits, IInv, Placed
      <3>2. handler'[l].pc = m.kind
        BY <1>6, <3>1, LoginAssumption DEF None
      <3> QED
        BY <1>4, <3>2
    <2>2. ASSUME NEW k \in Links, Waits(k), k # l
          PROVE  toHost'[k] = toHost[k] /\ handler'[k] = handler[k]
      BY <1>4, <1>6, <2>2
    <2> DEFINE AwaitOwed(k) ==
                 \/ \E x \in Items(toHost'[k]) : x.kind = "start"
                 \/ handler'[k].pc = "start"
                 \/ \E x \in Items(toClient[k]) : x.kind \in {"failed", "response"}
               SendOwed(k) ==
                 \/ \E x \in Items(toHost'[k]) : x.kind = "finish"
                 \/ handler'[k].pc \in {"finish", "lock", "persist", "publish", "role"}
                 \/ \E x \in Items(toClient[k]) : x.kind = "failed"
    <2>3. ASSUME NEW k \in Links, Waits(k)
          PROVE  /\ cli[k].st = "awaiting" => cli[k].handle # 0 /\ AwaitOwed(k)
                 /\ cli[k].st = "sending" => cli[k].handle = 0 /\ SendOwed(k)
      <3>1. CASE k = l
        BY <1>1, <2>1, <2>3, <3>1 DEF IInv, Owed
      <3>2. CASE k # l
        BY <2>2, <2>3, <3>2 DEF IInv, Owed
      <3> QED
        BY <3>1, <3>2
    <2> QED
      BY <1>2, <2>3 DEF Owed, Waits
<1>15. Published' /\ RoleIsEarned' /\ PendingCleared'
    BY <1>1, Frames DEF IInv, sessVars, authVars, aclVars
<1> QED
    BY <1>7, <1>8, <1>9, <1>10, <1>11, <1>12, <1>13, <1>14, <1>15 DEF IInv

LEMMA BeginStep ==
    ASSUME IInv, NEW l \in Links, Begin(l) PROVE IInv'
<1> DEFINE h == handler[l]
           x == Exchange(l, h.n)
           dropped == [a \in Links |-> IF Young(a) THEN pend[a] ELSE NoPending]
           begun == [a \in Links |-> IF a = l THEN [n |-> h.n, scope |-> h.on]
                                     ELSE IF Young(a) THEN pend[a] ELSE NoPending]
<1>1. /\ h.pc = "start" /\ Done(l)
      /\ UNCHANGED <<clientVars, toHost, sessVars, old, tokens, aclVars, troubles>>
    BY DEF Begin
<1>2. \/ /\ Reply(l, "failed", h.n) /\ pend' = dropped /\ UNCHANGED <<timers, late>>
      \/ /\ Reply(l, "response", h.n) /\ pend' = begun /\ timers' = timers \cup {x}
         /\ late' = IF sess[h.on] \in {"cancelled", "gone"} THEN late \cup {x} ELSE late
    BY DEF Begin
<1>3. /\ HandlerTyped'
      /\ \A k \in Links : k # l => handler'[k] = handler[k]
      /\ handler'[l].pc = "idle" /\ handler'[l].on = None /\ handler'[l].n = 0
    BY <1>1, DoneEffect DEF IInv
<1>4. UNCHANGED <<using, cli, toHost, sess, role, peers, tokens, acl, saved, lock>>
    BY <1>1 DEF clientVars, sessVars, aclVars
<1>5. /\ h.on \in Links /\ h.on # None /\ h.n \in Nat /\ h.n >= 1 /\ h.n <= cli[l].n
      /\ \A k \in Links : cli[k].n \in Nat
      /\ pend \in [Links -> [n : Nat, scope : Links \cup {None}]]
    BY <1>1 DEF IInv, Typed, HandlerTyped, Handlings, ClientTyped, Attempts, AuthTyped,
                Numbered
<1>6. x \in Exchanges
    <2>1. h.n \in 1 .. Tries[l]
      BY <1>5, LoginAssumption DEF IInv, Numbered
    <2> QED
      BY <2>1, ExchangeFacts
\* An entry stays, goes, or is the one that was begun.
<1>7. /\ pend' \in [Links -> [n : Nat, scope : Links \cup {None}]]
      /\ \A k \in Links :
            \/ pend'[k] = pend[k]
            \/ pend'[k].n = 0 /\ pend'[k].scope = None
            \/ /\ k = l /\ pend'[k].n = h.n /\ pend'[k].scope = h.on
               /\ timers' = timers \cup {x}
               /\ sess[h.on] \in {"cancelled", "gone"} => x \in late'
    BY <1>2, <1>5 DEF NoPending, None
<1>8. timers \subseteq timers' /\ late \subseteq late'
      /\ timers' \subseteq Exchanges /\ late' \subseteq Exchanges
    BY <1>2, <1>6 DEF IInv, Typed, AuthTyped
<1> HIDE DEF dropped, begun, x
<1>9. /\ NetTyped' /\ Numbered' /\ Placed' /\ Successes' /\ OneFinish' /\ Owed'
    <2>1. \A k \in Links : /\ pend'[k].n <= cli[k].n
                           /\ pend'[k].n = 0 <=> pend'[k].scope = None
      <3> SUFFICES ASSUME NEW k \in Links
                   PROVE  /\ pend'[k].n <= cli[k].n
                          /\ pend'[k].n = 0 <=> pend'[k].scope = None
        OBVIOUS
      <3>1. pend[k].n <= cli[k].n /\ (pend[k].n = 0 <=> pend[k].scope = None)
        BY DEF IInv, Numbered
      <3> QED
        BY <1>5, <1>7, <3>1
    <2> QED
      BY <1>1, <1>2, <1>3, <1>4, <2>1, AnswerKeeps
<1>10. Typed'
    <2>1. AuthTyped'
      BY <1>1, <1>7, <1>8 DEF IInv, Typed, AuthTyped
    <2> QED
      BY <1>1, <1>3, <1>9, <2>1, Frames DEF IInv, Typed
<1>11. Pairing'
    BY <1>1, <1>3, <1>4 DEF IInv, Pairing, Proven
<1>12. Credited'
    BY <1>1, <1>3, <1>4, ExchangeFacts DEF IInv, Typed, AuthTyped, Credited
<1>13. PendingCleared'
    <2> SUFFICES ASSUME NEW k \in Links, pend'[k].n # 0
                 PROVE  /\ Exchange(k, pend'[k].n) \in timers'
                        /\ sess[pend'[k].scope] \in {"live", "closing"}
                               \/ Exchange(k, pend'[k].n) \in late'
      BY <1>4 DEF PendingCleared
    <2>1. CASE pend'[k] = pend[k]
      BY <1>8, <2>1 DEF IInv, PendingCleared
    <2>2. CASE pend'[k] # pend[k]
      <3>1. /\ k = l /\ pend'[k].n = h.n /\ pend'[k].scope = h.on
            /\ timers' = timers \cup {x}
            /\ sess[h.on] \in {"cancelled", "gone"} => x \in late'
        BY <1>7, <2>2
      <3>2. sess[h.on] \in {"live", "closing", "cancelled", "gone"}
        BY <1>1, <1>5 DEF IInv, Typed, SessTyped, Placed
      <3> QED
        BY <3>1, <3>2 DEF x
    <2> QED
      BY <2>1, <2>2
<1>14. Published' /\ RoleIsEarned'
    BY <1>1, <1>4, Frames DEF IInv, aclVars
<1> QED
    BY <1>9, <1>10, <1>11, <1>12, <1>13, <1>14 DEF IInv

\* A pairing goes one step further without an answer.
LEMMA MoveKeeps ==
    ASSUME IInv, NEW l \in Links,
           handler[l].pc \in {"finish", "lock", "persist", "publish", "role"},
           NEW pc \in {"lock", "persist", "publish", "role", "reply"}, Handle(l, pc),
           \A k \in Links : /\ pend'[k].n <= cli[k].n
                            /\ pend'[k].n = 0 <=> pend'[k].scope = None,
           acl \subseteq acl', tokens \subseteq tokens',
           \A k \in Links : role[k] = "authenticated" => role'[k] = "authenticated",
           UNCHANGED <<using, cli, toHost, toClient, sess, peers>>
    PROVE  /\ HandlerTyped' /\ Numbered' /\ Placed' /\ Successes' /\ OneFinish'
           /\ \A k \in Links : k # l => handler'[k] = handler[k]
           /\ handler'[l].pc = pc /\ handler'[l].on = handler[l].on
           /\ handler'[l].n = handler[l].n
           /\ pc # "reply" /\ role' = role => Owed'
<1>1. /\ HandlerTyped'
      /\ \A k \in Links : k # l => handler'[k] = handler[k]
      /\ handler'[l].pc = pc /\ handler'[l].on = handler[l].on
      /\ handler'[l].n = handler[l].n
    BY HandleEffect DEF IInv, HandlerPcs
<1>2. \A k \in Links : /\ handler'[k].on = handler[k].on /\ handler'[k].n = handler[k].n
                       /\ handler'[k].pc = "idle" <=> handler[k].pc = "idle"
    BY <1>1
<1>3. Numbered'
    BY <1>2 DEF IInv, Numbered
<1>4. Placed'
    <2>1. \A k \in Links : sess[k] = "none" => k # l
      BY DEF IInv, Placed, Idle
    <2> QED
      BY <1>1, <1>2, <2>1 DEF IInv, Placed
<1>5. Successes'
    BY <1>2 DEF IInv, Successes
<1>6. OneFinish'
    <2> SUFFICES ASSUME NEW k \in Links, NEW i \in 1 .. cli[k].n, Finishing(k, i)'
                 PROVE  Finishing(k, i)
      BY DEF IInv, OneFinish
    <2>1. CASE k = l
      BY <1>1, <2>1 DEF Finishing
    <2>2. CASE k # l
      BY <1>1, <2>2 DEF Finishing
    <2> QED
      BY <2>1, <2>2
<1>7. ASSUME pc # "reply", role' = role PROVE Owed'
    <2>1. \A k \in Links :
             /\ handler[k].pc = "start" => handler'[k].pc = "start"
             /\ handler[k].pc \in {"finish", "lock", "persist", "publish", "role"}
                   => handler'[k].pc \in {"finish", "lock", "persist", "publish", "role"}
      BY <1>1, <1>7
    <2> QED
      BY <1>7, <2>1 DEF IInv, Owed, Waits
<1> QED
    BY <1>1, <1>3, <1>4, <1>5, <1>6, <1>7

LEMMA FinishStep ==
    ASSUME IInv, NEW l \in Links, Finish(l) PROVE IInv'
<1> DEFINE h == handler[l]
           x == Exchange(l, h.n)
<1>1. /\ h.pc = "finish" /\ pend' = [pend EXCEPT ![l] = NoPending]
      /\ UNCHANGED <<clientVars, toHost, sessVars, timers, old, late, aclVars, troubles>>
      /\ \/ tokens' = tokens \cup {x} /\ Handle(l, "lock") /\ UNCHANGED toClient
         \/ Reply(l, "failed", h.n) /\ Done(l) /\ UNCHANGED tokens
    BY DEF Finish
<1>2. UNCHANGED <<using, cli, toHost, sess, role, peers, acl, saved, lock>>
    BY <1>1 DEF clientVars, sessVars, aclVars
<1>3. /\ pend' \in [Links -> [n : Nat, scope : Links \cup {None}]]
      /\ \A k \in Links : \/ pend'[k] = pend[k]
                          \/ pend'[k].n = 0 /\ pend'[k].scope = None
    <2>1. /\ NoPending \in [n : Nat, scope : Links \cup {None}]
          /\ NoPending.n = 0 /\ NoPending.scope = None
      BY DEF NoPending, None
    <2>2. pend \in [Links -> [n : Nat, scope : Links \cup {None}]]
      BY DEF IInv, Typed, AuthTyped
    <2> QED
      BY <1>1, <2>1, <2>2
<1>4. \A k \in Links : /\ pend'[k].n <= cli[k].n
                       /\ pend'[k].n = 0 <=> pend'[k].scope = None
    BY <1>3 DEF IInv, Typed, ClientTyped, Attempts, Numbered
<1>5. PendingCleared'
    BY <1>1, <1>2, <1>3 DEF IInv, PendingCleared
<1>6. ASSUME tokens' = tokens \cup {x}, Handle(l, "lock"), UNCHANGED toClient
      PROVE  IInv'
    <2>1. /\ HandlerTyped' /\ Numbered' /\ Placed' /\ Successes' /\ OneFinish' /\ Owed'
          /\ \A k \in Links : k # l => handler'[k] = handler[k]
          /\ handler'[l].pc = "lock" /\ handler'[l].n = h.n
      BY <1>1, <1>2, <1>4, <1>6, MoveKeeps
    <2>2. x \in Exchanges
      <3>1. h.n \in 1 .. Tries[l]
        BY <1>1, LoginAssumption DEF IInv, Typed, HandlerTyped, Handlings, ClientTyped,
                                     Attempts, Numbered
      <3> QED
        BY <3>1, ExchangeFacts
    <2>3. Typed'
      <3>1. AuthTyped'
        BY <1>1, <1>3, <1>6, <2>2 DEF IInv, Typed, AuthTyped
      <3>2. NetTyped'
        BY <1>2, <1>6, Frames DEF IInv, netVars
      <3> QED
        BY <1>1, <2>1, <3>1, <3>2, Frames DEF IInv, Typed
    <2>4. Pairing'
      BY <1>1, <1>2, <1>6, <2>1 DEF IInv, Pairing, Proven
    <2>5. Credited'
      <3> SUFFICES ASSUME NEW y \in tokens'
                   PROVE  \/ Owner[y.link] \in acl
                          \/ /\ handler'[y.link].pc \in {"lock", "persist", "publish",
                                                         "revoke"}
                             /\ handler'[y.link].n = y.n
        BY <1>2, <1>6 DEF IInv, Credited
      <3>1. CASE y \in tokens
        <4>1. y.link \in Links
          BY <3>1, ExchangeFacts DEF IInv, Typed, AuthTyped
        <4> QED
          BY <1>1, <2>1, <3>1, <4>1 DEF IInv, Credited
      <3>2. CASE y = x
        BY <2>1, <3>2, ExchangeFacts
      <3> QED
        BY <1>6, <3>1, <3>2
    <2>6. RoleIsEarned'
      BY <1>2, <1>6 DEF IInv, RoleIsEarned
    <2>7. Published'
      BY <1>1, Frames DEF IInv, aclVars
    <2> QED
      BY <1>5, <2>1, <2>3, <2>4, <2>5, <2>6, <2>7 DEF IInv
<1>7. ASSUME Reply(l, "failed", h.n), Done(l), UNCHANGED tokens
      PROVE  IInv'
    <2>1. /\ HandlerTyped'
          /\ \A k \in Links : k # l => handler'[k] = handler[k]
          /\ handler'[l].pc = "idle" /\ handler'[l].on = None /\ handler'[l].n = 0
      BY <1>7, DoneEffect DEF IInv
    <2>2. /\ NetTyped' /\ Numbered' /\ Placed' /\ Successes' /\ OneFinish' /\ Owed'
      BY <1>1, <1>2, <1>4, <1>7, <2>1, AnswerKeeps
    <2>3. Typed'
      <3>1. AuthTyped'
        BY <1>1, <1>3, <1>7 DEF IInv, Typed, AuthTyped
      <3> QED
        BY <1>1, <2>1, <2>2, <3>1, Frames DEF IInv, Typed
    <2>4. Pairing'
      BY <1>1, <1>2, <1>7, <2>1 DEF IInv, Pairing, Proven
    <2>5. Credited'
      BY <1>1, <1>2, <1>7, <2>1, ExchangeFacts DEF IInv, Typed, AuthTyped, Credited
    <2>6. Published' /\ RoleIsEarned'
      BY <1>1, <1>2, <1>7, Frames DEF IInv, aclVars
    <2> QED
      BY <1>5, <2>2, <2>3, <2>4, <2>5, <2>6 DEF IInv
<1> QED
    BY <1>1, <1>6, <1>7

LEMMA PairStep ==
    ASSUME IInv, NEW l \in Links, Pair(l) PROVE IInv'
<1>1. /\ handler[l].pc = "lock" /\ lock = None
      /\ UNCHANGED <<clientVars, netVars, sessVars, authVars, acl, saved, sig, server,
                     sigOf, troubles, missed>>
      /\ \/ Owner[l] \in acl /\ Handle(l, "role") /\ lock' = lock
         \/ Owner[l] \notin acl /\ Handle(l, "persist") /\ lock' = l
    BY DEF Pair
<1>2. UNCHANGED <<using, cli, toHost, toClient, sess, role, peers, pend, tokens, acl,
                  saved>>
    BY <1>1 DEF clientVars, netVars, sessVars, authVars
<1>3. l # None
    BY LoginAssumption DEF None
<1>4. PICK pc \in {"role", "persist"} :
        /\ Handle(l, pc)
        /\ pc = "role" => Owner[l] \in acl /\ lock' = None
        /\ pc = "persist" => Owner[l] \notin acl /\ lock' = l
    BY <1>1
<1>5. /\ HandlerTyped' /\ Numbered' /\ Placed' /\ Successes' /\ OneFinish' /\ Owed'
      /\ \A k \in Links : k # l => handler'[k] = handler[k]
      /\ handler'[l].pc = pc /\ handler'[l].n = handler[l].n
    <2>1. \A k \in Links : /\ pend'[k].n <= cli[k].n
                           /\ pend'[k].n = 0 <=> pend'[k].scope = None
      BY <1>2 DEF IInv, Numbered
    <2> QED
      BY <1>1, <1>2, <1>4, <2>1, MoveKeeps
<1>6. Typed'
    <2>1. AclTyped'
      BY <1>1, <1>4 DEF IInv, Typed, AclTyped
    <2> QED
      BY <1>1, <1>5, <2>1, Frames DEF IInv, Typed
<1>7. Pairing'
    <2>1. \A k \in Links : k # l =>
             handler'[k].pc \notin {"persist", "publish", "revoke"}
      <3>1. \A k \in Links : k # None
        BY LoginAssumption DEF None
      <3> QED
        BY <1>1, <1>5, <3>1 DEF IInv, Pairing
    <2> QED
      BY <1>1, <1>2, <1>3, <1>4, <1>5, <2>1 DEF IInv, Pairing, Proven
<1>8. Credited'
    BY <1>1, <1>2, <1>4, <1>5, ExchangeFacts DEF IInv, Typed, AuthTyped, Credited
<1>9. Published' /\ RoleIsEarned' /\ PendingCleared'
    BY <1>1, <1>2, Frames DEF IInv, authVars
<1> QED
    BY <1>5, <1>6, <1>7, <1>8, <1>9 DEF IInv

LEMMA PublishStep ==
    ASSUME IInv, NEW l \in Links, Publish(l) PROVE IInv'
<1>1. /\ handler[l].pc = "publish" /\ acl' = acl \cup {Owner[l]} /\ lock' = None
      /\ Handle(l, "role")
      /\ UNCHANGED <<clientVars, netVars, sessVars, authVars, saved, sig, sigOf, troubles>>
      /\ \/ server' = acl \cup {Owner[l]} /\ UNCHANGED missed
         \/ missed' = missed \cup {Owner[l]} /\ UNCHANGED server
    BY DEF Publish
<1>2. UNCHANGED <<using, cli, toHost, toClient, sess, role, peers, pend, tokens, saved>>
    BY <1>1 DEF clientVars, netVars, sessVars, authVars
<1>3. Owner[l] \in Clients /\ lock = l /\ Owner[l] \in saved
    BY <1>1, LoginAssumption DEF IInv, Pairing
<1>4. /\ HandlerTyped' /\ Numbered' /\ Placed' /\ Successes' /\ OneFinish' /\ Owed'
      /\ \A k \in Links : k # l => handler'[k] = handler[k]
      /\ handler'[l].pc = "role" /\ handler'[l].n = handler[l].n
    <2>1. \A k \in Links : /\ pend'[k].n <= cli[k].n
                           /\ pend'[k].n = 0 <=> pend'[k].scope = None
      BY <1>2 DEF IInv, Numbered
    <2> QED
      BY <1>1, <1>2, <2>1, MoveKeeps
<1>5. Typed'
    <2>1. AclTyped'
      BY <1>1, <1>3 DEF IInv, Typed, AclTyped
    <2> QED
      BY <1>1, <1>4, <2>1, Frames DEF IInv, Typed
<1>6. Pairing'
    <2>1. \A k \in Links : k # None
      BY LoginAssumption DEF None
    <2>2. \A k \in Links : handler'[k].pc \notin {"persist", "publish", "revoke"}
      BY <1>3, <1>4 DEF IInv, Pairing
    <2> QED
      BY <1>1, <1>2, <1>3, <1>4, <2>1, <2>2 DEF IInv, Pairing, Proven
<1>7. Credited'
    BY <1>1, <1>2, <1>4, ExchangeFacts DEF IInv, Typed, AuthTyped, Credited
<1>8. Published'
    BY <1>1 DEF IInv, Published
<1>9. RoleIsEarned'
    BY <1>1, <1>2 DEF IInv, RoleIsEarned
<1>10. PendingCleared'
    BY <1>1, <1>2, Frames DEF IInv, authVars
<1> QED
    BY <1>4, <1>5, <1>6, <1>7, <1>8, <1>9, <1>10 DEF IInv

LEMMA GrantRoleStep ==
    ASSUME IInv, NEW l \in Links, GrantRole(l) PROVE IInv'
<1> DEFINE on == handler[l].on
<1>1. /\ handler[l].pc = "role" /\ role' = [role EXCEPT ![on] = "authenticated"]
      /\ Handle(l, "reply")
      /\ UNCHANGED <<clientVars, netVars, sess, peers, authVars, aclVars, troubles>>
    BY DEF GrantRole
<1>2. UNCHANGED <<using, cli, toHost, toClient, sess, peers, pend, tokens, acl, saved,
                  lock>>
    BY <1>1 DEF clientVars, netVars, authVars, aclVars
<1>3. /\ on \in Links /\ on # None /\ role \in [Links -> {"client", "authenticated"}]
      /\ role' \in [Links -> {"client", "authenticated"}]
      /\ \A k \in Links : role[k] = "authenticated" => role'[k] = "authenticated"
      /\ role'[on] = "authenticated" /\ \A k \in Links : k # on => role'[k] = role[k]
    BY <1>1 DEF IInv, Typed, SessTyped, HandlerTyped, Handlings, Numbered
<1>4. /\ HandlerTyped' /\ Numbered' /\ Placed' /\ Successes' /\ OneFinish'
      /\ \A k \in Links : k # l => handler'[k] = handler[k]
      /\ handler'[l].pc = "reply" /\ handler'[l].on = on /\ handler'[l].n = handler[l].n
    <2>1. \A k \in Links : /\ pend'[k].n <= cli[k].n
                           /\ pend'[k].n = 0 <=> pend'[k].scope = None
      BY <1>2 DEF IInv, Numbered
    <2> QED
      BY <1>1, <1>2, <1>3, <2>1, MoveKeeps
<1>5. Typed'
    <2>1. SessTyped'
      BY <1>2, <1>3 DEF IInv, Typed, SessTyped
    <2> QED
      BY <1>1, <1>4, <2>1, Frames DEF IInv, Typed
<1>6. Owner[l] \in acl /\ Owner[on] = Owner[l] /\ Exchange(l, handler[l].n) \in tokens
    BY <1>1 DEF IInv, Pairing, Placed, Proven
<1>7. Pairing'
    <2>1. ASSUME NEW k \in Links, handler'[k].pc = "reply"
          PROVE  role'[handler'[k].on] = "authenticated"
      <3>1. CASE k = l
        BY <1>3, <1>4, <3>1
      <3>2. CASE k # l
        <4>1. handler[k].on \in Links /\ role[handler[k].on] = "authenticated"
          BY <1>4, <2>1, <3>2, LoginAssumption
             DEF IInv, Typed, HandlerTyped, Handlings, Numbered, Pairing, None
        <4> QED
          BY <1>3, <1>4, <3>2, <4>1
      <3> QED
        BY <3>1, <3>2
    <2> QED
      BY <1>1, <1>2, <1>4, <1>6, <2>1 DEF IInv, Pairing, Proven
<1>8. Credited'
    BY <1>1, <1>2, <1>4, ExchangeFacts DEF IInv, Typed, AuthTyped, Credited
<1>9. Owed'
    <2> SUFFICES ASSUME NEW k \in Links, Waits(k)'
                 PROVE  Waits(k) /\ handler'[k] = handler[k]
      BY <1>2 DEF IInv, Owed
    <2>1. Waits(k) /\ k # on
      BY <1>2, <1>3 DEF Waits
    <2>2. k # l
      BY <1>1, <2>1 DEF Waits, IInv, Placed
    <2> QED
      BY <1>4, <2>1, <2>2
<1>10. RoleIsEarned'
    <2>1. Exchange(l, handler[l].n).link = l
      BY ExchangeFacts
    <2> QED
      BY <1>2, <1>3, <1>6, <2>1 DEF IInv, Pairing, RoleIsEarned
<1>11. Published' /\ PendingCleared'
    BY <1>1, Frames DEF IInv, authVars, aclVars
<1> QED
    BY <1>4, <1>5, <1>7, <1>8, <1>9, <1>10, <1>11 DEF IInv

LEMMA PersistStep ==
    ASSUME IInv, NEW l \in Links, Persist(l) PROVE IInv'
<1>1. /\ handler[l].pc = "persist"
      /\ UNCHANGED <<clientVars, toHost, sessVars, authVars, acl, lock, sig, server,
                     sigOf, missed>>
      /\ \/ /\ saved' = acl \cup {Owner[l]} /\ Handle(l, "publish")
            /\ UNCHANGED <<toClient, troubles>>
         \/ /\ troubles < MaxTroubles /\ troubles' = troubles + 1
            /\ saved' \in {saved, acl \cup {Owner[l]}}
            /\ Reply(l, "failed", handler[l].n) /\ Handle(l, "revoke")
    BY DEF Persist, Trouble
<1>2. UNCHANGED <<using, cli, toHost, sess, role, peers, pend, tokens, acl, lock>>
    BY <1>1 DEF clientVars, sessVars, authVars
<1>3. /\ Owner[l] \in Clients /\ lock = l /\ \A k \in Links : k # None
      /\ saved' \subseteq Clients /\ acl \subseteq saved'
    BY <1>1, LoginAssumption DEF IInv, Typed, AclTyped, Pairing, None
<1>4. \A k \in Links : /\ pend'[k].n <= cli[k].n
                       /\ pend'[k].n = 0 <=> pend'[k].scope = None
    BY <1>2 DEF IInv, Numbered
<1>5. AclTyped'
    BY <1>1, <1>3, LoginAssumption DEF IInv, Typed, AclTyped
\* Either way the list keeps its lock.
<1>6. ASSUME NEW pc \in {"publish", "revoke"}, handler'[l].pc = pc,
             handler'[l].n = handler[l].n,
             \A k \in Links : k # l => handler'[k] = handler[k],
             pc = "publish" => Owner[l] \in saved',
             NetTyped', HandlerTyped', Numbered', Placed', Successes', OneFinish', Owed'
      PROVE  IInv'
    <2>1. Typed'
      BY <1>1, <1>5, <1>6, Frames DEF IInv, Typed
    <2>2. Pairing'
      <3>1. \A k \in Links : k # l =>
               handler'[k].pc \notin {"persist", "publish", "revoke"}
        BY <1>3, <1>6 DEF IInv, Pairing
      <3> QED
        BY <1>1, <1>2, <1>3, <1>6, <3>1 DEF IInv, Pairing, Proven
    <2>3. Credited'
      BY <1>1, <1>2, <1>6, ExchangeFacts DEF IInv, Typed, AuthTyped, Credited
    <2>4. Published'
      BY <1>1, Frames DEF IInv
    <2>5. RoleIsEarned'
      BY <1>2, <1>3 DEF IInv, RoleIsEarned
    <2>6. PendingCleared'
      BY <1>1, <1>2, Frames DEF IInv, authVars
    <2> QED
      BY <1>6, <2>1, <2>2, <2>3, <2>4, <2>5, <2>6 DEF IInv
<1>7. CASE saved' = acl \cup {Owner[l]} /\ Handle(l, "publish") /\ UNCHANGED toClient
    <2>1. /\ HandlerTyped' /\ Numbered' /\ Placed' /\ Successes' /\ OneFinish' /\ Owed'
          /\ \A k \in Links : k # l => handler'[k] = handler[k]
          /\ handler'[l].pc = "publish" /\ handler'[l].n = handler[l].n
      BY <1>1, <1>2, <1>4, <1>7, MoveKeeps
    <2>2. NetTyped'
      BY <1>2, <1>7, Frames DEF IInv, netVars
    <2> QED
      BY <1>6, <1>7, <2>1, <2>2
<1>8. CASE Reply(l, "failed", handler[l].n) /\ Handle(l, "revoke")
    <2>1. /\ HandlerTyped'
          /\ \A k \in Links : k # l => handler'[k] = handler[k]
          /\ handler'[l].pc = "revoke" /\ handler'[l].on = handler[l].on
          /\ handler'[l].n = handler[l].n
      BY <1>8, HandleEffect DEF IInv, HandlerPcs
    <2>2. NetTyped' /\ Numbered' /\ Placed' /\ Successes' /\ OneFinish' /\ Owed'
      BY <1>1, <1>2, <1>4, <1>8, <2>1, AnswerKeeps
    <2> QED
      BY <1>6, <2>1, <2>2
<1> QED
    BY <1>1, <1>7, <1>8

\* Nobody whose credential is revoked has anything to show for it: the client of
\* who has the lock is not in the list.
LEMMA RevokeStep ==
    ASSUME IInv, NEW l \in Links, Revoke(l) PROVE IInv'
<1> DEFINE x == Exchange(l, handler[l].n)
<1>1. /\ handler[l].pc = "revoke" /\ tokens' = tokens \ {x} /\ lock' = None /\ Done(l)
      /\ UNCHANGED <<clientVars, netVars, sessVars, pend, timers, old, late, acl, saved,
                     sig, server, sigOf, troubles, missed>>
    BY DEF Revoke
<1>2. UNCHANGED <<using, cli, toHost, toClient, sess, role, peers, acl, saved>>
    BY <1>1 DEF clientVars, netVars, sessVars
<1>3. /\ HandlerTyped'
      /\ \A k \in Links : k # l => handler'[k] = handler[k]
      /\ handler'[l].pc = "idle" /\ handler'[l].on = None /\ handler'[l].n = 0
    BY <1>1, DoneEffect DEF IInv
<1>4. lock = l /\ \A k \in Links : k # None
    BY <1>1, LoginAssumption DEF IInv, Pairing, None
<1>5. \A y : Owner[y.link] \in acl /\ y \in tokens => y \in tokens'
    <2>1. Owner[x.link] \notin acl
      BY <1>4, ExchangeFacts DEF IInv, Pairing
    <2> QED
      BY <1>1, <2>1
<1>6. \A k \in Links : \A n : Exchange(k, n).link = k /\ Exchange(k, n).n = n
    BY ExchangeFacts
<1> HIDE DEF x
<1>7. Typed'
    <2>1. AuthTyped' /\ AclTyped'
      BY <1>1 DEF IInv, Typed, AuthTyped, AclTyped
    <2> QED
      BY <1>1, <1>3, <2>1, Frames DEF IInv, Typed
<1>8. Numbered'
    <2> SUFFICES ASSUME NEW k \in Links
                 PROVE  /\ \A y \in Items(toHost[k]) : handler'[k].n <= y.n
                        /\ handler'[k].on = None <=> handler'[k].pc = "idle"
                        /\ handler'[k].n <= cli[k].n
                        /\ handler'[k].pc # "idle" => handler'[k].n >= 1
      BY <1>1, <1>2 DEF IInv, Numbered
    <2>1. CASE k # l
      BY <1>3, <2>1 DEF IInv, Numbered
    <2>2. CASE k = l
      <3>1. \A y \in Items(toHost[l]) : y.n \in 1 .. cli[l].n
        BY DEF IInv, Numbered
      <3>2. cli[l].n \in Nat
        BY DEF IInv, Typed, ClientTyped, Attempts
      <3> QED
        BY <1>3, <2>2, <3>1, <3>2
    <2> QED
      BY <2>1, <2>2
<1>9. Placed'
    <2>1. \A k \in Links : sess[k] = "none" => k # l
      BY <1>1 DEF IInv, Placed, Idle
    <2> QED
      BY <1>2, <1>3, <2>1 DEF IInv, Placed
<1>10. Pairing'
    <2>1. \A k \in Links : handler'[k].pc \notin {"persist", "publish", "revoke"}
      BY <1>3, <1>4 DEF IInv, Pairing
    <2>2. ASSUME NEW k \in Links, handler'[k].pc \in Proven
          PROVE  Exchange(k, handler'[k].n) \in tokens'
      <3>1. k # l /\ handler'[k] = handler[k]
        BY <1>3, <2>2 DEF Proven
      <3>2. Exchange(k, handler[k].n) # x
        BY <1>6, <3>1 DEF x
      <3> QED
        BY <1>1, <2>2, <3>1, <3>2 DEF IInv, Pairing
    <2> QED
      BY <1>1, <1>2, <1>3, <1>4, <2>1, <2>2 DEF IInv, Pairing
<1>11. Successes'
    <2> SUFFICES ASSUME NEW k \in Links, NEW m \in Items(toClient[k]),
                        m.kind = "success", m.id = k
                 PROVE  /\ role[k] = "authenticated" /\ handler'[k].on # k
                        /\ Owner[k] \in acl /\ Exchange(k, m.n) \in tokens'
      BY <1>2 DEF Successes
    <2>1. /\ role[k] = "authenticated" /\ handler[k].on # k
          /\ Owner[k] \in acl /\ Exchange(k, m.n) \in tokens
      BY DEF IInv, Successes
    <2> QED
      BY <1>3, <1>4, <1>5, <1>6, <2>1
<1>12. Credited'
    <2>1. ASSUME NEW k \in Links, cli[k].st = "auth"
          PROVE  Owner[k] \in acl /\ Exchange(k, cli[k].tok) \in tokens'
      BY <1>5, <1>6, <2>1 DEF IInv, Credited
    <2>2. ASSUME NEW y \in tokens'
          PROVE  \/ Owner[y.link] \in acl
                 \/ /\ handler'[y.link].pc \in {"lock", "persist", "publish", "revoke"}
                    /\ handler'[y.link].n = y.n
      <3>1. y \in tokens /\ y # x /\ y.link \in Links /\ y = Exchange(y.link, y.n)
        BY <1>1, ExchangeFacts DEF IInv, Typed, AuthTyped
      <3>2. CASE y.link = l
        BY <3>1, <3>2 DEF IInv, Credited, x
      <3>3. CASE y.link # l
        BY <1>3, <3>1, <3>3 DEF IInv, Credited
      <3> QED
        BY <3>2, <3>3
    <2> QED
      BY <1>2, <2>1, <2>2 DEF Credited
<1>13. OneFinish'
    <2> SUFFICES ASSUME NEW k \in Links, NEW i \in 1 .. cli[k].n, Finishing(k, i)'
                 PROVE  Finishing(k, i)
      BY <1>2 DEF IInv, OneFinish
    <2>1. CASE k = l
      BY <1>2, <1>3, <2>1 DEF Finishing
    <2>2. CASE k # l
      BY <1>2, <1>3, <2>2 DEF Finishing
    <2> QED
      BY <2>1, <2>2
<1>14. Owed'
    <2>1. \A k \in Links :
             /\ handler[k].pc = "start" => handler'[k].pc = "start"
             /\ handler[k].pc \in {"finish", "lock", "persist", "publish", "role"}
                   => handler'[k].pc = handler[k].pc
      BY <1>1, <1>3
    <2> QED
      BY <1>2, <2>1 DEF IInv, Owed, Waits
<1>15. RoleIsEarned'
    <2> SUFFICES ASSUME NEW k \in Links, role[k] = "authenticated"
                 PROVE  /\ \E y \in tokens' : Owner[y.link] = Owner[k]
                        /\ Owner[k] \in acl \cap saved
      BY <1>2 DEF RoleIsEarned
    <2>1. PICK y \in tokens : Owner[y.link] = Owner[k]
      BY DEF IInv, RoleIsEarned
    <2>2. Owner[k] \in acl \cap saved
      BY DEF IInv, RoleIsEarned
    <2> QED
      BY <1>5, <2>1, <2>2
<1>16. Published' /\ PendingCleared'
    BY <1>1, <1>2, Frames DEF IInv
<1> QED
    BY <1>7, <1>8, <1>9, <1>10, <1>11, <1>12, <1>13, <1>14, <1>15, <1>16 DEF IInv

-----------------------------------------------------------------------------
(* Time and signaling *)

LEMMA AgeStep ==
    ASSUME IInv, NEW x \in Exchanges, Age(x) PROVE IInv'
<1>1. /\ troubles < MaxTroubles /\ troubles' = troubles + 1 /\ old' = old \cup {x}
      /\ UNCHANGED <<clientVars, netVars, sessVars, handler, pend, timers, tokens, late,
                     aclVars>>
    BY DEF Age, Trouble
<1>2. Typed'
    <2>1. AuthTyped'
      BY <1>1 DEF IInv, Typed, AuthTyped
    <2>2. AclTyped'
      BY <1>1, LoginAssumption DEF IInv, Typed, AclTyped, aclVars
    <2> QED
      BY <1>1, <2>1, <2>2, Frames DEF IInv, Typed
<1>3. /\ Numbered' /\ Placed' /\ Pairing' /\ Successes' /\ Credited' /\ OneFinish'
      /\ Owed' /\ Published' /\ RoleIsEarned' /\ PendingCleared'
    BY <1>1, Frames DEF IInv, clientVars, netVars, sessVars, aclVars
<1> QED
    BY <1>2, <1>3 DEF IInv

LEMMA ExpireStep ==
    ASSUME IInv, NEW x \in Exchanges, Expire(x) PROVE IInv'
<1>1. /\ timers' = timers \ {x} /\ old' = old \ {x}
      /\ pend' = IF pend[x.link].n = x.n THEN [pend EXCEPT ![x.link] = NoPending]
                 ELSE pend
      /\ UNCHANGED <<clientVars, netVars, sessVars, handler, tokens, late, aclVars,
                     troubles>>
    BY DEF Expire
<1>2. /\ pend \in [Links -> [n : Nat, scope : Links \cup {None}]] /\ x.link \in Links
      /\ x = Exchange(x.link, x.n)
    BY ExchangeFacts DEF IInv, Typed, AuthTyped
<1>3. /\ pend' \in [Links -> [n : Nat, scope : Links \cup {None}]]
      /\ \A k \in Links : \/ pend'[k] = pend[k] /\ Exchange(k, pend[k].n) # x
                          \/ pend'[k].n = 0 /\ pend'[k].scope = None
    <2>1. /\ NoPending \in [n : Nat, scope : Links \cup {None}]
          /\ NoPending.n = 0 /\ NoPending.scope = None
      BY DEF NoPending, None
    <2>2. \A k \in Links : \A n : Exchange(k, n).link = k /\ Exchange(k, n).n = n
      BY ExchangeFacts
    <2>3. CASE pend[x.link].n = x.n
      BY <1>1, <1>2, <2>1, <2>2, <2>3
    <2>4. CASE pend[x.link].n # x.n
      BY <1>1, <1>2, <2>2, <2>4
    <2> QED
      BY <2>3, <2>4
<1>4. Typed'
    <2>1. AuthTyped'
      BY <1>1, <1>3 DEF IInv, Typed, AuthTyped
    <2> QED
      BY <1>1, <2>1, Frames DEF IInv, Typed
<1>5. UNCHANGED <<cli, toHost, toClient, handler, sess, late>>
    BY <1>1 DEF clientVars, netVars, sessVars
<1>6. Numbered'
    <2>1. \A k \in Links : /\ pend'[k].n <= cli[k].n
                           /\ pend'[k].n = 0 <=> pend'[k].scope = None
      BY <1>3 DEF IInv, Typed, ClientTyped, Attempts, Numbered
    <2> QED
      BY <1>5, <2>1 DEF IInv, Numbered
<1>7. PendingCleared'
    BY <1>1, <1>3, <1>5 DEF IInv, PendingCleared
<1>8. /\ Placed' /\ Pairing' /\ Successes' /\ Credited' /\ OneFinish' /\ Owed'
      /\ Published' /\ RoleIsEarned'
    BY <1>1, Frames DEF IInv, clientVars, netVars, sessVars, aclVars
<1> QED
    BY <1>4, <1>6, <1>7, <1>8 DEF IInv

LEMMA ReconnectStep ==
    ASSUME IInv, Reconnect PROVE IInv'
<1>1. /\ troubles < MaxTroubles /\ troubles' = troubles + 1
      /\ sig' = [n |-> sig.n + 1, published |-> FALSE] /\ server' = {}
      /\ UNCHANGED <<clientVars, netVars, sessVars, handler, authVars, acl, saved, lock,
                     sigOf, missed>>
    BY DEF Reconnect, Trouble
<1>2. Typed'
    <2>1. AclTyped'
      BY <1>1, LoginAssumption DEF IInv, Typed, AclTyped
    <2> QED
      BY <1>1, <2>1, Frames DEF IInv, Typed
<1>3. Published'
    BY <1>1 DEF Published
<1>4. /\ Numbered' /\ Placed' /\ Pairing' /\ Successes' /\ Credited' /\ OneFinish'
      /\ Owed' /\ RoleIsEarned' /\ PendingCleared'
    BY <1>1, Frames DEF IInv, clientVars, netVars, sessVars, authVars
<1> QED
    BY <1>2, <1>3, <1>4 DEF IInv

LEMMA RepublishStep ==
    ASSUME IInv, Republish PROVE IInv'
<1>1. /\ sig' = [sig EXCEPT !.published = TRUE] /\ server' = acl /\ missed' = {}
      /\ UNCHANGED <<clientVars, netVars, sessVars, handler, authVars, acl, saved, lock,
                     sigOf, troubles>>
    BY DEF Republish
<1>2. Typed'
    <2>1. AclTyped'
      BY <1>1 DEF IInv, Typed, AclTyped
    <2> QED
      BY <1>1, <2>1, Frames DEF IInv, Typed
<1>3. Published'
    BY <1>1 DEF Published
<1>4. /\ Numbered' /\ Placed' /\ Pairing' /\ Successes' /\ Credited' /\ OneFinish'
      /\ Owed' /\ RoleIsEarned' /\ PendingCleared'
    BY <1>1, Frames DEF IInv, clientVars, netVars, sessVars, authVars
<1> QED
    BY <1>2, <1>3, <1>4 DEF IInv

LEMMA StepHolds == IInv /\ [Next]_vars => IInv'
<1> SUFFICES ASSUME IInv, [Next]_vars PROVE IInv'
    OBVIOUS
<1>1. CASE UNCHANGED vars
    BY <1>1, Frames DEF IInv, Typed, vars, clientVars, netVars, sessVars, authVars, aclVars
<1>2. ASSUME NEW l \in Links, Client(l) PROVE IInv'
    BY <1>2, AuthenticateStep, OnResponseStep, OnSuccessStep, OnFailedStep DEF Client
<1>3. ASSUME NEW l \in Links, Handler(l) PROVE IInv'
    BY <1>3, TakeStep, BeginStep, FinishStep, PairStep, PersistStep, RevokeStep,
       PublishStep, GrantRoleStep, SucceedStep DEF Handler
<1>4. ASSUME NEW l \in Links, Link(l) PROVE IInv'
    BY <1>4, OpenStep, DownStep, CancelStep, LeaveStep DEF Link
<1>5. ASSUME NEW x \in Exchanges, Age(x) \/ Expire(x) PROVE IInv'
    BY <1>5, AgeStep, ExpireStep
<1>6. CASE Reconnect \/ Republish
    BY <1>6, ReconnectStep, RepublishStep
<1> QED
    BY <1>1, <1>2, <1>3, <1>4, <1>5, <1>6 DEF Next

LEMMA Invariance == Spec => []IInv
<1> QED
    BY InitHolds, StepHolds, PTL DEF Spec

-----------------------------------------------------------------------------
(* The theorems *)

\* Every variable keeps its type; the numbers of the tries keep to the passcodes
\* that are entered, and those of the signaling connections to the troubles.
THEOREM TypeCorrect == Spec => []TypeOK
<1>1. IInv => TypeOK
    <2> SUFFICES ASSUME IInv PROVE TypeOK
      OBVIOUS
    <2>1. ASSUME NEW l \in Links
          PROVE  /\ cli[l].st \in AuthStates
                 /\ {cli[l].n, cli[l].handle, cli[l].cred, cli[l].tok}
                        \subseteq 0 .. Tries[l]
                 /\ sess[l] \in {"none", "live", "closing", "cancelled", "gone"}
                 /\ role[l] \in {"client", "authenticated"}
                 /\ handler[l].pc \in HandlerPcs
                 /\ handler[l].on = None <=> handler[l].pc = "idle"
                 /\ pend[l].n \in 0 .. Tries[l] /\ pend[l].scope \in Links \cup {None}
                 /\ pend[l].n = 0 <=> pend[l].scope = None
                 /\ sigOf[l] \in 0 .. MaxTroubles + 1
      <3>1. /\ cli[l].st \in AuthStates /\ cli[l].n \in Nat /\ cli[l].handle \in Nat
            /\ cli[l].cred \in Nat /\ cli[l].tok \in Nat /\ Tries[l] \in Nat
            /\ handler[l].pc \in HandlerPcs
            /\ pend[l].n \in Nat /\ pend[l].scope \in Links \cup {None}
        BY LoginAssumption DEF IInv, Typed, ClientTyped, Attempts, HandlerTyped,
                               Handlings, AuthTyped
      <3>2. /\ {cli[l].n, cli[l].handle, cli[l].cred, cli[l].tok} \subseteq 0 .. Tries[l]
            /\ pend[l].n \in 0 .. Tries[l]
        BY <3>1 DEF IInv, Numbered
      <3>3. sigOf[l] \in 0 .. MaxTroubles + 1
        BY LoginAssumption DEF IInv, Typed, AclTyped
      <3>4. /\ handler[l].on = None <=> handler[l].pc = "idle"
            /\ pend[l].n = 0 <=> pend[l].scope = None
        BY DEF IInv, Numbered
      <3> QED
        BY <3>1, <3>2, <3>3, <3>4 DEF IInv, Typed, SessTyped
    <2>2. sig \in [n : 1 .. MaxTroubles + 1, published : BOOLEAN]
      BY LoginAssumption DEF IInv, Typed, AclTyped
    <2> QED
      BY <2>1, <2>2 DEF IInv, Typed, ClientTyped, SessTyped, AuthTyped, AclTyped, TypeOK
<1> QED
    BY <1>1, Invariance, PTL

\* A session has the authenticated role only if its client has proved itself and
\* is in the list, in memory and on disk, whatever logins and pairings run beside.
THEOREM RolesAreEarned == Spec => []RoleIsEarned
<1>1. IInv => RoleIsEarned
    BY DEF IInv
<1> QED
    BY <1>1, Invariance, PTL

\* Client and host agree on credentials, and a failed pairing leaves none.
THEOREM CredentialsMatch == Spec => []CredentialsAgree
<1>1. IInv => CredentialsAgree
    BY DEF IInv, Credited, CredentialsAgree
<1> QED
    BY <1>1, Invariance, PTL

\* No pending login is left behind by its session or by the clock.
THEOREM PendingIsCleared == Spec => []PendingCleared
<1>1. IInv => PendingCleared
    BY DEF IInv
<1> QED
    BY <1>1, Invariance, PTL

\* A client that waits on a live link is owed an answer.
THEOREM AnswersAreOwed == Spec => []AnswerOwed
<1>1. IInv => AnswerOwed
    <2> SUFFICES ASSUME IInv, NEW l \in Links, Waits(l),
                        cli[l].st \in {"awaiting", "sending"},
                        toHost[l] = <<>>, toClient[l] = <<>>
                 PROVE  handler[l].pc # "idle"
      BY DEF AnswerOwed, Waits
    <2>1. Items(toHost[l]) = {} /\ Items(toClient[l]) = {}
      BY DEF Items
    <2> QED
      BY <2>1 DEF IInv, Owed
<1> QED
    BY <1>1, Invariance, PTL

\* What the signaling server may let through is what the host allows.
THEOREM ListIsPublished == Spec => []ListPublished
<1>1. IInv => ListPublished
    BY DEF IInv, Published, ListPublished
<1> QED
    BY <1>1, Invariance, PTL

\* The expiry tasks end no login that is younger than 30 s.
THEOREM YoungLoginsKept == Spec => YoungKept
<1> DEFINE Kept == \A l \in Links :
             (Young(l) /\ pend'[l].n # pend[l].n) =>
                 \/ handler[l].pc = "finish"
                 \/ sess[pend[l].scope] = "closing"
<1>1. ASSUME IInv, Next PROVE Kept
    <2>1. ASSUME UNCHANGED pend PROVE Kept
      BY <2>1
    <2>2. ASSUME NEW l \in Links, Cancel(l) PROVE Kept
      BY <2>2 DEF Cancel
    <2>3. ASSUME NEW l \in Links, Begin(l) PROVE Kept
      <3>1. \A k \in Links : Young(k) => pend'[k] = pend[k]
        BY <2>3 DEF Begin
      <3> QED
        BY <3>1
    <2>4. ASSUME NEW l \in Links, Finish(l) PROVE Kept
      <3>1. handler[l].pc = "finish" /\ \A k \in Links : k # l => pend'[k] = pend[k]
        BY <2>4 DEF Finish, IInv, Typed, AuthTyped
      <3> QED
        BY <3>1
    <2>5. ASSUME NEW x \in Exchanges, Expire(x) PROVE Kept
      <3>1. x \in old /\ x = Exchange(x.link, x.n)
        BY <2>5, ExchangeFacts DEF Expire
      <3>2. \A k \in Links : Young(k) => k # x.link \/ pend[k].n # x.n
        BY <3>1 DEF Young
      <3>3. \A k \in Links : Young(k) => pend'[k] = pend[k]
        BY <2>5, <3>2 DEF Expire, IInv, Typed, AuthTyped
      <3> QED
        BY <3>3
    <2> HIDE DEF Kept
    <2>6. ASSUME NEW l \in Links, Client(l) PROVE Kept
      BY <2>1, <2>6 DEF Client, Authenticate, OnResponse, OnSuccess, OnFailed, authVars
    <2>7. ASSUME NEW l \in Links, Handler(l) PROVE Kept
      <3>1. CASE Take(l) \/ Pair(l) \/ Persist(l) \/ Revoke(l) \/ Publish(l)
                 \/ GrantRole(l) \/ Succeed(l)
        BY <2>1, <3>1 DEF Take, Pair, Persist, Revoke, Publish, GrantRole, Succeed,
                          authVars
      <3> QED
        BY <2>3, <2>4, <2>7, <3>1 DEF Handler
    <2>8. ASSUME NEW l \in Links, Link(l) PROVE Kept
      BY <2>1, <2>2, <2>8 DEF Link, Open, Down, Leave, authVars
    <2>9. ASSUME NEW x \in Exchanges, Age(x) PROVE Kept
      BY <2>1, <2>9 DEF Age
    <2>10. CASE Reconnect \/ Republish
      BY <2>1, <2>10 DEF Reconnect, Republish, authVars
    <2> QED
      BY <1>1, <2>5, <2>6, <2>7, <2>8, <2>9, <2>10 DEF Next
<1>2. IInv /\ [Next]_vars => [Kept]_vars
    BY <1>1
<1> QED
    BY <1>2, Invariance, PTL DEF Spec, YoungKept

=============================================================================
