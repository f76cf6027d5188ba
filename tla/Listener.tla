------------------------------ MODULE Listener ------------------------------
(***************************************************************************)
(* A connection of the public service from accept to its end: the lease    *)
(* BoundedListener takes before TLS (public_listener.py), the budget it is *)
(* counted in (ConnectionBudget and Lease of public_policy.py), and the    *)
(* first record that binds it to a grant (NativeProtection.accept of       *)
(* native_crypto.py), which is awaited between two checks.                 *)
(*                                                                         *)
(* Two coroutines serve a connection, and either may be cancelled at any   *)
(* await: attach, and the handler it creates once TLS is up.  Both release *)
(* the lease when they end.  A socket of the model is used again when both *)
(* have.                                                                   *)
(***************************************************************************)
EXTENDS Integers, FiniteSets

CONSTANTS
    None,
    Sockets,
    Addresses,        \* of the peers
    Users,            \* accounts, with one grant each at a time
    Identities,       \* (channel, connection id) pairs the clients choose
    PendingLimit,     \* pending_connections (64)
    AddressLimit,     \* pending_per_ip (8)
    ActiveLimit,      \* authenticated_connections (400)
    UserLimit,        \* connections_per_uid (4)
    IdentityLimit,    \* connection identities of a grant (32)
    Replays           \* bound: how often a first record reaches the service

ASSUME ListenerAssumption ==
    /\ None \notin Sockets \cup Addresses \cup Users
    /\ {PendingLimit, AddressLimit, ActiveLimit, UserLimit, IdentityLimit, Replays} \subseteq Nat

VARIABLES
    at,           \* socket -> where its coroutines wait
    peer,         \* socket -> address it was accepted from
    claim,        \* socket -> grant and identity its header named, or None
    uid,          \* Lease.uid
    released,     \* Lease.closed
    pending, by_ip, active, by_uid,   \* ConnectionBudget
    transport_connections,            \* of the grant of an account
    served        \* history: user -> identity -> connections admitted, by this grant

listenerVars == <<at, peer, claim, uid, released, pending, by_ip, active, by_uid,
                  transport_connections, served>>
budgetVars == <<uid, released, pending, by_ip, active, by_uid>>
identityVars == <<transport_connections, served>>

\* free: not accepted.  tls: attach waits for the handshake.  starting: the
\* handler's task exists.  header, body: the handler waits for a part of the
\* first record.  busy: it serves.  ended: only attach is left.
Places == {"free", "tls", "starting", "header", "body", "busy", "ended"}

ListenerInit ==
    /\ at = [s \in Sockets |-> "free"]
    /\ peer = [s \in Sockets |-> None]
    /\ claim = [s \in Sockets |-> None]
    /\ uid = [s \in Sockets |-> None]
    /\ released = [s \in Sockets |-> TRUE]
    /\ pending = 0 /\ by_ip = [p \in Addresses |-> 0]
    /\ active = 0 /\ by_uid = [u \in Users |-> 0]
    /\ transport_connections = [u \in Users |-> {}]
    /\ served = [u \in Users |-> [i \in Identities |-> 0]]

-----------------------------------------------------------------------------
(* The budget                                                              *)

\* accept: acquire counts the connection, or it is closed at once.
Accept(s, p) ==
    /\ at[s] = "free"
    /\ pending < PendingLimit /\ by_ip[p] < AddressLimit
    /\ pending' = pending + 1
    /\ by_ip' = [by_ip EXCEPT ![p] = @ + 1]
    /\ at' = [at EXCEPT ![s] = "tls"]
    /\ peer' = [peer EXCEPT ![s] = p]
    /\ claim' = [claim EXCEPT ![s] = None]
    /\ uid' = [uid EXCEPT ![s] = None]
    /\ released' = [released EXCEPT ![s] = FALSE]
    /\ UNCHANGED <<active, by_uid, identityVars>>

\* Mutant: a lease is released as often as its coroutines end.
Always(s) == TRUE
Releases(s) == ~released[s]

\* Lease.release
Release(s) ==
    /\ released' = [released EXCEPT ![s] = TRUE]
    /\ IF ~Releases(s) THEN UNCHANGED <<pending, by_ip, active, by_uid>>
       ELSE IF uid[s] = None
       THEN /\ pending' = pending - 1
            /\ by_ip' = [by_ip EXCEPT ![peer[s]] = @ - 1]
            /\ UNCHANGED <<active, by_uid>>
       ELSE /\ active' = active - 1
            /\ by_uid' = [by_uid EXCEPT ![uid[s]] = @ - 1]
            /\ UNCHANGED <<pending, by_ip>>
    /\ UNCHANGED uid

\* Lease.promote
Promotable(u) == active < ActiveLimit /\ by_uid[u] < UserLimit
Promote(s, u) ==
    /\ pending' = pending - 1
    /\ by_ip' = [by_ip EXCEPT ![peer[s]] = @ - 1]
    /\ uid' = [uid EXCEPT ![s] = u]
    /\ active' = active + 1
    /\ by_uid' = [by_uid EXCEPT ![u] = @ + 1]
    /\ UNCHANGED released

Move(s, place) == at' = [at EXCEPT ![s] = place]

-----------------------------------------------------------------------------
(* The coroutines                                                          *)

Handshake(s) ==
    /\ at[s] = "tls" /\ Move(s, "starting")
    /\ UNCHANGED <<peer, claim, budgetVars, identityVars>>

Start(s) ==
    /\ at[s] = "starting" /\ Move(s, "header")
    /\ UNCHANGED <<peer, claim, budgetVars, identityVars>>

\* attach is cancelled, or TLS fails or times out, before the handler has run:
\* its own release is never reached.
Abandon(s) ==
    /\ at[s] \in {"tls", "starting"} /\ Move(s, "free")
    /\ Release(s)
    /\ UNCHANGED <<peer, claim, identityVars>>

\* The handler ends: its client leaves, sends what is refused or is too slow,
\* or it is cancelled.
End(s) ==
    /\ at[s] \in {"header", "body", "busy"} /\ Move(s, "ended")
    /\ Release(s)
    /\ UNCHANGED <<peer, claim, identityVars>>

\* attach resumes behind it.
Detach(s) ==
    /\ at[s] = "ended" /\ Move(s, "free")
    /\ Release(s)
    /\ UNCHANGED <<peer, claim, identityVars>>

\* Mutant: what the first check found is relied upon after the await.
Trusts(u, i) == TRUE
Unused(u, i) ==
    /\ i \notin transport_connections[u]
    /\ Cardinality(transport_connections[u]) < IdentityLimit

\* The header names a grant, and an identity that it has not seen.
Header(s, u, i) ==
    /\ at[s] = "header"
    /\ i \notin transport_connections[u]
    /\ Cardinality(transport_connections[u]) < IdentityLimit
    /\ claim' = [claim EXCEPT ![s] = [user |-> u, identity |-> i]]
    /\ Move(s, "body")
    /\ UNCHANGED <<peer, budgetVars, identityVars>>

\* The body authenticates it.  The identity is spent, whether or not the
\* account may have another connection.
Body(s) ==
    /\ at[s] = "body" /\ claim[s] # None
    /\ LET u == claim[s].user  i == claim[s].identity
       IN  /\ served[u][i] < Replays
           /\ Unused(u, i)
           /\ transport_connections' = [transport_connections EXCEPT ![u] = @ \cup {i}]
           /\ served' = [served EXCEPT ![u][i] = @ + 1]
           /\ IF Promotable(u) THEN Promote(s, u) /\ Move(s, "busy")
              ELSE Release(s) /\ Move(s, "ended")
    /\ UNCHANGED <<peer, claim>>

\* The grant is released, and the account gets another: its identities are
\* forgotten, and validate fails for whoever waits for a body under it.
Regrant(u) ==
    /\ transport_connections[u] # {}
    /\ transport_connections' = [transport_connections EXCEPT ![u] = {}]
    /\ served' = [served EXCEPT ![u] = [i \in Identities |-> 0]]
    /\ claim' = [s \in Sockets |-> IF claim[s] # None /\ claim[s].user = u THEN None ELSE claim[s]]
    /\ UNCHANGED <<at, peer, budgetVars>>

ListenerNext ==
    \/ \E s \in Sockets :
           \/ \E p \in Addresses : Accept(s, p)
           \/ Handshake(s) \/ Start(s) \/ Abandon(s)
           \/ \E u \in Users, i \in Identities : Header(s, u, i)
           \/ Body(s) \/ End(s) \/ Detach(s)
    \/ \E u \in Users : Regrant(u)

-----------------------------------------------------------------------------
Unbound == {s \in Sockets : ~released[s] /\ uid[s] = None}
Bound(u) == {s \in Sockets : ~released[s] /\ uid[s] = u}

\* Every connection is counted in one place from accept to its end, however
\* its two coroutines end, and no limit is passed: what is left behind by
\* those that are over would refuse everybody else for ever.  A recorded
\* first record opens one connection at most, while the identity is spent
\* between two awaits of connections that present it together.
ConnectionsCounted ==
    /\ pending = Cardinality(Unbound)
    /\ active = Cardinality(UNION {Bound(u) : u \in Users})
    /\ \A p \in Addresses : by_ip[p] = Cardinality({s \in Unbound : peer[s] = p})
    /\ \A u \in Users : by_uid[u] = Cardinality(Bound(u)) /\ by_uid[u] <= UserLimit
    /\ pending <= PendingLimit /\ active <= ActiveLimit
    /\ \A s \in Sockets : released[s] <=> at[s] \in {"free", "ended"}
    /\ \A u \in Users :
           /\ Cardinality(transport_connections[u]) <= IdentityLimit
           /\ \A i \in Identities : served[u][i] <= 1
=============================================================================
