-------------------------- MODULE NativeAdmission --------------------------
(***************************************************************************)
(* Admission to the native service: the grants of                          *)
(* server/kk_local/native_admission.py, the SDK and game connections that  *)
(* use them (native_service.py, handlers/session.py, engine.py) and the    *)
(* UDP endpoints bound to them (native_relay.py).                          *)
(*                                                                         *)
(* A grant is a NativeGrant object, never used twice.  A link is one TCP   *)
(* connection with the coroutine that serves it, sdk() or game(); between  *)
(* two of its steps anything else may happen, and it may end at any time:  *)
(* Close is the coroutine's finally.  A request that is refused raises,    *)
(* which ends the coroutine, so refusals need no step of their own.        *)
(* Time is a set of deadlines that have passed.                            *)
(***************************************************************************)
EXTENDS Naturals, FiniteSets

CONSTANTS
    Users,          \* account uids
    LoginsPerUser,  \* sessions an account has at a time
    Grants,         \* identities of NativeGrant objects
    Links,          \* identities of connections and their coroutines
    Peers,          \* UDP source addresses
    None,
    Limit           \* admission limit: grants at a time

Sessions == Users \X (1 .. LoginsPerUser)
Deadlines == {"issue", "admission", "login", "handoff"}
Phases == {"CONNECTED", "BOOTSTRAP", "PROFILE", "HANDOFF", "LOBBY", "CLOSED"}

ASSUME AdmissionAssumption ==
    /\ None \notin Users \cup Grants \cup Links \cup Peers \cup Sessions
    /\ LoginsPerUser \in Nat /\ Limit \in Nat
    /\ IsFiniteSet(Grants)

VARIABLES
    public_policy,  \* whether the service was started with a public policy
    session,        \* auth_sessions: "live", "expired" or "removed"
    tickets,        \* sessions with an unused ticket
    \* NativeAdmission
    grants, by_uid,
    \* NativeGrant
    session_of, ready, sdk_connected, sdk_admitted, udp_peer,
    overdue,        \* deadlines of the grant and its engine that have passed
    \* Engine, None or absent until the first 1010
    engine,         \* the grants that have one
    bootstrap, game,
    pending_handoff,
    p2p,            \* the grants whose engine has a live lease
    engines,        \* RoomHub.engines: account -> the grant its engine is of
    \* NativeRelay
    peers,
    \* coroutines
    service,        \* "idle", "sdk" or "game"
    outer,          \* the grant the connection was encrypted for
    held,           \* the coroutine's own variable grant
    phase           \* Connection.phase

auth_vars == <<public_policy, session, tickets>>
grant_vars == <<session_of, ready, sdk_admitted, overdue, pending_handoff>>
registry_vars == <<grants, by_uid, engines>>
engine_vars == <<bootstrap, game, p2p, phase>>
link_vars == <<service, outer, held>>
vars == <<auth_vars, registry_vars, grant_vars, sdk_connected, udp_peer, engine, engine_vars,
          peers, link_vars>>

uid(g) == session_of[g][1]

\* Mutant: the time to enter the game is not limited.
ValidUndated(g) ==
    /\ g \in grants
    /\ session[session_of[g]] = "live"
    /\ g \notin engine => "issue" \notin overdue[g]
    /\ g \in engine /\ game[g] = None /\ g \in pending_handoff => "handoff" \notin overdue[g]

\* NativeAdmission.validate: whether the grant may act now.
Valid(g) ==
    /\ g \in grants
    /\ session[session_of[g]] = "live"
    /\ public_policy /\ game[g] = None => "admission" \notin overdue[g]
    /\ g \notin engine => "issue" \notin overdue[g]
    /\ g \in engine /\ game[g] = None /\ g \in pending_handoff => "handoff" \notin overdue[g]

Invalid == {g \in grants : ~Valid(g)}

\* NativeRelay.forget.
Forgotten(R) == [p \in Peers |-> IF peers[p] \in R THEN None ELSE peers[p]]

\* Mutant: a released grant keeps its account.
Unindexed(R) == by_uid
\* by_uid without the grants R.
Index(R) == [u \in Users |-> IF by_uid[u] \in R THEN None ELSE by_uid[u]]

\* What release() does to the engines of the grants R: the room is left, both
\* connections are disconnected and the hub forgets the engine.
Detach(R) ==
    /\ engines' = [u \in Users |-> IF engines[u] \in R THEN None ELSE engines[u]]
    /\ bootstrap' = [g \in Grants |-> IF g \in R THEN None ELSE bootstrap[g]]
    /\ game' = [g \in Grants |-> IF g \in R THEN None ELSE game[g]]
    /\ p2p' = p2p \ R
    /\ phase' = [l \in Links |-> IF \E g \in R : l \in {bootstrap[g], game[g]}
                                 THEN "CLOSED" ELSE phase[l]]

\* NativeAdmission.release of the grants R; a second release does nothing.
Release(R) ==
    /\ grants' = grants \ R
    /\ by_uid' = Index(R \cap grants)
    /\ Detach(R \cap grants)

-----------------------------------------------------------------------------
(* Sessions and tickets (auth.py)                                          *)

\* The identity of a session that ended serves again for a later one.
Login(s) ==
    /\ session[s] # "live"
    /\ \A g \in grants : session_of[g] # s
    /\ session' = [session EXCEPT ![s] = "live"]
    /\ UNCHANGED <<public_policy, tickets, registry_vars, grant_vars, sdk_connected, udp_peer, engine, engine_vars, peers, link_vars>>

SelectRegion(s) ==
    /\ session[s] = "live"
    /\ tickets' = tickets \cup {s}
    /\ UNCHANGED <<public_policy, session, registry_vars, grant_vars, sdk_connected, udp_peer, engine, engine_vars, peers, link_vars>>

ExpireSession(s) ==
    /\ session[s] = "live"
    /\ session' = [session EXCEPT ![s] = "expired"]
    /\ tickets' = tickets \ {s}
    /\ UNCHANGED <<public_policy, registry_vars, grant_vars, sdk_connected, udp_peer, engine, engine_vars, peers, link_vars>>

\* Mutant: the handlers are told of nothing.
Unrevoked(s) == {}
\* The grants that lose their session with it: public admission has the
\* removal of a session call revoke_session when it commits.
Revoked(s) == IF public_policy THEN {g \in grants : session_of[g] = s} ELSE {}

\* A newer login, a password reset or a suspension of the account removes a
\* session; a logout also prunes, which without public policy is what
\* releases the grant.
RemoveSession(s, logout) ==
    /\ session[s] \in {"live", "expired"}
    /\ session' = [session EXCEPT ![s] = "removed"]
    /\ tickets' = tickets \ {s}
    /\ Release(Revoked(s) \cup (IF logout THEN Invalid \cup {g \in grants : session_of[g] = s} ELSE {}))
    /\ UNCHANGED <<public_policy, grant_vars, sdk_connected, udp_peer, engine, peers, link_vars>>

-----------------------------------------------------------------------------
(* Grants (native_admission.py)                                            *)

\* Maintenance, or a request for a grant that is refused in the end.
Prune ==
    /\ Invalid # {}
    /\ Release(Invalid)
    /\ UNCHANGED <<auth_vars, grant_vars, sdk_connected, udp_peer, engine, peers, link_vars>>

\* Mutant: a new grant takes the place of the account's old one.
Displaced(s) == Invalid \cup {g \in grants : uid(g) = s[1]}
\* What issue() releases before it looks for a vacancy.
Vacated(s) == Invalid

\* issue: prunes first, then registers one grant of an account that has none.
Issue(s, g) ==
    LET stale == Vacated(s)
    IN  /\ s \in tickets /\ session[s] = "live"
        /\ session_of[g] = None
        /\ by_uid[s[1]] \in stale \cup {None}
        /\ Cardinality(grants \ stale) < Limit
        /\ tickets' = tickets \ {s}
        /\ session_of' = [session_of EXCEPT ![g] = s]
        /\ grants' = (grants \ stale) \cup {g}
        /\ by_uid' = [Index(stale) EXCEPT ![s[1]] = g]
        /\ Detach(stale)
        /\ UNCHANGED <<public_policy, session, ready, sdk_admitted, overdue, pending_handoff,
                       sdk_connected, udp_peer, engine, peers, link_vars>>

\* for_session and set_ready: only the session the grant was issued to.
SetReady(g) ==
    /\ Valid(g)
    /\ ready' = ready \cup {g}
    /\ UNCHANGED <<auth_vars, registry_vars, session_of, sdk_admitted, overdue, pending_handoff,
                   sdk_connected, udp_peer, engine, engine_vars, peers, link_vars>>

\* cancel_game.
CancelGame(g) ==
    /\ Valid(g)
    /\ Release({g})
    /\ UNCHANGED <<auth_vars, grant_vars, sdk_connected, udp_peer, engine, peers, link_vars>>

\* A deadline passes: of the unused grant, of admission, of the engine's
\* authenticated session, or of a pending handoff.
Lapse(g, d) ==
    /\ g \in grants
    /\ d \notin overdue[g]
    /\ CASE d = "issue" -> g \notin engine
         [] d = "admission" -> public_policy /\ game[g] = None
         [] d = "login" -> g \in engine
         [] d = "handoff" -> g \in pending_handoff
    /\ overdue' = [overdue EXCEPT ![g] = @ \cup {d}]
    /\ UNCHANGED <<auth_vars, registry_vars, session_of, ready, sdk_admitted, pending_handoff,
                   sdk_connected, udp_peer, engine, engine_vars, peers, link_vars>>
=============================================================================
