--------------------------- MODULE NativeService ---------------------------
(***************************************************************************)
(* The connections of the native service: the SDK and game coroutines and  *)
(* the UDP bindings of NativeAdmission's grants, as one state machine, and *)
(* the properties that make admission correct.                             *)
(***************************************************************************)
EXTENDS NativeAdmission

\* NativeProtection.accept: the first record decrypted under a valid grant.
Accept(l, g, kind) ==
    /\ service[l] = "idle"
    /\ Valid(g)
    /\ service' = [service EXCEPT ![l] = kind]
    /\ outer' = [outer EXCEPT ![l] = g]
    /\ phase' = [phase EXCEPT ![l] = "CONNECTED"]
    /\ UNCHANGED <<auth_vars, registry_vars, grant_vars, sdk_connected, udp_peer, engine,
                   bootstrap, game, p2p, peers, held>>

-----------------------------------------------------------------------------
(* SDK connections                                                         *)

\* Mutant: the slot is not looked at again.
Unclaimed(g) == g \notin engine
\* claim_sdk: one SDK connection at a time, and only before the engine exists.
Claimable(g) == g \notin sdk_connected /\ g \notin engine

ClaimSdk(l) ==
    /\ service[l] = "sdk" /\ held[l] = None
    /\ Valid(outer[l]) /\ Claimable(outer[l])
    /\ held' = [held EXCEPT ![l] = outer[l]]
    /\ sdk_connected' = sdk_connected \cup {outer[l]}
    /\ UNCHANGED <<auth_vars, registry_vars, grant_vars, udp_peer, engine, engine_vars, peers, service, outer>>

\* The directory request, validated again after the reads before it.
AdmitSdk(l) ==
    /\ service[l] = "sdk" /\ held[l] # None
    /\ Valid(held[l])
    /\ sdk_admitted' = sdk_admitted \cup {held[l]}
    /\ UNCHANGED <<auth_vars, registry_vars, session_of, ready, overdue, pending_handoff,
                   sdk_connected, udp_peer, engine, engine_vars, peers, link_vars>>

-----------------------------------------------------------------------------
(* Game connections                                                        *)

\* resolve: the first login message of a game connection.
Resolves(l) ==
    /\ service[l] = "game" /\ held[l] = None
    /\ Valid(outer[l])
    /\ outer[l] \in sdk_admitted

\* 1010: creates the engine at its first use, which the hub lists; one
\* bootstrap connection and no game connection, while the session granted to
\* the engine is recent.
Bootstrap(l) ==
    LET g == outer[l]
    IN  /\ Resolves(l)
        /\ g \in engine \/ engines[uid(g)] = None
        /\ bootstrap[g] = None /\ game[g] = None
        /\ g \in engine => "login" \notin overdue[g]
        /\ engine' = engine \cup {g}
        /\ engines' = [engines EXCEPT ![uid(g)] = g]
        /\ held' = [held EXCEPT ![l] = g]
        /\ bootstrap' = [bootstrap EXCEPT ![g] = l]
        /\ phase' = [phase EXCEPT ![l] = "BOOTSTRAP"]
        /\ UNCHANGED <<auth_vars, grants, by_uid, grant_vars, sdk_connected, udp_peer,
                       game, p2p, peers, service, outer>>

\* A message on a connection that has logged in, or its pulse.
Serves(l) == service[l] = "game" /\ held[l] # None /\ Valid(held[l])

\* The pulse delivers the profile once the client is ready for it.
ProfileReady(l) ==
    /\ Serves(l)
    /\ phase[l] = "BOOTSTRAP"
    /\ held[l] \in ready
    /\ phase' = [phase EXCEPT ![l] = "PROFILE"]
    /\ UNCHANGED <<auth_vars, registry_vars, grant_vars, sdk_connected, udp_peer, engine,
                   bootstrap, game, p2p, peers, link_vars>>

\* 3320: role selection opens the handoff to the game connection.
SelectRole(l) ==
    /\ Serves(l)
    /\ bootstrap[held[l]] = l /\ phase[l] = "PROFILE"
    /\ phase' = [phase EXCEPT ![l] = "HANDOFF"]
    /\ pending_handoff' = pending_handoff \cup {held[l]}
    /\ overdue' = [overdue EXCEPT ![held[l]] = @ \ {"handoff"}]
    /\ UNCHANGED <<auth_vars, registry_vars, session_of, ready, sdk_admitted, sdk_connected,
                   udp_peer, engine, bootstrap, game, p2p, peers, link_vars>>

\* Mutant: the handoff is honoured while the old connection still plays.
Overtakes(g) == g \in pending_handoff
\* 2010 takes a pending handoff that is in time, and no game connection.
MayTake(g) == g \in pending_handoff /\ "handoff" \notin overdue[g] /\ game[g] = None

TakeHandoff(l) ==
    LET g == outer[l]
    IN  /\ Resolves(l)
        /\ g \in engine
        /\ MayTake(g)
        /\ pending_handoff' = pending_handoff \ {g}
        /\ held' = [held EXCEPT ![l] = g]
        /\ game' = [game EXCEPT ![g] = l]
        /\ phase' = [phase EXCEPT ![l] = "LOBBY"]
        /\ UNCHANGED <<auth_vars, registry_vars, session_of, ready, sdk_admitted, overdue,
                       sdk_connected, udp_peer, engine, bootstrap, p2p, peers, service, outer>>

\* Mutant: the engine keeps the closed connection.
Disconnected(l, g) ==
    /\ phase' = [phase EXCEPT ![l] = "CLOSED"]
    /\ p2p' = IF game[g] = l THEN p2p \ {g} ELSE p2p
    /\ UNCHANGED <<bootstrap, game>>

\* Engine.disconnect of a connection that is its engine's current one.
Disconnect(l, g) ==
    /\ phase' = [phase EXCEPT ![l] = "CLOSED"]
    /\ bootstrap' = [bootstrap EXCEPT ![g] = IF @ = l THEN None ELSE @]
    /\ game' = [game EXCEPT ![g] = IF @ = l THEN None ELSE @]
    /\ p2p' = IF game[g] = l THEN p2p \ {g} ELSE p2p

\* 2060: a player outside rooms returns to region selection and may take the
\* game connection up again within the handoff's time; a bootstrap connection
\* that returns ends the engine's session.  Either way admission starts anew.
ChannelReturn(l) ==
    LET g == held[l]
    IN  /\ Serves(l)
        /\ \/ game[g] = l
           \/ bootstrap[g] = l /\ (public_policy => phase[l] # "HANDOFF")
        /\ Disconnect(l, g)
        /\ IF game[g] = l
           THEN /\ pending_handoff' = pending_handoff \cup {g}
                /\ overdue' = [overdue EXCEPT ![g] = @ \ {"handoff", "admission"}]
           ELSE /\ pending_handoff' = pending_handoff \ {g}
                /\ overdue' = [overdue EXCEPT ![g] = (@ \ {"admission"}) \cup {"login"}]
        /\ UNCHANGED <<auth_vars, registry_vars, session_of, ready, sdk_admitted, sdk_connected,
                       udp_peer, engine, peers, link_vars>>

-----------------------------------------------------------------------------
(* UDP endpoints (native_relay.py)                                         *)

\* 1001: a game connection binds one endpoint that no other grant holds; a
\* different one needs a new grant.
BindUdp(g, p) ==
    /\ Valid(g) /\ game[g] # None
    /\ udp_peer[g] \in {None, p}
    /\ peers[p] \in {None, g}
    /\ p2p' = p2p \cup {g}
    /\ udp_peer' = [udp_peer EXCEPT ![g] = p]
    /\ peers' = [peers EXCEPT ![p] = g]
    /\ UNCHANGED <<auth_vars, registry_vars, grant_vars, sdk_connected, engine, bootstrap, game, phase, link_vars>>

\* 1012.
UnbindUdp(g) ==
    /\ Valid(g) /\ game[g] # None
    /\ g \in p2p /\ udp_peer[g] # None /\ peers[udp_peer[g]] = g
    /\ p2p' = p2p \ {g}
    /\ udp_peer' = [udp_peer EXCEPT ![g] = None]
    /\ peers' = Forgotten({g})
    /\ UNCHANGED <<auth_vars, registry_vars, grant_vars, sdk_connected, engine, bootstrap, game, phase, link_vars>>

\* The lease runs out.
LapseLease(g) ==
    /\ g \in p2p
    /\ p2p' = p2p \ {g}
    /\ UNCHANGED <<auth_vars, registry_vars, grant_vars, sdk_connected, udp_peer, engine,
                   bootstrap, game, phase, peers, link_vars>>

-----------------------------------------------------------------------------
(* The end of a connection                                                 *)

\* Mutant: whichever connection ends takes the grant along.
Involved(l, g) == TRUE
\* Whether the engine depends on the connection: its game connection, or a
\* bootstrap connection that has not handed over yet.
Current(l, g) == game[g] = l \/ (bootstrap[g] = l /\ phase[l] # "HANDOFF")

CloseSdk(l) ==
    /\ service[l] = "sdk"
    /\ sdk_connected' = sdk_connected \ {held[l]}
    /\ service' = [service EXCEPT ![l] = "idle"]
    /\ outer' = [outer EXCEPT ![l] = None]
    /\ held' = [held EXCEPT ![l] = None]
    /\ UNCHANGED <<auth_vars, registry_vars, grant_vars, udp_peer, engine, engine_vars, peers>>

CloseGame(l) ==
    /\ service[l] = "game"
    /\ IF held[l] = None
       THEN UNCHANGED <<registry_vars, engine_vars, peers>>
       ELSE IF Current(l, held[l])
            THEN Release({held[l]}) /\ peers' = Forgotten({held[l]})
            ELSE Disconnect(l, held[l]) /\ UNCHANGED <<registry_vars, peers>>
    /\ service' = [service EXCEPT ![l] = "idle"]
    /\ outer' = [outer EXCEPT ![l] = None]
    /\ held' = [held EXCEPT ![l] = None]
    /\ UNCHANGED <<auth_vars, grant_vars, sdk_connected, udp_peer, engine>>

-----------------------------------------------------------------------------
Init ==
    /\ public_policy \in BOOLEAN
    /\ session = [s \in Sessions |-> "removed"]
    /\ tickets = {}
    /\ grants = {}
    /\ by_uid = [u \in Users |-> None]
    /\ session_of = [g \in Grants |-> None]
    /\ ready = {} /\ sdk_connected = {} /\ sdk_admitted = {}
    /\ udp_peer = [g \in Grants |-> None]
    /\ overdue = [g \in Grants |-> {}]
    /\ engine = {}
    /\ bootstrap = [g \in Grants |-> None]
    /\ game = [g \in Grants |-> None]
    /\ pending_handoff = {}
    /\ p2p = {}
    /\ engines = [u \in Users |-> None]
    /\ peers = [p \in Peers |-> None]
    /\ service = [l \in Links |-> "idle"]
    /\ outer = [l \in Links |-> None]
    /\ held = [l \in Links |-> None]
    /\ phase = [l \in Links |-> "CLOSED"]

Account ==
    \E s \in Sessions :
        \/ Login(s)
        \/ SelectRegion(s)
        \/ ExpireSession(s)
        \/ \E logout \in BOOLEAN : RemoveSession(s, logout)

Admission ==
    \/ Prune
    \/ \E g \in Grants :
           \/ \E s \in Sessions : Issue(s, g)
           \/ SetReady(g)
           \/ CancelGame(g)
           \/ \E d \in Deadlines : Lapse(g, d)

Connection ==
    \E l \in Links :
        \/ \E g \in Grants, kind \in {"sdk", "game"} : Accept(l, g, kind)
        \/ ClaimSdk(l)
        \/ AdmitSdk(l)
        \/ Bootstrap(l)
        \/ ProfileReady(l)
        \/ SelectRole(l)
        \/ TakeHandoff(l)
        \/ ChannelReturn(l)
        \/ CloseSdk(l)
        \/ CloseGame(l)

Endpoint ==
    \E g \in Grants :
        \/ \E p \in Peers : BindUdp(g, p)
        \/ UnbindUdp(g)
        \/ LapseLease(g)

Next == Account \/ Admission \/ Connection \/ Endpoint

Spec == Init /\ [][Next]_vars

\* With public policy the maintenance loop prunes every second, and time passes.
FairSpec ==
    /\ Spec
    /\ WF_vars(Prune)
    /\ \A g \in Grants : WF_vars(Lapse(g, "admission"))

-----------------------------------------------------------------------------
\* Every variable holds a value of the Python field it stands for.
TypeOK ==
    /\ public_policy \in BOOLEAN
    /\ session \in [Sessions -> {"live", "expired", "removed"}]
    /\ tickets \subseteq Sessions
    /\ grants \subseteq Grants
    /\ by_uid \in [Users -> Grants \cup {None}]
    /\ session_of \in [Grants -> Sessions \cup {None}]
    /\ ready \subseteq Grants /\ sdk_connected \subseteq Grants /\ sdk_admitted \subseteq Grants
    /\ udp_peer \in [Grants -> Peers \cup {None}]
    /\ overdue \in [Grants -> SUBSET Deadlines]
    /\ engine \subseteq Grants
    /\ bootstrap \in [Grants -> Links \cup {None}]
    /\ game \in [Grants -> Links \cup {None}]
    /\ pending_handoff \subseteq Grants
    /\ p2p \subseteq Grants
    /\ engines \in [Users -> Grants \cup {None}]
    /\ peers \in [Peers -> Grants \cup {None}]
    /\ service \in [Links -> {"idle", "sdk", "game"}]
    /\ outer \in [Links -> Grants \cup {None}]
    /\ held \in [Links -> Grants \cup {None}]
    /\ phase \in [Links -> Phases]

\* The registries agree: by_uid lists exactly the registered grants, each
\* under its account, so an account has one at most; and the hub lists the
\* engines of the registered grants, so a new grant's engine finds its place.
\* "A removed session invalidates its grants at once": with public policy no
\* grant outlives its session's removal, not even until the next prune.
RegistriesAgree ==
    /\ TypeOK
    /\ \A u \in Users :
           /\ {g \in grants : uid(g) = u} = {by_uid[u]} \ {None}
           /\ {g \in grants \cap engine : uid(g) = u} = {engines[u]} \ {None}
    /\ public_policy => \A g \in grants : session[session_of[g]] # "removed"

\* A connection an engine depends on is served by a coroutine that holds its
\* grant, so that its end will be noticed; a grant that is gone has none; and
\* the SDK slot of a grant is taken exactly while one coroutine holds it.
ConnectionsServed ==
    /\ \A g \in Grants :
           /\ \A l \in {bootstrap[g], game[g]} \ {None} :
                  g \in grants /\ service[l] = "game" /\ held[l] = g /\ phase[l] # "CLOSED"
           /\ bootstrap[g] # None => game[g] # bootstrap[g]
           /\ g \in p2p => game[g] # None
    /\ sdk_connected = {held[l] : l \in {m \in Links : service[m] = "sdk"}} \ {None}
    /\ \A l, m \in Links :
           l # m /\ service[l] = "sdk" /\ service[m] = "sdk" /\ held[l] # None => held[l] # held[m]

\* A UDP endpoint is bound to a registered grant or free: what releases a
\* grant also clears its endpoint, so that the player's next grant can bind it.
EndpointsCurrent == \A p \in Peers : peers[p] \in grants \cup {None}

\* "A second admission of the account is refused and cannot push the first
\* one out": issuing a grant ends no grant that is still valid.  A connection
\* that handed over, or was disconnected before its coroutine noticed, ends
\* without touching any game, however late that is.
NobodyDisplaced ==
    [][/\ \A s \in Sessions, g \in Grants :
              Issue(s, g) => \A h \in grants : Valid(h) => h \in grants'
       /\ \A l \in Links :
              CloseGame(l) /\ phase[l] \in {"CONNECTED", "HANDOFF", "CLOSED"} => UNCHANGED game]_vars

\* An account plays through one connection at a time, and nobody takes its
\* place before it has gone; RoomHub's Enter and Disconnect rest on this.
OnlineNow == [u \in Users |-> IF by_uid[u] = None THEN None ELSE game[by_uid[u]]]
PresenceOf == INSTANCE Presence WITH online <- OnlineNow
OnePresence == PresenceOf!Spec

\* With public policy no grant keeps an account without a game connection:
\* it enters the game or is released.
NoSquatting ==
    \A g \in Grants :
        public_policy /\ g \in grants /\ game[g] = None ~> g \notin grants \/ game[g] # None
=============================================================================
