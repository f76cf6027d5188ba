---------------------------- MODULE RoomLifecycle ----------------------------
(***************************************************************************)
(* Membership, disconnect and rejoin: room_lifecycle.py, with the Engine   *)
(* session steps that drive it (engine.py, handlers/session.py) and the    *)
(* UDP lease steps of service.py.                                          *)
(*                                                                         *)
(* RoomHub.handle calls expire() before it looks at a message.  Every      *)
(* deadline is one of the Expire... actions below, enabled whenever its    *)
(* timer runs (time is not modelled: a running timer may be due at any     *)
(* moment).  What expire() retires for another reason than time, a probe   *)
(* or an exchange whose roster identity changed, must be gone before a     *)
(* message is handled: Expired is a guard of every message action.         *)
(***************************************************************************)
EXTENDS RoomState

Stale(bound, r) == bound[r] # None /\ bound[r].identity # StartIdentity(r)

\* Mutant: a swap proposal survives a change of the roster.
ExpiredProbes == \A r \in rooms : ~Stale(network_probe, r)

Expired == \A r \in rooms : ~Stale(network_probe, r) /\ ~Stale(seat_exchange, r)

\* Mutant: only the invitation addressed to u is dropped.
InvitesWithoutRecipient(u) == [invites EXCEPT ![u] = None]

\* drop_invites: every invitation to or from u.
InvitesWithout(u) ==
    [t \in Users |-> IF invites[t] # None /\ (t = u \/ invites[t].inviter = u)
                     THEN None ELSE invites[t]]

-----------------------------------------------------------------------------
(* leave: four cases by what remains of the room.  ph is the phase of the  *)
(* departing user's connection afterwards.                                 *)

\* Every user of gone loses its Member record and its engine.room.
Unseat(gone) ==
    /\ room' = [u \in Users |-> IF u \in gone THEN None ELSE room[u]]
    /\ slot' = [u \in Users |-> IF u \in gone THEN None ELSE slot[u]]
    /\ team' = [u \in Users |-> IF u \in gone THEN None ELSE team[u]]
    /\ registry_key' = [u \in Users |-> IF u \in gone THEN None ELSE registry_key[u]]
    /\ spectator' = spectator \ gone

\* The room object leaves hub.rooms; nothing reads its fields again.
Unlist(r) ==
    /\ rooms' = rooms \ {r}
    /\ members' = [members EXCEPT ![r] = {}]
    /\ owner' = [owner EXCEPT ![r] = None]
    /\ request' = [request EXCEPT ![r] = FALSE]
    /\ stage' = [stage EXCEPT ![r] = "room"]
    /\ serial' = [serial EXCEPT ![r] = 0]
    /\ loaded' = [loaded EXCEPT ![r] = {}]
    /\ input_ready' = [input_ready EXCEPT ![r] = {}]
    /\ result_reports' = [result_reports EXCEPT ![r] = [u \in Users |-> {}]]
    /\ result_replies' = [result_replies EXCEPT ![r] = {}]
    /\ result_acks' = [result_acks EXCEPT ![r] = {}]
    /\ public_deadline' = public_deadline \ {r}
    /\ UNCHANGED battles

\* Mutant: a spectator who leaves a match ends it as well.
DepartingTogether(u, r) == IF stage[r] # "room" THEN members[r] ELSE {u}

\* The users that lose their place when u leaves r: a fighter leaving a
\* running match takes everybody along, because a native match cannot be
\* restored from a roster.
Departing(u, r) ==
    IF stage[r] # "room" /\ u \notin spectator THEN members[r] ELSE {u}

\* Mutant: the aborted match leaves its other members pointing at it.
LeaveStranded(u, r, ph) ==
    /\ Departing(u, r) = members[r]
    /\ Unseat({u})
    /\ Unlist(r)
    /\ ready' = Unreadied(r)
    /\ phase' = [phase EXCEPT ![u] = ph]

\* Nobody is left: u was alone, or the match is aborted.
LeaveEmpty(u, r, ph) ==
    /\ Departing(u, r) = members[r]
    /\ Unseat(members[r])
    /\ Unlist(r)
    /\ ready' = Unreadied(r)
    /\ phase' = [v \in Users |-> IF v = u THEN ph
                                 ELSE IF v \in members[r] /\ game[v] # None THEN "LOBBY"
                                 ELSE phase[v]]

\* Mutant: the barriers are not looked at again.
LeaveSilently(u, r, ph) ==
    /\ stage[r] # "room"
    /\ Departing(u, r) # members[r]
    /\ Unseat({u})
    /\ members' = [members EXCEPT ![r] = @ \ {u}]
    /\ loaded' = [loaded EXCEPT ![r] = @ \ {u}]
    /\ input_ready' = [input_ready EXCEPT ![r] = @ \ {u}]
    /\ result_acks' = [result_acks EXCEPT ![r] = @ \ {u}]
    /\ result_replies' = [result_replies EXCEPT ![r] = @ \ {u}]
    /\ phase' = [phase EXCEPT ![u] = ph]
    /\ UNCHANGED <<rooms, owner, request, stage, serial, ready, result_reports,
                   public_deadline, battles>>

\* A spectator leaves a running match: the barriers may now be complete.
LeaveObserver(u, r, ph) ==
    /\ stage[r] # "room"
    /\ Departing(u, r) # members[r]
    /\ Unseat({u})
    /\ members' = [members EXCEPT ![r] = @ \ {u}]
    /\ result_replies' = [result_replies EXCEPT ![r] = @ \ {u}]
    /\ AdvanceBarriers(r, members[r] \ {u}, loaded[r] \ {u}, input_ready[r] \ {u},
                       result_acks[r] \ {u}, [phase EXCEPT ![u] = ph])
    /\ UNCHANGED <<rooms, owner, request, serial, result_reports, battles>>

\* The next owner of a waiting room that u leaves: if u owned it, the lowest
\* fighter seat, or without fighters one of the spectators.
Successors(candidates) == {v \in candidates : \A w \in candidates : slot[v] <= slot[w]}
Heirs(u, r) ==
    IF owner[r] # u THEN {owner[r]}
    ELSE Successors(IF Fighters(r) \ {u} # {} THEN Fighters(r) \ {u} ELSE members[r] \ {u})

\* A member leaves a waiting room: ownership passes on and everybody who
\* stays has to confirm readiness again.
LeaveWaiting(u, r, ph) ==
    /\ stage[r] = "room"
    /\ Departing(u, r) # members[r]
    /\ Unseat({u})
    /\ members' = [members EXCEPT ![r] = @ \ {u}]
    /\ loaded' = [loaded EXCEPT ![r] = @ \ {u}]
    /\ input_ready' = [input_ready EXCEPT ![r] = @ \ {u}]
    /\ result_acks' = [result_acks EXCEPT ![r] = @ \ {u}]
    /\ result_replies' = [result_replies EXCEPT ![r] = @ \ {u}]
    /\ ready' = Unreadied(r)
    /\ phase' = [phase EXCEPT ![u] = ph]
    /\ \E heir \in Heirs(u, r) : owner' = [owner EXCEPT ![r] = heir]
    /\ UNCHANGED <<rooms, request, stage, serial, result_reports, public_deadline, battles>>

\* RoomHub.leave.  Everything but the connection and the UDP lease.
Leave(u, ph) ==
    /\ invites' = InvitesWithout(u)
    /\ suspended' = suspended \ {u}
    /\ \/ /\ room[u] = None
          /\ phase' = [phase EXCEPT ![u] = ph]
          /\ UNCHANGED <<roster_vars, seat_vars, match_vars, pending_vars, ready>>
       \/ /\ room[u] # None
          /\ seat_exchange' = [seat_exchange EXCEPT ![room[u]] = None]
          /\ network_probe' = [network_probe EXCEPT ![room[u]] = None]
          /\ \/ LeaveEmpty(u, room[u], ph)
             \/ LeaveObserver(u, room[u], ph)
             \/ LeaveWaiting(u, room[u], ph)

\* leave() on an engine that keeps its connection, if it has one.
Remove(u) ==
    /\ Leave(u, IF game[u] = None THEN "CLOSED" ELSE "LOBBY")
    /\ UNCHANGED engine_vars

-----------------------------------------------------------------------------
(* Sessions and leases                                                     *)

\* handlers/session.py begin, message 2010, after a granted handoff.
Enter(u, c) ==
    /\ game[u] = None
    /\ \A t \in Users : invites[t] # None =>   \* a referenced object is not reused
           /\ invites[t].inviter = u => invites[t].inviter_connection # c
           /\ t = u => invites[t].recipient_connection # c
    /\ game' = [game EXCEPT ![u] = c]
    /\ phase' = [phase EXCEPT ![u] = "LOBBY"]
    /\ UNCHANGED <<p2p, roster_vars, seat_vars, match_vars, pending_vars, ready, suspended, invites>>

\* disconnected: a waiting room keeps the seat for a reconnect.
Suspend(u) ==
    /\ invites' = InvitesWithout(u)
    /\ ready' = ready \ {u}
    /\ suspended' = suspended \cup {u}
    /\ phase' = [phase EXCEPT ![u] = "CLOSED"]
    /\ UNCHANGED <<roster_vars, seat_vars, match_vars, pending_vars>>

\* Mutant: a seat is kept in a running match as well.
SuspendsAlways(u) == ~NativeService /\ room[u] # None

SuspendsOnLoss(u) == ~NativeService /\ room[u] # None /\ stage[room[u]] = "room"

\* Engine.disconnect of the game connection: a closed socket, a rejected
\* message (ProtocolError), a slow recipient, the way back to the channel list
\* (2060), or NativeAdmission.release, which leaves the room first.
Disconnect(u) ==
    /\ game[u] # None
    /\ game' = [game EXCEPT ![u] = None]
    /\ p2p' = [p2p EXCEPT ![u] = "none"]
    /\ IF SuspendsOnLoss(u) THEN Suspend(u) ELSE Leave(u, "CLOSED")

\* UDP 1001: a lease for the live game session, unless one is still alive.
RegisterP2P(u) ==
    /\ game[u] # None
    /\ p2p[u] = "none"
    /\ p2p' = [p2p EXCEPT ![u] = "open"]
    /\ UNCHANGED <<game, phase, roster_vars, seat_vars, match_vars, pending_vars, ready, suspended,
                   invites>>

\* The lease runs out, or UDP 1012 gives it up.
LoseP2P(u) ==
    /\ Alive(u)
    /\ p2p' = [p2p EXCEPT ![u] = "none"]
    /\ UNCHANGED <<game, phase, roster_vars, seat_vars, match_vars, pending_vars, ready, suspended,
                   invites>>

\* restore_bound refuses unless the record of every connected peer is ready.
PeersBound(u) == \A v \in members[room[u]] : v # u /\ v \notin suspended => Bound(v)

\* Message 1156 and restore_bound.
Bind(u) ==
    /\ game[u] # None
    /\ Alive(u)
    /\ Expired
    /\ p2p' = [p2p EXCEPT ![u] = "bound"]
    /\ IF u \in suspended
       THEN /\ PeersBound(u)
            /\ suspended' = suspended \ {u}
            /\ phase' = [phase EXCEPT ![u] = "ROOM"]
       ELSE UNCHANGED <<suspended, phase>>
    /\ UNCHANGED <<game, roster_vars, seat_vars, match_vars, pending_vars, ready, invites>>

-----------------------------------------------------------------------------
(* expire, one deadline at a time                                          *)

\* A public room overstays its loading or battle deadline: the owner leaves.
ExpirePublicDeadline(r) ==
    /\ r \in rooms
    /\ r \in public_deadline
    /\ Remove(owner[r])

ExpireSeat(r) ==
    /\ r \in rooms
    /\ seat_exchange[r] # None
    /\ seat_exchange' = [seat_exchange EXCEPT ![r] = None]
    /\ UNCHANGED <<engine_vars, phase, roster_vars, seat_vars, match_vars, network_probe, ready,
                   suspended, invites>>

\* RoomFlow.cancel_network_probe: the probe goes and so does all readiness.
CancelNetworkProbe(r) ==
    /\ network_probe' = [network_probe EXCEPT ![r] = None]
    /\ ready' = Unreadied(r)
    /\ UNCHANGED <<engine_vars, phase, roster_vars, seat_vars, match_vars, seat_exchange, suspended,
                   invites>>

ExpireProbe(r) ==
    /\ r \in rooms
    /\ network_probe[r] # None
    /\ CancelNetworkProbe(r)

\* Mutant: the seat is freed from its suspension but not given up.
ForgetSuspended(u) ==
    /\ u \in suspended
    /\ suspended' = suspended \ {u}
    /\ UNCHANGED <<engine_vars, phase, roster_vars, seat_vars, match_vars, pending_vars, ready,
                   invites>>

ExpireSuspended(u) ==
    /\ u \in suspended
    /\ Remove(u)

ExpireInvite(t) ==
    /\ invites[t] # None
    /\ invites' = [invites EXCEPT ![t] = None]
    /\ UNCHANGED <<engine_vars, phase, roster_vars, seat_vars, match_vars, pending_vars, ready,
                   suspended>>

-----------------------------------------------------------------------------
(* install: admission of u into r, as a fighter or as a spectator          *)

CanInstall(r, u, watch) ==
    /\ stage[r] = "room"
    /\ IF watch THEN Cardinality(Observers(r)) < ObserverLimit(r)
                ELSE Cardinality(Fighters(r)) < Capacity
    /\ Bound(u) /\ \A v \in members[r] : Bound(v)

\* Mutant: the seat number is taken for the team.
SeatTeam(r, s) == s

\* The team of a seat, and the other team when its bank is full.
HomeTeam(r, s) == IF PositionKey(r, s % 2, s, None) # None THEN s % 2 ELSE 1 - (s % 2)

\* A fighter joining an audience without fighters becomes the owner.
OwnerAfterInstall(r, u, watch) ==
    IF members[r] = {} \/ (owner[r] \in spectator /\ ~watch) THEN u ELSE owner[r]

Install(r, u, watch) ==
    LET s == IF watch THEN SpectatorSlot ELSE FirstFreeSlot(r)
        t == IF watch THEN s % 2 ELSE HomeTeam(r, s)
        k == IF watch THEN SpectatorSlot ELSE PositionKey(r, t, s, None)
    IN  /\ CanInstall(r, u, watch)
        /\ k # None
        /\ invites' = InvitesWithout(u)
        /\ members' = [members EXCEPT ![r] = @ \cup {u}]
        /\ slot' = [slot EXCEPT ![u] = s]
        /\ team' = [team EXCEPT ![u] = t]
        /\ registry_key' = [registry_key EXCEPT ![u] = k]
        /\ spectator' = IF watch THEN spectator \cup {u} ELSE spectator \ {u}
        /\ ready' = Unreadied(r) \ {u}
        /\ owner' = [owner EXCEPT ![r] = OwnerAfterInstall(r, u, watch)]
        /\ room' = [room EXCEPT ![u] = r]
        /\ phase' = [phase EXCEPT ![u] = "ROOM"]
        /\ UNCHANGED <<engine_vars, match_vars, pending_vars, suspended>>
=============================================================================
