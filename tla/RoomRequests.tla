---------------------------- MODULE RoomRequests -----------------------------
(***************************************************************************)
(* The room commands of a client: room_requests.py.                        *)
(*                                                                         *)
(* The sets of users below bound which clients use a command in a run.     *)
(* They restrict the input, never the code: the empty set means nobody     *)
(* sends that message.                                                     *)
(***************************************************************************)
EXTENDS RoomFlow

CONSTANTS
    Creators,       \* bound: who creates rooms
    Inviters,       \* bound: who sends invitations
    Watchers,       \* bound: who asks for an observer seat
    Managers,       \* bound: which owners change settings, remove or promote members
    Movers          \* bound: who changes team or seat

ASSUME RequestAssumption ==
    /\ Creators \subseteq Users /\ Inviters \subseteq Users /\ Watchers \subseteq Users
    /\ Managers \subseteq Users /\ Movers \subseteq Users

InLobby(u) == Handled(u) /\ phase[u] = "LOBBY" /\ room[u] = None

\* Every owner of a waiting room whose own connection is in the room.
Governs(u, r) == phase[u] = "ROOM" /\ stage[r] = "room" /\ owner[r] = u

-----------------------------------------------------------------------------
(* Entering and leaving                                                    *)

\* 3010: a fresh room object, with or without the watch option.
Create(u, r, watchable) ==
    /\ u \in Creators
    /\ InLobby(u)
    /\ r \notin rooms
    /\ \A t \in Users : invites[t] # None => invites[t].room # r
    /\ Install(r, u, FALSE)
    /\ rooms' = rooms \cup {r}
    /\ request' = [request EXCEPT ![r] = watchable]

\* 3070 as fighter or spectator, and 3075, which picks a room itself.  A
\* room with a suspended member admits nobody.
Join(u, r, watch) ==
    /\ InLobby(u)
    /\ r \in rooms
    /\ watch => u \in Watchers /\ ObserverLimit(r) > 0
    /\ members[r] \cap suspended = {}
    /\ Install(r, u, watch)
    /\ UNCHANGED <<rooms, request>>

\* 3110 in any stage, and 4031, the waiting timer of the client.
LeaveRoom(u) ==
    /\ InRoom(u)
    /\ Remove(u)

\* 3140.
RemoveMember(u, t) ==
    /\ u \in Managers
    /\ InRoom(u)
    /\ Governs(u, room[u])
    /\ t \in members[room[u]] \ {u}
    /\ Remove(t)

-----------------------------------------------------------------------------
(* Governing a waiting room                                                *)

\* 3200: the settings change, and with them everybody's readiness.
ChangeSettings(u) ==
    /\ u \in Managers
    /\ InRoom(u)
    /\ Governs(u, room[u])
    /\ request' = [request EXCEPT ![room[u]] = ~@]
    /\ ready' = Unreadied(room[u])
    /\ UNCHANGED <<engine_vars, phase, rooms, members, room, owner, seat_vars, match_vars,
                   pending_vars, suspended, invites>>

\* 4051: the target must be able to act as host at once.
MayOwn(r, t) ==
    /\ t \in Fighters(r) \ suspended
    /\ game[t] # None
    /\ Bound(t)

TransferOwner(u, t) ==
    /\ u \in Managers
    /\ InRoom(u)
    /\ Governs(u, room[u])
    /\ t # u
    /\ MayOwn(room[u], t)
    /\ owner' = [owner EXCEPT ![room[u]] = t]
    /\ ready' = Unreadied(room[u])
    /\ UNCHANGED <<engine_vars, phase, rooms, members, room, request, seat_vars, match_vars,
                   pending_vars, suspended, invites>>

\* 3230.
ChangeTeam(u, t) ==
    /\ u \in Movers
    /\ InRoom(u)
    /\ phase[u] = "ROOM"
    /\ LET r == room[u]
           k == PositionKey(r, t, slot[u], u)
       IN  /\ stage[r] = "room"
           /\ u \notin spectator
           /\ team[u] # t
           /\ k # None
           /\ team' = [team EXCEPT ![u] = t]
           /\ registry_key' = [registry_key EXCEPT ![u] = k]
           /\ ready' = Unreadied(r)
    /\ UNCHANGED <<engine_vars, phase, roster_vars, slot, spectator, match_vars, pending_vars,
                   suspended, invites>>

-----------------------------------------------------------------------------
(* Invitations: one pending dialog per recipient                           *)

\* 3500.
Invite(u, t) ==
    /\ u \in Inviters
    /\ InRoom(u)
    /\ phase[u] = "ROOM"
    /\ stage[room[u]] = "room"
    /\ t # u /\ game[t] # None /\ phase[t] = "LOBBY" /\ room[t] = None
    /\ Cardinality(Fighters(room[u])) < Capacity
    /\ invites[t] = None
    /\ invites' = [invites EXCEPT ![t] =
           [inviter |-> u, room |-> room[u], serial |-> serial[room[u]],
            inviter_connection |-> game[u], recipient_connection |-> game[t]]]
    /\ UNCHANGED <<engine_vars, phase, roster_vars, seat_vars, match_vars, pending_vars, ready,
                   suspended>>

\* The pending invitation is answered over the connection it was shown on.
Answers(u) ==
    /\ Handled(u)
    /\ invites[u] # None
    /\ invites[u].recipient_connection = game[u]

\* Sender, room and match are still the ones of the invitation.
InviteStands(u, i) ==
    /\ game[i.inviter] = i.inviter_connection
    /\ room[i.inviter] = i.room
    /\ i.room \in rooms
    /\ stage[i.room] = "room"
    /\ serial[i.room] = i.serial
    /\ phase[i.inviter] = "ROOM"
    /\ phase[u] = "LOBBY" /\ room[u] = None

\* Room for one more fighter, and every native record available.
InviteAdmissible(u, r) ==
    /\ Cardinality(Fighters(r)) < Capacity
    /\ \A v \in members[r] : v \notin suspended /\ Bound(v)
    /\ Bound(u)

\* 3501: admission, without a password.
AcceptInvite(u) ==
    /\ Answers(u)
    /\ InviteStands(u, invites[u])
    /\ InviteAdmissible(u, invites[u].room)
    /\ Install(invites[u].room, u, FALSE)
    /\ UNCHANGED <<rooms, request>>

\* 3501 for an invitation that no longer holds or cannot be honoured, 3502.
DropInvite(u) ==
    /\ Answers(u)
    /\ invites' = [invites EXCEPT ![u] = None]
    /\ UNCHANGED <<engine_vars, phase, roster_vars, seat_vars, match_vars, pending_vars, ready,
                   suspended>>
=============================================================================
