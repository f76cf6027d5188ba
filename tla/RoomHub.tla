------------------------------- MODULE RoomHub -------------------------------
(***************************************************************************)
(* The shared room coordinator of the game server: RoomHub of              *)
(* server/kk_local/rooms.py with its collaborators, as one state machine,  *)
(* and the properties that make it correct.                                *)
(***************************************************************************)
EXTENDS SeatExchange

CONSTANTS Droppers    \* bound: whose game connection may be lost
CONSTANTS Leasers     \* bound: whose UDP lease may be lost
CONSTANTS Leavers     \* bound: who leaves a room by command

ASSUME HubAssumption == Droppers \subseteq Users /\ Leasers \subseteq Users /\ Leavers \subseteq Users

Session ==
    \E u \in Users :
        \/ \E c \in Conns : Enter(u, c)
        \/ u \in Droppers /\ Disconnect(u)
        \/ RegisterP2P(u)
        \/ u \in Leasers /\ LoseP2P(u)
        \/ Bind(u)

Expire ==
    \/ \E r \in Rooms : ExpirePublicDeadline(r) \/ ExpireSeat(r) \/ ExpireProbe(r)
    \/ \E u \in Users : ExpireSuspended(u) \/ ExpireInvite(u)

Flow ==
    \E u \in Users :
        \/ Ready(u)
        \/ Unready(u)
        \/ NetworkDelayReply(u)
        \/ Loaded(u)
        \/ InputReady(u)
        \/ Report(u)
        \/ Ack(u)
        \/ u \in Watchers /\ ToggleSpectator(u)

Requests ==
    \E u \in Users :
        \/ \E r \in Rooms :
               \/ \E w \in BOOLEAN : Create(u, r, w)
               \/ \E w \in BOOLEAN : Join(u, r, w)
        \/ u \in Leavers /\ LeaveRoom(u)
        \/ ChangeSettings(u)
        \/ \E t \in Users : RemoveMember(u, t) \/ TransferOwner(u, t) \/ Invite(u, t)
        \/ \E t \in {0, 1} : ChangeTeam(u, t)
        \/ AcceptInvite(u)
        \/ DropInvite(u)

Exchange ==
    \E u \in Users :
        \/ \E k \in Slots : MoveSeat(u, k)
        \/ \E t \in Users : ProposeSwap(u, t)
        \/ AcceptSwap(u)
        \/ RejectSwap(u)

Next == Session \/ Expire \/ Flow \/ Requests \/ Exchange

Spec == Init /\ [][Next]_vars

\* The maintenance loop of the native service runs expire() every second and
\* the clock passes every deadline.
FairSpec == Spec /\ \A r \in Rooms : WF_vars(ExpirePublicDeadline(r))

-----------------------------------------------------------------------------
(* Types                                                                   *)

Places ==
    [uid : Users, game : Conns \cup {None}, slot : Seats \cup {None}, team : {0, 1, None},
     registry_key : Seats \cup {None}, ready : BOOLEAN, spectator : BOOLEAN]
Identities ==
    [owner : Users \cup {None}, request : BOOLEAN, roster : SUBSET Places]
Probes == [identity : Identities, pending : SUBSET Users]
Exchanges == [source : Users, target : Users, identity : Identities]
Invitations == [inviter : Users, room : Rooms, serial : Nat,
                inviter_connection : Conns, recipient_connection : Conns]

\* Every variable holds a value of the Python field it stands for.
TypeOK ==
    /\ game \in [Users -> Conns \cup {None}]
    /\ phase \in [Users -> Phases]
    /\ p2p \in [Users -> {"none", "open", "bound"}]
    /\ room \in [Users -> Rooms \cup {None}]
    /\ slot \in [Users -> Seats \cup {None}]
    /\ team \in [Users -> {0, 1, None}]
    /\ registry_key \in [Users -> Seats \cup {None}]
    /\ ready \subseteq Users
    /\ spectator \subseteq Users
    /\ owner \in [Rooms -> Users \cup {None}]
    /\ request \in [Rooms -> BOOLEAN]
    /\ stage \in [Rooms -> Stages]
    /\ serial \in [Rooms -> Nat]
    /\ members \in [Rooms -> SUBSET Users]
    /\ loaded \in [Rooms -> SUBSET Users]
    /\ input_ready \in [Rooms -> SUBSET Users]
    /\ result_reports \in [Rooms -> [Users -> SUBSET Users]]
    /\ result_replies \in [Rooms -> SUBSET Users]
    /\ result_acks \in [Rooms -> SUBSET Users]
    /\ public_deadline \subseteq Rooms
    /\ network_probe \in [Rooms -> Probes \cup {None}]
    /\ seat_exchange \in [Rooms -> Exchanges \cup {None}]
    /\ rooms \subseteq Rooms
    /\ suspended \subseteq Users
    /\ invites \in [Users -> Invitations \cup {None}]
    /\ battles \in Nat

-----------------------------------------------------------------------------
(* Safety invariants                                                       *)

\* The two sides of membership agree: room.members of a listed room are the
\* engines whose engine.room is that room, a listed room is not empty and
\* nobody points at an unlisted room.
RosterAgreement ==
    /\ \A r \in rooms : members[r] # {} /\ members[r] = {u \in Users : room[u] = r}
    /\ \A u \in Users : room[u] # None => room[u] \in rooms

\* room.members[room.owner] never fails: the owner of a listed room is a
\* member, and a fighter whenever the room has one or a match runs.  Every
\* handler and expire() index the roster with the owner, and only a fighter's
\* departure ends a match, so a match whose owner watched would outlive it.
OwnerSeated ==
    \A r \in rooms :
        /\ owner[r] \in members[r]
        /\ Fighters(r) # {} \/ stage[r] # "room" => owner[r] \in Fighters(r)

\* A member whose seat is not suspended has a live connection, in the phase
\* of the room's stage: advance_barriers and start_match write engine.game of
\* every member.  Only waiting rooms keep seats for lost connections, and a
\* suspended user has no bound lease, so that its room admits nobody.
MembersServed ==
    /\ \A r \in rooms : \A u \in members[r] \ suspended :
           game[u] # None /\ phase[u] = PhaseOf(stage[r])
    /\ \A u \in Users : room[u] = None => phase[u] \in {"LOBBY", "CLOSED"}
    /\ \A u \in suspended : room[u] # None /\ stage[room[u]] = "room" /\ ~Bound(u)

\* Every barrier can open and none stays shut once everybody it waits for has
\* passed, though the last one missing may have left: the ledgers name members
\* only, who all have a reply to acknowledge in a room that shows results.
BarriersOpen ==
    \A r \in rooms :
        /\ loaded[r] \subseteq members[r]
        /\ input_ready[r] \subseteq Fighters(r)
        /\ result_acks[r] \subseteq result_replies[r]
        /\ result_replies[r] \subseteq members[r]
        /\ stage[r] = "loading" => loaded[r] # members[r]
        /\ stage[r] = "wait_ready" => input_ready[r] # Fighters(r)
        /\ stage[r] = "result" => result_replies[r] = members[r] /\ result_acks[r] # members[r]

\* Native seats are exclusive and rooms are never overfull; in team modes a
\* fighter's position is one of its team's bank and nobody else's.
SeatsExclusive ==
    \A r \in rooms :
        /\ Cardinality(Fighters(r)) <= Capacity
        /\ \A u \in Observers(r) : slot[u] = SpectatorSlot
        /\ \A u \in Fighters(r) :
               /\ slot[u] \in Slots
               /\ IF Mode \in TeamModes THEN registry_key[u] \in Bank(team[u])
                                        ELSE registry_key[u] = slot[u]
        /\ \A u, v \in Fighters(r) :
               u # v => slot[u] # slot[v] /\ registry_key[u] # registry_key[v]

\* A pending invitation belongs to the two connections it was made between,
\* and its sender has gone nowhere but out of the room it invites to.
InvitesCurrent ==
    \A t \in Users :
        invites[t] # None =>
            LET i == invites[t]
            IN  /\ game[t] = i.recipient_connection
                /\ game[i.inviter] = i.inviter_connection
                /\ room[i.inviter] \in {i.room, None}
                /\ room[t] = None

-----------------------------------------------------------------------------
(* Action properties                                                       *)

\* A listed room goes through its stages in one order.  In particular stale
\* reports of the last match, which the room keeps while it waits, never
\* settle anything; and a spectator who leaves a running match, or is cut
\* off from it, takes nobody along.
StageOrder ==
    [][/\ \A r \in rooms \cap rooms' :
              <<stage[r], stage'[r]>> \in
                  {<<s, s>> : s \in Stages} \cup
                  {<<"room", "loading">>, <<"loading", "wait_ready">>, <<"wait_ready", "battle">>,
                   <<"battle", "result">>, <<"result", "room">>}
       /\ \A u \in spectator :
              /\ room[u] # None
              /\ stage[room[u]] # "room"
              /\ LeaveRoom(u) \/ Disconnect(u)
              => \A v \in Users \ {u} : room'[v] = room[v]]_vars

\* A match starts only with every fighter ready, every member connected,
\* unsuspended and with a live lease.
StartAgreed ==
    [][\A r \in rooms :
           stage[r] = "room" /\ stage'[r] = "loading" =>
               /\ Fighters(r) \subseteq ready'
               /\ \A u \in members[r] : u \notin suspended /\ game[u] # None /\ Alive(u)]_vars

\* "Composition changed: everyone must confirm readiness again": whatever
\* changes roster, roles, owner, settings, teams or positions of a waiting
\* room leaves nobody ready in it.
ChangeUnreadies ==
    [][\A r \in rooms \cap rooms' :
           /\ stage[r] = "room" /\ stage'[r] = "room"
           /\ <<members[r], owner[r], request[r]>> # <<members'[r], owner'[r], request'[r]>>
              \/ \E u \in members[r] :
                     <<u \in spectator, team[u], registry_key[u]>> #
                     <<u \in spectator', team'[u], registry_key'[u]>>
           => ready' \cap members'[r] = {}]_vars

\* Two fighters trade positions only by an exchange that was proposed to the
\* very roster, connections and readiness included, that it is applied to.
SwapConsented ==
    [][\A r \in rooms : \A u, v \in Fighters(r) :
           u # v /\ registry_key'[u] = registry_key[v] /\ registry_key'[v] = registry_key[u] =>
               /\ seat_exchange[r] # None
               /\ {u, v} = {seat_exchange[r].source, seat_exchange[r].target}
               /\ seat_exchange[r].identity = StartIdentity(r)]_vars

-----------------------------------------------------------------------------
(* Liveness                                                                *)

\* Under public policy no match holds its members for ever: whatever the
\* clients do, a room that left the waiting stage waits again or is gone.
MatchEnds == \A r \in Rooms : (r \in rooms /\ stage[r] # "room") ~> (r \notin rooms \/ stage[r] = "room")
=============================================================================
