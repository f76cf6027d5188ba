---------------------------- MODULE SeatExchange -----------------------------
(***************************************************************************)
(* seat_exchange.py: a fighter of a mode 3 room moves to an empty position *)
(* of its team, or asks another fighter to swap positions and teams.       *)
(***************************************************************************)
EXTENDS RoomRequests

\* Nothing is pending that a change of positions could upset.
ExchangeOpen(u) ==
    /\ InRoom(u)
    /\ phase[u] = "ROOM"
    /\ Mode = 3
    /\ stage[room[u]] = "room"
    /\ network_probe[room[u]] = None
    /\ \A v \in members[room[u]] : v \notin suspended /\ game[v] # None /\ phase[v] = "ROOM"

\* 3260 without a target: an empty position of the own bank.
MoveSeat(u, new) ==
    /\ u \in Movers
    /\ ExchangeOpen(u)
    /\ u \notin spectator /\ u \notin ready
    /\ registry_key[u] # new
    /\ \A v \in Fighters(room[u]) : registry_key[v] # new
    /\ new \in Bank(team[u])
    /\ seat_exchange[room[u]] = None
    /\ registry_key' = [registry_key EXCEPT ![u] = new]
    /\ ready' = Unreadied(room[u])
    /\ UNCHANGED <<engine_vars, phase, roster_vars, slot, team, spectator, match_vars,
                   pending_vars, suspended, invites>>

\* Both partners of a swap are unready fighters in different positions.
MaySwap(r, a, b) ==
    /\ a # b
    /\ a \in Fighters(r) \ ready
    /\ b \in Fighters(r) \ ready
    /\ registry_key[a] # registry_key[b]

\* 3260 with a target: ask for consent, bound to the present roster.
ProposeSwap(u, t) ==
    /\ u \in Movers
    /\ ExchangeOpen(u)
    /\ MaySwap(room[u], u, t)
    /\ seat_exchange[room[u]] = None
    /\ seat_exchange' = [seat_exchange EXCEPT ![room[u]] =
           [source |-> u, target |-> t, identity |-> StartIdentity(room[u])]]
    /\ UNCHANGED <<engine_vars, phase, roster_vars, seat_vars, match_vars, network_probe, ready,
                   suspended, invites>>

\* 3262: the asked fighter agrees.
AcceptSwap(u) ==
    /\ ExchangeOpen(u)
    /\ seat_exchange[room[u]] # None
    /\ seat_exchange[room[u]].target = u
    /\ LET r == room[u]
           a == seat_exchange[r].source
       IN  /\ MaySwap(r, a, u)
           /\ registry_key' = [registry_key EXCEPT ![a] = registry_key[u], ![u] = registry_key[a]]
           /\ team' = [team EXCEPT ![a] = team[u], ![u] = team[a]]
           /\ ready' = Unreadied(r)
           /\ seat_exchange' = [seat_exchange EXCEPT ![r] = None]
    /\ UNCHANGED <<engine_vars, phase, roster_vars, slot, spectator, match_vars, network_probe,
                   suspended, invites>>

\* 3263: the asked fighter declines.
RejectSwap(u) ==
    /\ ExchangeOpen(u)
    /\ seat_exchange[room[u]] # None
    /\ seat_exchange[room[u]].target = u
    /\ MaySwap(room[u], seat_exchange[room[u]].source, u)
    /\ seat_exchange' = [seat_exchange EXCEPT ![room[u]] = None]
    /\ UNCHANGED <<engine_vars, phase, roster_vars, seat_vars, match_vars, network_probe, ready,
                   suspended, invites>>
=============================================================================
