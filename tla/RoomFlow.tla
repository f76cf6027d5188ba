------------------------------ MODULE RoomFlow -------------------------------
(***************************************************************************)
(* From readiness to the result: room_flow.py and the ordinary result      *)
(* handshake of battle_results.py (4110 report, 4120 reply, 4115 ack).     *)
(***************************************************************************)
EXTENDS RoomLifecycle

\* A message of u reaches a hub handler: it came over the current game
\* connection, and RoomHub.handle has run expire().
Handled(u) == game[u] # None /\ Expired

\* ... and u is in a room; most handlers drop the message otherwise.
InRoom(u) == Handled(u) /\ room[u] # None

-----------------------------------------------------------------------------
(* Readiness and the start of a match                                      *)

TeamSize(r, t) == Cardinality({u \in Fighters(r) : team[u] = t})

\* The host's own readiness is taken only when a match could follow.
HostMayReady(u, r) ==
    /\ Mode \in CompetitiveModes => Cardinality(Fighters(r)) >= 2
    /\ Mode \in TeamModes => TeamSize(r, 0) > 0 /\ TeamSize(r, 0) = TeamSize(r, 1)
    /\ \A v \in Fighters(r) \ {u} : v \in ready /\ v \notin suspended

\* Mutant: the acknowledgements of the previous match survive.
ClearLedgersButAcks(r) ==
    /\ loaded' = [loaded EXCEPT ![r] = {}]
    /\ input_ready' = [input_ready EXCEPT ![r] = {}]
    /\ result_reports' = [result_reports EXCEPT ![r] = [u \in Users |-> {}]]
    /\ result_replies' = [result_replies EXCEPT ![r] = {}]
    /\ UNCHANGED result_acks

\* Every ledger of the previous match is emptied.
ClearLedgers(r) ==
    /\ loaded' = [loaded EXCEPT ![r] = {}]
    /\ input_ready' = [input_ready EXCEPT ![r] = {}]
    /\ result_reports' = [result_reports EXCEPT ![r] = [u \in Users |-> {}]]
    /\ result_replies' = [result_replies EXCEPT ![r] = {}]
    /\ result_acks' = [result_acks EXCEPT ![r] = {}]

\* start_match: a new battle epoch.
StartMatch(r) ==
    /\ battles < MaxBattles
    /\ battles' = battles + 1
    /\ serial' = [serial EXCEPT ![r] = battles + 1]
    /\ stage' = [stage EXCEPT ![r] = "loading"]
    /\ phase' = [u \in Users |-> IF u \in members[r] THEN "LOADING" ELSE phase[u]]
    /\ ClearLedgers(r)
    /\ public_deadline' = Armed(r)
    /\ network_probe' = [network_probe EXCEPT ![r] = None]

\* begin_start: at once, or after every fighter answered a delay probe.  The
\* probe is bound to the roster with the host ready (rd: the ready users).
BeginStart(r, rd) ==
    /\ seat_exchange' = [seat_exchange EXCEPT ![r] = None]
    /\ \/ ~NetworkProbe /\ StartMatch(r)
       \/ /\ NetworkProbe
          /\ network_probe' = [network_probe EXCEPT ![r] =
                 IF @ = None THEN [identity |-> IdentityWith(r, rd), pending |-> Fighters(r)] ELSE @]
          /\ UNCHANGED <<phase, match_vars>>

\* The host's readiness starts the match when everybody in the room is
\* connected, has a live lease and, if fighting, is ready.
StartsMatch(u, r) ==
    /\ u = owner[r]
    /\ Fighters(r) \ {u} \subseteq ready
    /\ \A v \in members[r] : v \notin suspended /\ Alive(v)

\* 4030.
Ready(u) ==
    /\ InRoom(u)
    /\ stage[room[u]] = "room"
    /\ u \notin spectator
    /\ Alive(u)
    /\ u = owner[room[u]] => HostMayReady(u, room[u])
    /\ ready' = ready \cup {u}
    /\ IF StartsMatch(u, room[u])
       THEN BeginStart(room[u], ready \cup {u})
       ELSE UNCHANGED <<phase, match_vars, pending_vars>>
    /\ UNCHANGED <<engine_vars, roster_vars, seat_vars, suspended, invites>>

\* 4060.
Unready(u) ==
    /\ InRoom(u)
    /\ stage[room[u]] = "room"
    /\ u \notin spectator
    /\ u \in ready
    /\ ready' = ready \ {u}
    /\ UNCHANGED <<engine_vars, phase, roster_vars, seat_vars, match_vars, pending_vars,
                   suspended, invites>>

\* Mutant: a reply counts whatever became of the other members.
ProbeUnchecked(r) == TRUE

\* What network_delay_reply checks of every member before it counts a reply.
ProbeIntact(r) ==
    \A v \in members[r] : v \notin suspended /\ Alive(v) /\ game[v] # None /\ phase[v] = "ROOM"

\* 4140: cancel, count, or with the last reply start the match.
NetworkDelayReply(u) ==
    /\ InRoom(u)
    /\ stage[room[u]] = "room"
    /\ phase[u] = "ROOM"
    /\ network_probe[room[u]] # None
    /\ u \in network_probe[room[u]].pending
    /\ LET r == room[u]
           left == network_probe[r].pending \ {u}
       IN  \/ ~ProbeIntact(r) /\ CancelNetworkProbe(r)
           \/ /\ ProbeIntact(r)
              /\ IF left = {}
                 THEN StartMatch(r)
                 ELSE /\ network_probe' = [network_probe EXCEPT ![r].pending = left]
                      /\ UNCHANGED <<phase, match_vars>>
              /\ UNCHANGED <<engine_vars, roster_vars, seat_vars, ready, seat_exchange,
                             suspended, invites>>

-----------------------------------------------------------------------------
(* Loading, input and result barriers                                      *)

\* 4160.
Loaded(u) ==
    /\ InRoom(u)
    /\ LET r == room[u]
       IN  /\ u \notin loaded[r]
           /\ stage[r] = "loading" /\ phase[u] = "LOADING"
           /\ AdvanceBarriers(r, members[r], loaded[r] \cup {u}, input_ready[r],
                              result_acks[r], phase)
    /\ UNCHANGED <<engine_vars, roster_vars, seat_vars, serial, result_reports,
                   result_replies, battles, pending_vars, suspended, invites>>

\* 8040; only fighters are waited for.
InputReady(u) ==
    /\ InRoom(u)
    /\ LET r == room[u]
       IN  /\ u \notin spectator
           /\ u \notin input_ready[r]
           /\ stage[r] = "wait_ready" /\ phase[u] = "WAIT_READY"
           /\ AdvanceBarriers(r, members[r], loaded[r], input_ready[r] \cup {u},
                              result_acks[r], phase)
    /\ UNCHANGED <<engine_vars, roster_vars, seat_vars, serial, result_reports,
                   result_replies, battles, pending_vars, suspended, invites>>

\* Mutant: a complete set of reports settles whatever roster they speak of.
AnyRoster(reports, fighters) == TRUE

\* The consensus_... functions: nothing before every fighter of the room has
\* reported, an error unless every report covers exactly those fighters.
Reporters(reports) == {u \in Users : reports[u] # {}}
Complete(reports, fighters) == Reporters(reports) = fighters
Consistent(reports, fighters) == \A u \in fighters : reports[u] = fighters

\* 4110 of a fighter that has not reported this battle.  A report names the
\* current fighters, or decode_report rejects it; a rejected report closes
\* the connection (Disconnect).
Report(u) ==
    /\ InRoom(u)
    /\ Mode \in CompetitiveModes
    /\ u \notin spectator
    /\ LET r == room[u]
           candidate == [result_reports[r] EXCEPT ![u] = Fighters(r)]
       IN  /\ stage[r] \in {"battle", "result"} \/ (stage[r] = "room" /\ result_replies[r] # {})
           /\ result_reports[r][u] = {}
           /\ Complete(candidate, Fighters(r)) => Consistent(candidate, Fighters(r))
           /\ result_reports' = [result_reports EXCEPT ![r] = candidate]
           /\ IF Complete(candidate, Fighters(r))
              THEN /\ result_replies' = [result_replies EXCEPT ![r] = members[r]]
                   /\ stage' = [stage EXCEPT ![r] = "result"]
              ELSE UNCHANGED <<result_replies, stage>>
    /\ UNCHANGED <<engine_vars, phase, roster_vars, seat_vars, ready, serial, loaded, input_ready,
                   result_acks, public_deadline, battles, pending_vars, suspended, invites>>

\* 4115: also accepted from a late client once the room waits again.
Ack(u) ==
    /\ InRoom(u)
    /\ Mode \in CompetitiveModes
    /\ LET r == room[u]
       IN  /\ u \in result_replies[r]
           /\ AdvanceBarriers(r, members[r], loaded[r], input_ready[r],
                              result_acks[r] \cup {u}, phase)
    /\ UNCHANGED <<engine_vars, roster_vars, seat_vars, serial, result_reports,
                   result_replies, battles, pending_vars, suspended, invites>>

-----------------------------------------------------------------------------
(* Changing between fighting and watching                                  *)

ToggleRoom(u, r) ==
    IF u \in spectator THEN Cardinality(Fighters(r)) < Capacity
                       ELSE Cardinality(Observers(r)) < ObserverLimit(r)

\* Mutant: ownership does not follow the role change.
OwnerIgnoresToggle(r, fighters, slots) == {owner[r]}

\* After a role change a watching owner gives way to the first fighter seat.
OwnerAfterToggle(r, fighters, slots) ==
    IF fighters # {} /\ owner[r] \notin fighters
    THEN {v \in fighters : \A w \in fighters : slots[v] <= slots[w]}
    ELSE {owner[r]}

\* 3091.
ToggleSpectator(u) ==
    /\ InRoom(u)
    /\ phase[u] = "ROOM"
    /\ LET r == room[u]
           watch == u \notin spectator
           s == IF watch THEN SpectatorSlot ELSE FirstFreeSlot(r)
           k == IF watch THEN SpectatorSlot ELSE PositionKey(r, team[u], s, u)
           fighters == IF watch THEN Fighters(r) \ {u} ELSE Fighters(r) \cup {u}
       IN  /\ stage[r] = "room"
           /\ ToggleRoom(u, r)
           /\ k # None
           /\ Bound(u)
           /\ slot' = [slot EXCEPT ![u] = s]
           /\ registry_key' = [registry_key EXCEPT ![u] = k]
           /\ spectator' = IF watch THEN spectator \cup {u} ELSE spectator \ {u}
           /\ ready' = Unreadied(r)
           /\ \E heir \in OwnerAfterToggle(r, fighters, [slot EXCEPT ![u] = s]) :
                  owner' = [owner EXCEPT ![r] = heir]
    /\ UNCHANGED <<engine_vars, phase, room, rooms, members, request, team, match_vars,
                   pending_vars, suspended, invites>>
=============================================================================
