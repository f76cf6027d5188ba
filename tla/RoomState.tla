------------------------------ MODULE RoomState ------------------------------
(***************************************************************************)
(* The state of the shared room coordinator (server/kk_local/rooms.py):    *)
(* the part of every Engine the hub touches, the Member and SharedRoom     *)
(* records and the hub's own registries, with the pure helpers the         *)
(* collaborators RoomLifecycle, RoomFlow, RoomRequests and SeatExchange    *)
(* share.  The collaborators are the modules of the same names.            *)
(*                                                                         *)
(* A user is an account uid.  Its Engine keeps at most one game            *)
(* connection; a connection is the identity id(engine.game) has while it   *)
(* lives, so a later connection may get the identity of a dead one.  A     *)
(* room is a SharedRoom object; its number is only a name for it while it  *)
(* is listed in hub.rooms, so "rooms" holds the listed objects.            *)
(***************************************************************************)
EXTENDS Integers, FiniteSets

CONSTANTS
    Users,              \* account uids
    Rooms,              \* identities of SharedRoom objects
    Conns,              \* identities a game connection object can have
    None,               \* Python's None
    Mode,               \* request[46], fixed when a room is created
    Capacity,           \* request[37], fighters a room admits
    BankSize,           \* position keys of one team (4 in the code)
    SpectatorCapacity,  \* hub option spectator_capacity
    NetworkProbe,       \* hub option network_probe
    NativeService,      \* served by native_service.py rather than service.py
    PublicPolicy,       \* hub.public_policy is set
    MaxBattles          \* bound: battles started in one behaviour

TeamModes == {1, 3}
CompetitiveModes == {0, 1, 2, 3, 16}

\* Seats of a room: eight in the code, in two banks of four.
Slots == 0 .. 2 * BankSize - 1
SpectatorSlot == 2 * BankSize
Seats == Slots \cup {SpectatorSlot}

Phases == {"CLOSED", "LOBBY", "ROOM", "LOADING", "WAIT_READY", "BATTLE"}
Stages == {"room", "loading", "wait_ready", "battle", "result"}

ASSUME RoomAssumption ==
    /\ None \notin Users /\ None \notin Rooms /\ None \notin Conns
    /\ None \notin Int
    /\ IsFiniteSet(Users)
    /\ BankSize \in Nat \ {0}
    /\ Capacity \in 1 .. 2 * BankSize
    /\ SpectatorCapacity \in 0 .. 2 * BankSize
    /\ Mode \in CompetitiveModes \cup {5}
    /\ NetworkProbe \in BOOLEAN
    /\ NativeService \in BOOLEAN
    /\ PublicPolicy \in BOOLEAN
    /\ PublicPolicy => NativeService /\ ~NetworkProbe /\ SpectatorCapacity = 0
    /\ MaxBattles \in Nat

VARIABLES
    \* Engine
    game,            \* engine.game, a connection or None
    phase,           \* engine.game.phase, "CLOSED" without a connection
    p2p,             \* engine.p2p: "none" (absent or expired), "open", "bound"
    room,            \* engine.room
    \* Member, one per user that is in a room
    slot, team, registry_key,
    ready, spectator,          \* the users whose flag is set
    \* SharedRoom
    owner, request, stage, serial, members,
    loaded, input_ready,
    result_reports,  \* reporter -> roster of its report ({}: no report)
    result_replies,  \* the members a 4120 reply was prepared for
    result_acks,
    public_deadline, \* the rooms whose deadline is armed
    network_probe, seat_exchange,
    \* RoomHub
    rooms,           \* the listed room objects
    suspended,       \* the users whose seat waits for a reconnect
    invites,         \* recipient -> pending invitation
    battles          \* store.next_battle counter

engine_vars == <<game, p2p>>
seat_vars == <<slot, team, registry_key, spectator>>
roster_vars == <<rooms, members, room, owner, request>>
pending_vars == <<network_probe, seat_exchange>>
result_vars == <<result_reports, result_replies, result_acks>>
match_vars == <<stage, serial, loaded, input_ready, result_vars, public_deadline, battles>>
vars == <<game, phase, p2p, room, slot, team, registry_key, ready, spectator,
          owner, request, stage, serial, members, loaded, input_ready,
          result_reports, result_replies, result_acks, public_deadline,
          network_probe, seat_exchange, rooms, suspended, invites, battles>>

-----------------------------------------------------------------------------
(* Reading a room                                                          *)

Fighters(r) == members[r] \ spectator
Observers(r) == members[r] \cap spectator

\* RoomHub.observer_limit: request stands for the watch option request[34],
\* the one room setting that other handlers read.
ObserverLimit(r) == IF Mode = 1 /\ request[r] THEN SpectatorCapacity ELSE 0

\* Engine.p2p_alive, and the bound lease RoomHub.fighter insists on before it
\* builds a member's native record.
Alive(u) == p2p[u] # "none"
Bound(u) == p2p[u] = "bound"

\* RoomHub.start_identity: what a start probe and a seat exchange are bound to.
IdentityWith(r, rd) ==
    [owner |-> owner[r], request |-> request[r],
     roster |-> {[uid |-> u, game |-> game[u], slot |-> slot[u], team |-> team[u],
                  registry_key |-> registry_key[u],
                  ready |-> u \in rd, spectator |-> u \in spectator] : u \in members[r]}]
StartIdentity(r) == IdentityWith(r, ready)

\* Mutant: the next seat is the number of fighters.
SlotByCount(r) == Cardinality(Fighters(r))

\* The first native seat no fighter holds.
FreeSlots(r) == {i \in Slots : \A u \in Fighters(r) : slot[u] # i}
FirstFreeSlot(r) == CHOOSE i \in FreeSlots(r) : \A j \in FreeSlots(r) : i <= j

\* RoomHub.position_key: outside team modes a position is the seat; a team has
\* its own bank of positions and takes the first free one, or None.
Bank(t) == BankSize * t .. BankSize * t + BankSize - 1
PositionKey(r, t, s, exclude) ==
    LET free == {k \in Bank(t) : \A u \in Fighters(r) \ {exclude} : registry_key[u] # k}
    IN  IF Mode \notin TeamModes THEN s
        ELSE IF free = {} THEN None
        ELSE CHOOSE k \in free : \A j \in free : k <= j

\* Mutant: nobody has to confirm again.
StillReady(r) == ready

\* The readiness that is left after r changed: its members all lose theirs.
Unreadied(r) == ready \ members[r]

-----------------------------------------------------------------------------
(* Phases and barriers                                                     *)

\* The phase the members of a room in a given stage are put into.
PhaseOf(st) ==
    CASE st = "room" -> "ROOM"
      [] st = "loading" -> "LOADING"
      [] st = "wait_ready" -> "WAIT_READY"
      [] st \in {"battle", "result"} -> "BATTLE"

\* The three barriers of RoomFlow.advance_barriers, tried one after the other.
StageAfter(st, ms, fs, ld, ir, acks) ==
    LET s1 == IF st = "loading" /\ ld = ms THEN "wait_ready" ELSE st
        s2 == IF s1 = "wait_ready" /\ fs # {} /\ ir = fs THEN "battle" ELSE s1
    IN  IF s2 = "result" /\ acks = ms THEN "room" ELSE s2

\* Mutant: a match gets no deadline.
Unarmed(r) == public_deadline

\* A match of a public room gets a deadline when it starts to load and a new
\* one when the battle begins.
Armed(r) == IF PublicPolicy THEN public_deadline \cup {r} ELSE public_deadline

\* RoomFlow.advance_barriers(r) on the roster ms with ledgers ld, ir and acks;
\* ph is the phase of every connection if no barrier opens.
AdvanceBarriers(r, ms, ld, ir, acks, ph) ==
    LET st == StageAfter(stage[r], ms, ms \ spectator, ld, ir, acks)
        back == st = "room" /\ stage[r] # "room"
    IN  /\ stage' = [stage EXCEPT ![r] = st]
        /\ phase' = [u \in Users |-> IF u \in ms /\ st # stage[r] THEN PhaseOf(st) ELSE ph[u]]
        /\ loaded' = [loaded EXCEPT ![r] = IF back THEN {} ELSE ld]
        /\ input_ready' = [input_ready EXCEPT ![r] = IF back THEN {} ELSE ir]
        /\ result_acks' = [result_acks EXCEPT ![r] = acks]
        /\ ready' = IF back THEN ready \ ms ELSE ready
        /\ public_deadline' = IF back THEN public_deadline \ {r}
                              ELSE IF st = "battle" /\ stage[r] # "battle" THEN Armed(r)
                              ELSE public_deadline

-----------------------------------------------------------------------------
\* Before the first connection: engines attached, nobody online, no room.
Init ==
    /\ game = [u \in Users |-> None]
    /\ phase = [u \in Users |-> "CLOSED"]
    /\ p2p = [u \in Users |-> "none"]
    /\ room = [u \in Users |-> None]
    /\ slot = [u \in Users |-> None]
    /\ team = [u \in Users |-> None]
    /\ registry_key = [u \in Users |-> None]
    /\ ready = {}
    /\ spectator = {}
    /\ owner = [r \in Rooms |-> None]
    /\ request = [r \in Rooms |-> FALSE]
    /\ stage = [r \in Rooms |-> "room"]
    /\ serial = [r \in Rooms |-> 0]
    /\ members = [r \in Rooms |-> {}]
    /\ loaded = [r \in Rooms |-> {}]
    /\ input_ready = [r \in Rooms |-> {}]
    /\ result_reports = [r \in Rooms |-> [u \in Users |-> {}]]
    /\ result_replies = [r \in Rooms |-> {}]
    /\ result_acks = [r \in Rooms |-> {}]
    /\ public_deadline = {}
    /\ network_probe = [r \in Rooms |-> None]
    /\ seat_exchange = [r \in Rooms |-> None]
    /\ rooms = {}
    /\ suspended = {}
    /\ invites = [u \in Users |-> None]
    /\ battles = 0
=============================================================================
