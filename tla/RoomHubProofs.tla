---------------------------- MODULE RoomHubProofs ----------------------------
(***************************************************************************)
(* The hub outside its matches, for any number of users, rooms and         *)
(* connections: its types, the agreement of the two sides of membership,   *)
(* the seat of the owner; seats and positions are exclusive, whatever      *)
(* changes a waiting room takes its readiness, positions are only traded   *)
(* by consent, and an invitation belongs to two living connections.        *)
(***************************************************************************)
EXTENDS RoomHub, FiniteSetTheorems, TLAPS

-----------------------------------------------------------------------------
(* Seats that can be found when the code looks for one, and barriers       *)

\* A set of naturals that is not empty has a least element.
LEMMA LeastNatural ==
    ASSUME NEW S, S \subseteq Nat, S # {}
    PROVE  \E i \in S : \A j \in S : i <= j
<1> DEFINE Below(i) == 0 .. i - 1
           T == {Below(i) : i \in S}
<1>1. T \subseteq FiniteSubsetsOf(Nat) /\ T # {}
    <2>1. \A i \in S : Below(i) \subseteq Nat /\ IsFiniteSet(Below(i))
        BY FS_Interval
    <2> QED  BY <2>1 DEF FiniteSubsetsOf
<1>2. IsWellFoundedOn(StrictSubsetOrdering(Nat), FiniteSubsetsOf(Nat))
    BY FS_StrictSubsetOrderingWellFounded
<1>3. \E X \in T : \A Y \in T : ~ (<<Y, X>> \in StrictSubsetOrdering(Nat))
    <2> HIDE DEF T
    <2> QED  BY <1>1, <1>2, WFMin
<1>4. PICK i \in S : \A j \in S : ~ (<<Below(j), Below(i)>> \in StrictSubsetOrdering(Nat))
    BY <1>3
<1>5. ASSUME NEW j \in S, j < i PROVE FALSE
    <2>1. Below(j) \subseteq Below(i) /\ j \in Below(i) /\ j \notin Below(j)
        BY <1>5
    <2>2. Below(j) \in SUBSET Nat /\ Below(i) \in SUBSET Nat
        BY <1>5
    <2>3. <<Below(j), Below(i)>> \in StrictSubsetOrdering(Nat)
        <3> HIDE DEF Below
        <3> QED  BY <2>1, <2>2 DEF StrictSubsetOrdering
    <2> QED  BY <2>3, <1>4, <1>5
<1>6. \A j \in S : i <= j
    BY <1>5
<1> QED  BY <1>6

\* next(i for i in range(8) if i not in used) finds a seat: with fewer
\* fighters than seats one is free, and the least free one is chosen.
LEMMA FirstFreeSlotIsFree ==
    ASSUME NEW r, IsFiniteSet(Fighters(r)), Cardinality(Fighters(r)) < Capacity
    PROVE  FirstFreeSlot(r) \in FreeSlots(r)
<1> DEFINE F == Fighters(r)
           f == [u \in F |-> slot[u]]
           T == {f[u] : u \in F}
<1>1. f \in Surjection(F, T)
    BY DEF Surjection
<1>2. IsFiniteSet(T) /\ Cardinality(T) <= Cardinality(F)
    BY <1>1, FS_Surjection
<1>3. IsFiniteSet(Slots) /\ Cardinality(Slots) = 2 * BankSize
    BY FS_Interval, RoomAssumption DEF Slots
<1>4. FreeSlots(r) # {}
    <2> SUFFICES ASSUME FreeSlots(r) = {} PROVE FALSE
        OBVIOUS
    <2>1. Slots \subseteq T
        BY DEF FreeSlots
    <2>2. Cardinality(Slots) <= Cardinality(T)
        BY <2>1, <1>2, FS_Subset
    <2>3. Cardinality(T) \in Nat /\ Cardinality(F) \in Nat
        BY <1>2, FS_CardinalityType
    <2> QED  BY <2>2, <2>3, <1>2, <1>3, RoomAssumption
<1>5. FreeSlots(r) \subseteq Nat
    BY RoomAssumption DEF FreeSlots, Slots
<1> QED  BY <1>4, <1>5, LeastNatural DEF FirstFreeSlot

\* A position of a team is one of its bank that no other fighter holds;
\* outside team modes the position is the seat.
LEMMA PositionKeyIsFree ==
    ASSUME NEW r, NEW t \in {0, 1}, NEW s, NEW exclude,
           PositionKey(r, t, s, exclude) # None
    PROVE  IF Mode \in TeamModes
           THEN /\ PositionKey(r, t, s, exclude) \in Bank(t)
                /\ \A u \in Fighters(r) \ {exclude} :
                       registry_key[u] # PositionKey(r, t, s, exclude)
           ELSE PositionKey(r, t, s, exclude) = s
<1> DEFINE free == {k \in Bank(t) : \A u \in Fighters(r) \ {exclude} : registry_key[u] # k}
<1>1. CASE Mode \notin TeamModes
    BY <1>1 DEF PositionKey
<1>2. CASE Mode \in TeamModes
    <2>1. free # {}
        BY <1>2 DEF PositionKey
    <2>2. free \subseteq Nat
        BY RoomAssumption DEF Bank
    <2>3. \E k \in free : \A j \in free : k <= j
        <3> HIDE DEF free
        <3> QED  BY <2>1, <2>2, LeastNatural
    <2>4. PositionKey(r, t, s, exclude) = CHOOSE k \in free : \A j \in free : k <= j
        BY <1>2, <2>1 DEF PositionKey
    <2>5. PositionKey(r, t, s, exclude) \in free
        BY <2>3, <2>4
    <2> QED  BY <1>2, <2>5
<1> QED  BY <1>1, <1>2

\* The positions of both teams are seats.
LEMMA BankOfSeats ==
    ASSUME NEW t \in {0, 1}
    PROVE  Bank(t) \subseteq Slots
BY RoomAssumption DEF Bank, Slots

\* So a position is a seat or None whenever it is derived from a seat.
LEMMA PositionKeyType ==
    ASSUME NEW r, NEW t \in {0, 1}, NEW s \in Seats, NEW exclude
    PROVE  PositionKey(r, t, s, exclude) \in Seats \cup {None}
BY PositionKeyIsFree, BankOfSeats DEF Seats

\* The barriers map stages to stages and stages to phases.
LEMMA StageAfterType ==
    ASSUME NEW st \in Stages, NEW ms, NEW fs, NEW ld, NEW ir, NEW acks
    PROVE  /\ StageAfter(st, ms, fs, ld, ir, acks) \in Stages
           /\ PhaseOf(StageAfter(st, ms, fs, ld, ir, acks)) \in Phases
BY DEF StageAfter, Stages, PhaseOf, Phases

\* Only the result barrier leads back to the waiting stage, and a waiting
\* room stays one: advance_barriers never starts or ends a match by itself.
LEMMA StageAfterRoom ==
    ASSUME NEW st \in Stages, NEW ms, NEW fs, NEW ld, NEW ir, NEW acks
    PROVE  /\ st = "room" => StageAfter(st, ms, fs, ld, ir, acks) = "room"
           /\ st # "room" /\ StageAfter(st, ms, fs, ld, ir, acks) = "room" =>
                  st = "result" /\ acks = ms
BY DEF StageAfter, Stages

-----------------------------------------------------------------------------
(* The invariant                                                           *)

\* A user in a room has a seat, a team and a position.
Seated ==
    \A u \in Users : room[u] # None =>
        slot[u] \in Seats /\ team[u] \in {0, 1} /\ registry_key[u] \in Seats

\* A room object that is not listed is as empty as a fresh one.
Unlisted == \A r \in Rooms \ rooms : members[r] = {} /\ stage[r] = "room"

\* A start probe was made by an owner who fights: the last reply to it may
\* start the match long after the owner asked for it.
ProbeOwned ==
    \A r \in Rooms : network_probe[r] # None =>
        LET i == network_probe[r].identity
        IN  \E e \in i.roster : e.uid = i.owner /\ ~ e.spectator

Roster == TypeOK /\ RosterAgreement /\ OwnerSeated /\ Seated /\ Unlisted /\ ProbeOwned

-----------------------------------------------------------------------------
(* Types of what the operators return                                      *)

LEMMA IdentityType ==
    ASSUME TypeOK, NEW r \in Rooms, NEW rd
    PROVE  IdentityWith(r, rd) \in Identities
<1>1. ASSUME NEW u \in members[r]
      PROVE  [uid |-> u, game |-> game[u], slot |-> slot[u], team |-> team[u],
              registry_key |-> registry_key[u],
              ready |-> u \in rd, spectator |-> u \in spectator] \in Places
    BY DEF TypeOK, Places
<1>2. IdentityWith(r, rd).roster \in SUBSET Places
    BY <1>1 DEF IdentityWith
<1> QED  BY <1>2 DEF IdentityWith, Identities, TypeOK

LEMMA InitRoster == Init => Roster
BY RoomAssumption DEF Init, Roster, TypeOK, RosterAgreement, OwnerSeated, Seated, Unlisted, ProbeOwned,
       Phases, Stages

-----------------------------------------------------------------------------
(* Steps that leave roster, seats and stages alone                         *)

LEMMA SameRoster ==
    ASSUME Roster, UNCHANGED <<roster_vars, seat_vars, stage>>, TypeOK', ProbeOwned'
    PROVE  Roster'
BY DEF Roster, RosterAgreement, OwnerSeated, Seated, Unlisted, roster_vars, seat_vars, Fighters

LEMMA EnterStep ==
    ASSUME Roster, NEW u \in Users, NEW c \in Conns, Enter(u, c)
    PROVE  Roster'
<1>1. TypeOK'
    BY DEF Roster, TypeOK, Enter, roster_vars, seat_vars, match_vars, result_vars, pending_vars, Phases
<1>2. ProbeOwned'
    BY DEF Roster, ProbeOwned, Enter, pending_vars
<1>3. UNCHANGED <<roster_vars, seat_vars, stage>>
    BY DEF Enter, match_vars
<1> QED  BY <1>1, <1>2, <1>3, SameRoster

LEMMA RegisterP2PStep ==
    ASSUME Roster, NEW u \in Users, RegisterP2P(u)
    PROVE  Roster'
<1>1. TypeOK'
    BY DEF Roster, TypeOK, RegisterP2P, roster_vars, seat_vars, match_vars, result_vars,
           pending_vars, engine_vars, Phases
<1>2. ProbeOwned'
    BY DEF Roster, ProbeOwned, RegisterP2P, pending_vars
<1>3. UNCHANGED <<roster_vars, seat_vars, stage>>
    BY DEF RegisterP2P, roster_vars, seat_vars, match_vars
<1> QED  BY <1>1, <1>2, <1>3, SameRoster

LEMMA LoseP2PStep ==
    ASSUME Roster, NEW u \in Users, LoseP2P(u)
    PROVE  Roster'
<1>1. TypeOK'
    BY DEF Roster, TypeOK, LoseP2P, roster_vars, seat_vars, match_vars, result_vars,
           pending_vars, engine_vars, Phases
<1>2. ProbeOwned'
    BY DEF Roster, ProbeOwned, LoseP2P, pending_vars
<1>3. UNCHANGED <<roster_vars, seat_vars, stage>>
    BY DEF LoseP2P, roster_vars, seat_vars, match_vars
<1> QED  BY <1>1, <1>2, <1>3, SameRoster

LEMMA BindStep ==
    ASSUME Roster, NEW u \in Users, Bind(u)
    PROVE  Roster'
<1>1. TypeOK'
    BY DEF Roster, TypeOK, Bind, roster_vars, seat_vars, match_vars, result_vars,
           pending_vars, engine_vars, Phases
<1>2. ProbeOwned'
    BY DEF Roster, ProbeOwned, Bind, pending_vars
<1>3. UNCHANGED <<roster_vars, seat_vars, stage>>
    BY DEF Bind, roster_vars, seat_vars, match_vars
<1> QED  BY <1>1, <1>2, <1>3, SameRoster

LEMMA ExpireSeatStep ==
    ASSUME Roster, NEW r \in Rooms, ExpireSeat(r)
    PROVE  Roster'
<1>1. TypeOK'
    BY DEF Roster, TypeOK, ExpireSeat, roster_vars, seat_vars, match_vars, result_vars,
           pending_vars, engine_vars, Phases
<1>2. ProbeOwned'
    BY DEF Roster, ProbeOwned, ExpireSeat, pending_vars
<1>3. UNCHANGED <<roster_vars, seat_vars, stage>>
    BY DEF ExpireSeat, roster_vars, seat_vars, match_vars
<1> QED  BY <1>1, <1>2, <1>3, SameRoster

LEMMA CancelNetworkProbeStep ==
    ASSUME Roster, NEW r \in Rooms, CancelNetworkProbe(r)
    PROVE  Roster'
<1>1. TypeOK'
    BY DEF Roster, TypeOK, CancelNetworkProbe, Unreadied, roster_vars, seat_vars, match_vars, result_vars,
           pending_vars, engine_vars, Phases
<1>2. ProbeOwned'
    BY DEF Roster, ProbeOwned, CancelNetworkProbe, Unreadied, pending_vars
<1>3. UNCHANGED <<roster_vars, seat_vars, stage>>
    BY DEF CancelNetworkProbe, Unreadied, roster_vars, seat_vars, match_vars
<1> QED  BY <1>1, <1>2, <1>3, SameRoster

LEMMA ExpireInviteStep ==
    ASSUME Roster, NEW u \in Users, ExpireInvite(u)
    PROVE  Roster'
<1>1. TypeOK'
    BY DEF Roster, TypeOK, ExpireInvite, roster_vars, seat_vars, match_vars, result_vars,
           pending_vars, engine_vars, Phases
<1>2. ProbeOwned'
    BY DEF Roster, ProbeOwned, ExpireInvite, pending_vars
<1>3. UNCHANGED <<roster_vars, seat_vars, stage>>
    BY DEF ExpireInvite, roster_vars, seat_vars, match_vars
<1> QED  BY <1>1, <1>2, <1>3, SameRoster

LEMMA DropInviteStep ==
    ASSUME Roster, NEW u \in Users, DropInvite(u)
    PROVE  Roster'
<1>1. TypeOK'
    BY DEF Roster, TypeOK, DropInvite, roster_vars, seat_vars, match_vars, result_vars,
           pending_vars, engine_vars, Phases
<1>2. ProbeOwned'
    BY DEF Roster, ProbeOwned, DropInvite, pending_vars
<1>3. UNCHANGED <<roster_vars, seat_vars, stage>>
    BY DEF DropInvite, roster_vars, seat_vars, match_vars
<1> QED  BY <1>1, <1>2, <1>3, SameRoster

LEMMA UnreadyStep ==
    ASSUME Roster, NEW u \in Users, Unready(u)
    PROVE  Roster'
<1>1. TypeOK'
    BY DEF Roster, TypeOK, Unready, roster_vars, seat_vars, match_vars, result_vars,
           pending_vars, engine_vars, Phases
<1>2. ProbeOwned'
    BY DEF Roster, ProbeOwned, Unready, pending_vars
<1>3. UNCHANGED <<roster_vars, seat_vars, stage>>
    BY DEF Unready, roster_vars, seat_vars, match_vars
<1> QED  BY <1>1, <1>2, <1>3, SameRoster

LEMMA InviteStep ==
    ASSUME Roster, NEW u \in Users, NEW t \in Users, Invite(u, t)
    PROVE  Roster'
<1>1. TypeOK'
    BY DEF Roster, TypeOK, Invite, Invitations, InRoom, Handled, roster_vars, seat_vars, match_vars, result_vars,
           pending_vars, engine_vars, Phases
<1>2. ProbeOwned'
    BY DEF Roster, ProbeOwned, Invite, Invitations, InRoom, Handled, pending_vars
<1>3. UNCHANGED <<roster_vars, seat_vars, stage>>
    BY DEF Invite, Invitations, InRoom, Handled, roster_vars, seat_vars, match_vars
<1> QED  BY <1>1, <1>2, <1>3, SameRoster

LEMMA ProposeSwapStep ==
    ASSUME Roster, NEW u \in Users, NEW t \in Users, ProposeSwap(u, t)
    PROVE  Roster'
<1>1. TypeOK'
    BY IdentityType DEF Roster, TypeOK, ProposeSwap, Exchanges, StartIdentity, ExchangeOpen, InRoom, roster_vars, seat_vars, match_vars, result_vars,
           pending_vars, engine_vars, Phases
<1>2. ProbeOwned'
    BY DEF Roster, ProbeOwned, ProposeSwap, Exchanges, StartIdentity, ExchangeOpen, InRoom, pending_vars
<1>3. UNCHANGED <<roster_vars, seat_vars, stage>>
    BY DEF ProposeSwap, Exchanges, StartIdentity, ExchangeOpen, InRoom, roster_vars, seat_vars, match_vars
<1> QED  BY <1>1, <1>2, <1>3, SameRoster

LEMMA RejectSwapStep ==
    ASSUME Roster, NEW u \in Users, RejectSwap(u)
    PROVE  Roster'
<1>1. TypeOK'
    BY DEF Roster, TypeOK, RejectSwap, ExchangeOpen, InRoom, roster_vars, seat_vars, match_vars, result_vars,
           pending_vars, engine_vars, Phases
<1>2. ProbeOwned'
    BY DEF Roster, ProbeOwned, RejectSwap, ExchangeOpen, InRoom, pending_vars
<1>3. UNCHANGED <<roster_vars, seat_vars, stage>>
    BY DEF RejectSwap, ExchangeOpen, InRoom, roster_vars, seat_vars, match_vars
<1> QED  BY <1>1, <1>2, <1>3, SameRoster

-----------------------------------------------------------------------------
(* Leaving                                                                 *)

LEMMA AdvanceType ==
    ASSUME TypeOK, NEW r \in Rooms, NEW ms \in SUBSET Users, NEW ld \in SUBSET Users,
           NEW ir \in SUBSET Users, NEW acks \in SUBSET Users, NEW ph \in [Users -> Phases],
           AdvanceBarriers(r, ms, ld, ir, acks, ph)
    PROVE  /\ stage' \in [Rooms -> Stages] /\ phase' \in [Users -> Phases]
           /\ loaded' \in [Rooms -> SUBSET Users] /\ input_ready' \in [Rooms -> SUBSET Users]
           /\ result_acks' \in [Rooms -> SUBSET Users]
           /\ ready' \subseteq Users /\ public_deadline' \subseteq Rooms
           /\ \A q \in Rooms : stage[q] = "room" => stage'[q] = "room"
           /\ \A q \in Rooms \ {r} : stage'[q] = stage[q]
<1> DEFINE st == StageAfter(stage[r], ms, ms \ spectator, ld, ir, acks)
<1>1. stage[r] \in Stages
    BY DEF TypeOK
<1>2. st \in Stages /\ PhaseOf(st) \in Phases /\ (stage[r] = "room" => st = "room")
    BY <1>1, StageAfterType, StageAfterRoom
<1>3. /\ stage' = [stage EXCEPT ![r] = st]
      /\ phase' = [v \in Users |-> IF v \in ms /\ st # stage[r] THEN PhaseOf(st) ELSE ph[v]]
      /\ loaded' = [loaded EXCEPT ![r] = IF st = "room" /\ stage[r] # "room" THEN {} ELSE ld]
      /\ input_ready' = [input_ready EXCEPT ![r] = IF st = "room" /\ stage[r] # "room" THEN {} ELSE ir]
      /\ result_acks' = [result_acks EXCEPT ![r] = acks]
      /\ ready' \in {ready, ready \ ms}
      /\ public_deadline' \in {public_deadline, public_deadline \ {r}, Armed(r)}
    BY DEF AdvanceBarriers
<1> HIDE DEF st
<1> QED  BY <1>2, <1>3 DEF TypeOK, Armed

LEMMA LeaveEmptyStep ==
    ASSUME Roster, NEW u \in Users, room[u] # None, NEW ph \in Phases,
           LeaveEmpty(u, room[u], ph)
    PROVE  /\ RosterAgreement' /\ OwnerSeated' /\ Seated' /\ Unlisted'
           /\ phase' \in [Users -> Phases] /\ ready' \subseteq Users
<1>1. room[u] \in rooms /\ room[u] \in Rooms
    BY DEF Roster, TypeOK, RosterAgreement
<1>2. RosterAgreement' /\ Unlisted' /\ Seated'
    BY <1>1, RoomAssumption DEF Roster, TypeOK, RosterAgreement, Seated, Unlisted, LeaveEmpty, Unseat, Unlist
<1>3. OwnerSeated'
    BY <1>1 DEF Roster, TypeOK, RosterAgreement, OwnerSeated, LeaveEmpty, Unseat, Unlist, Fighters
<1>4. phase' \in [Users -> Phases] /\ ready' \subseteq Users
    BY DEF Roster, TypeOK, LeaveEmpty, Unreadied, Phases
<1> QED  BY <1>2, <1>3, <1>4

LEMMA LeaveObserverStep ==
    ASSUME Roster, NEW u \in Users, room[u] # None, NEW ph \in Phases,
           LeaveObserver(u, room[u], ph)
    PROVE  /\ RosterAgreement' /\ OwnerSeated' /\ Seated' /\ Unlisted'
           /\ stage' \in [Rooms -> Stages] /\ phase' \in [Users -> Phases]
           /\ loaded' \in [Rooms -> SUBSET Users] /\ input_ready' \in [Rooms -> SUBSET Users]
           /\ result_acks' \in [Rooms -> SUBSET Users]
           /\ ready' \subseteq Users /\ public_deadline' \subseteq Rooms
<1> DEFINE r == room[u]
<1>1. r \in rooms /\ r \in Rooms /\ u \in members[r]
    BY DEF Roster, TypeOK, RosterAgreement
<1>2. /\ stage' \in [Rooms -> Stages] /\ phase' \in [Users -> Phases]
      /\ loaded' \in [Rooms -> SUBSET Users] /\ input_ready' \in [Rooms -> SUBSET Users]
      /\ result_acks' \in [Rooms -> SUBSET Users]
      /\ ready' \subseteq Users /\ public_deadline' \subseteq Rooms
      /\ \A q \in Rooms : stage[q] = "room" => stage'[q] = "room"
      /\ \A q \in Rooms \ {r} : stage'[q] = stage[q]
    <2>1. TypeOK
        BY DEF Roster
    <2>2. /\ members[r] \ {u} \in SUBSET Users /\ loaded[r] \ {u} \in SUBSET Users
          /\ input_ready[r] \ {u} \in SUBSET Users /\ result_acks[r] \ {u} \in SUBSET Users
          /\ [phase EXCEPT ![u] = ph] \in [Users -> Phases]
        BY <1>1, <2>1 DEF TypeOK
    <2>3. AdvanceBarriers(r, members[r] \ {u}, loaded[r] \ {u}, input_ready[r] \ {u},
                          result_acks[r] \ {u}, [phase EXCEPT ![u] = ph])
        BY DEF LeaveObserver
    <2> QED  BY <1>1, <2>1, <2>2, <2>3, AdvanceType
<1>3. u \in spectator /\ stage[r] # "room" /\ members[r] # {u}
    BY <1>1 DEF LeaveObserver, Departing
<1>4. RosterAgreement' /\ Unlisted' /\ Seated'
    BY <1>1, <1>2, <1>3, RoomAssumption DEF Roster, TypeOK, RosterAgreement, Seated, Unlisted, LeaveObserver, Unseat
<1>5. OwnerSeated'
    BY <1>1, <1>2, <1>3 DEF Roster, TypeOK, RosterAgreement, OwnerSeated, LeaveObserver, Unseat, Fighters
<1> QED  BY <1>2, <1>4, <1>5

LEMMA LeaveWaitingStep ==
    ASSUME Roster, NEW u \in Users, room[u] # None, NEW ph \in Phases,
           LeaveWaiting(u, room[u], ph)
    PROVE  /\ RosterAgreement' /\ OwnerSeated' /\ Seated' /\ Unlisted'
           /\ owner' \in [Rooms -> Users \cup {None}]
<1> DEFINE r == room[u]
<1>1. r \in rooms /\ r \in Rooms /\ u \in members[r] /\ stage[r] = "room"
    BY DEF Roster, TypeOK, RosterAgreement, LeaveWaiting
<1>2. members[r] # {u}
    BY <1>1 DEF LeaveWaiting, Departing
<1>3. PICK heir \in Heirs(u, r) : owner' = [owner EXCEPT ![r] = heir]
    BY DEF LeaveWaiting
<1>4. /\ heir \in members[r] \ {u}
      /\ Fighters(r) \ {u} # {} => heir \in Fighters(r) \ {u}
    BY <1>1 DEF Heirs, Successors, Fighters, Roster, OwnerSeated
<1>5. RosterAgreement' /\ Unlisted' /\ Seated'
    BY <1>1, <1>2, RoomAssumption DEF Roster, TypeOK, RosterAgreement, Seated, Unlisted, LeaveWaiting, Unseat
<1>6. OwnerSeated'
    BY <1>1, <1>3, <1>4 DEF Roster, TypeOK, RosterAgreement, OwnerSeated, LeaveWaiting, Unseat, Fighters
<1>7. heir \in Users
    BY <1>1, <1>4 DEF Roster, TypeOK
<1> QED  BY <1>1, <1>3, <1>5, <1>6, <1>7 DEF Roster, TypeOK

LEMMA LeaveStep ==
    ASSUME Roster, NEW u \in Users, NEW ph \in Phases, Leave(u, ph),
           game' \in [Users -> Conns \cup {None}], p2p' \in [Users -> {"none", "open", "bound"}]
    PROVE  Roster'
<1> DEFINE r == room[u]
<1>1. TypeOK /\ r \in Rooms \cup {None}
    BY DEF Roster, TypeOK
<1>2. invites' \in [Users -> Invitations \cup {None}] /\ suspended' \subseteq Users
    BY <1>1 DEF Leave, InvitesWithout, TypeOK
<1>3. CASE r = None
    <2>1. UNCHANGED <<roster_vars, seat_vars, match_vars, pending_vars, ready>>
        BY <1>3 DEF Leave
    <2>2. phase' = [phase EXCEPT ![u] = ph]
        BY <1>3 DEF Leave
    <2>3. TypeOK'
        BY <1>1, <1>2, <2>1, <2>2 DEF TypeOK, roster_vars, seat_vars, match_vars, result_vars,
                                      pending_vars
    <2>4. ProbeOwned'
        BY <2>1 DEF Roster, ProbeOwned, pending_vars
    <2> QED  BY <2>1, <2>3, <2>4, SameRoster DEF match_vars
<1>4. CASE r # None
    <2>1. /\ seat_exchange' = [seat_exchange EXCEPT ![r] = None]
          /\ network_probe' = [network_probe EXCEPT ![r] = None]
          /\ LeaveEmpty(u, r, ph) \/ LeaveObserver(u, r, ph) \/ LeaveWaiting(u, r, ph)
        BY <1>4 DEF Leave
    <2>2. ProbeOwned'
        BY <1>1, <2>1 DEF Roster, ProbeOwned, TypeOK
    <2>3. /\ seat_exchange' \in [Rooms -> Exchanges \cup {None}]
          /\ network_probe' \in [Rooms -> Probes \cup {None}]
        BY <1>1, <2>1 DEF TypeOK
    <2>4. CASE LeaveEmpty(u, r, ph)
        <3>1. RosterAgreement' /\ OwnerSeated' /\ Seated' /\ Unlisted'
            BY <1>4, <2>4, LeaveEmptyStep
        <3>2. phase' \in [Users -> Phases] /\ ready' \subseteq Users
            BY <1>4, <2>4, LeaveEmptyStep
        <3>3. TypeOK'
            BY <1>1, <1>2, <2>3, <2>4, <3>2 DEF TypeOK, LeaveEmpty, Unseat, Unlist, Stages
        <3> QED  BY <2>2, <3>1, <3>3 DEF Roster
    <2>5. CASE LeaveObserver(u, r, ph)
        <3>1. RosterAgreement' /\ OwnerSeated' /\ Seated' /\ Unlisted'
            BY <1>4, <2>5, LeaveObserverStep
        <3>2. /\ stage' \in [Rooms -> Stages] /\ phase' \in [Users -> Phases]
              /\ loaded' \in [Rooms -> SUBSET Users] /\ input_ready' \in [Rooms -> SUBSET Users]
              /\ result_acks' \in [Rooms -> SUBSET Users]
              /\ ready' \subseteq Users /\ public_deadline' \subseteq Rooms
            BY <1>4, <2>5, LeaveObserverStep
        <3>3. TypeOK'
            BY <1>1, <1>2, <2>3, <2>5, <3>2 DEF TypeOK, LeaveObserver, Unseat
        <3> QED  BY <2>2, <3>1, <3>3 DEF Roster
    <2>6. CASE LeaveWaiting(u, r, ph)
        <3>1. RosterAgreement' /\ OwnerSeated' /\ Seated' /\ Unlisted'
            BY <1>4, <2>6, LeaveWaitingStep
        <3>2. owner' \in [Rooms -> Users \cup {None}]
            BY <1>4, <2>6, LeaveWaitingStep
        <3>3. TypeOK'
            BY <1>1, <1>2, <2>3, <2>6, <3>2 DEF TypeOK, LeaveWaiting, Unseat, Unreadied
        <3> QED  BY <2>2, <3>1, <3>3 DEF Roster
    <2> QED  BY <2>1, <2>4, <2>5, <2>6
<1> QED  BY <1>3, <1>4

LEMMA RemoveStep ==
    ASSUME Roster, NEW u \in Users, Remove(u)
    PROVE  Roster'
<1>1. (IF game[u] = None THEN "CLOSED" ELSE "LOBBY") \in Phases
    BY DEF Phases
<1>2. game' \in [Users -> Conns \cup {None}] /\ p2p' \in [Users -> {"none", "open", "bound"}]
    BY DEF Roster, TypeOK, Remove, engine_vars
<1> QED  BY <1>1, <1>2, LeaveStep DEF Remove

LEMMA DisconnectStep ==
    ASSUME Roster, NEW u \in Users, Disconnect(u)
    PROVE  Roster'
<1>1. game' \in [Users -> Conns \cup {None}] /\ p2p' \in [Users -> {"none", "open", "bound"}]
    BY DEF Roster, TypeOK, Disconnect
<1>2. CASE SuspendsOnLoss(u)
    <2>1. Suspend(u)
        BY <1>2 DEF Disconnect
    <2>2. TypeOK'
        BY <1>1, <2>1 DEF Roster, TypeOK, Suspend, InvitesWithout, roster_vars, seat_vars, match_vars,
                          result_vars, pending_vars, Phases
    <2>3. ProbeOwned'
        BY <2>1 DEF Roster, ProbeOwned, Suspend, pending_vars
    <2>4. UNCHANGED <<roster_vars, seat_vars, stage>>
        BY <2>1 DEF Suspend, match_vars
    <2> QED  BY <2>2, <2>3, <2>4, SameRoster
<1>3. CASE ~ SuspendsOnLoss(u)
    BY <1>1, <1>3, LeaveStep DEF Disconnect, Phases
<1> QED  BY <1>2, <1>3

\* Every deadline: the owner of a listed room is one of its members.
LEMMA ExpireStep ==
    ASSUME Roster, Expire
    PROVE  Roster'
<1>1. ASSUME NEW r \in Rooms, ExpirePublicDeadline(r) PROVE Roster'
    <2>1. owner[r] \in Users
        BY <1>1 DEF ExpirePublicDeadline, Roster, OwnerSeated, TypeOK
    <2> QED  BY <1>1, <2>1, RemoveStep DEF ExpirePublicDeadline
<1>2. ASSUME NEW r \in Rooms, ExpireProbe(r) PROVE Roster'
    BY <1>2, CancelNetworkProbeStep DEF ExpireProbe
<1>3. ASSUME NEW u \in Users, ExpireSuspended(u) PROVE Roster'
    BY <1>3, RemoveStep DEF ExpireSuspended
<1> QED  BY <1>1, <1>2, <1>3, ExpireSeatStep, ExpireInviteStep DEF Expire

-----------------------------------------------------------------------------
(* Readiness, start and barriers                                           *)

\* What a start changes: the stage of one room, whose owner must be a fighter.
LEMMA StartMatchStep ==
    ASSUME Roster, NEW r \in rooms, owner[r] \in Fighters(r), StartMatch(r)
    PROVE  /\ stage' \in [Rooms -> Stages] /\ serial' \in [Rooms -> Nat] /\ battles' \in Nat
           /\ phase' \in [Users -> Phases]
           /\ loaded' \in [Rooms -> SUBSET Users] /\ input_ready' \in [Rooms -> SUBSET Users]
           /\ result_reports' \in [Rooms -> [Users -> SUBSET Users]]
           /\ result_replies' \in [Rooms -> SUBSET Users]
           /\ result_acks' \in [Rooms -> SUBSET Users]
           /\ public_deadline' \subseteq Rooms
           /\ network_probe' \in [Rooms -> Probes \cup {None}]
           /\ ProbeOwned'
           /\ UNCHANGED <<roster_vars, seat_vars>> =>
                  RosterAgreement' /\ OwnerSeated' /\ Seated' /\ Unlisted'
<1>1. r \in Rooms /\ TypeOK
    BY DEF Roster, TypeOK
<1>2. /\ stage' \in [Rooms -> Stages] /\ serial' \in [Rooms -> Nat] /\ battles' \in Nat
      /\ phase' \in [Users -> Phases]
      /\ public_deadline' \subseteq Rooms
      /\ network_probe' \in [Rooms -> Probes \cup {None}]
    BY <1>1 DEF TypeOK, StartMatch, Stages, Phases, Armed
<1>3. /\ loaded' \in [Rooms -> SUBSET Users] /\ input_ready' \in [Rooms -> SUBSET Users]
      /\ result_reports' \in [Rooms -> [Users -> SUBSET Users]]
      /\ result_replies' \in [Rooms -> SUBSET Users]
      /\ result_acks' \in [Rooms -> SUBSET Users]
    BY <1>1 DEF TypeOK, StartMatch, ClearLedgers
<1>4. ProbeOwned'
    BY <1>1 DEF Roster, ProbeOwned, StartMatch, TypeOK
<1>5. UNCHANGED <<roster_vars, seat_vars>> =>
          RosterAgreement' /\ OwnerSeated' /\ Seated' /\ Unlisted'
    BY <1>1 DEF Roster, TypeOK, RosterAgreement, OwnerSeated, Seated, Unlisted, StartMatch,
                roster_vars, seat_vars, Fighters
<1> QED  BY <1>2, <1>3, <1>4, <1>5

LEMMA ReadyStep ==
    ASSUME Roster, NEW u \in Users, Ready(u)
    PROVE  Roster'
<1> DEFINE r == room[u]
<1>1. r \in rooms /\ r \in Rooms /\ u \in Fighters(r) /\ TypeOK
    BY DEF Ready, InRoom, Roster, TypeOK, RosterAgreement, Fighters
<1>2. CASE StartsMatch(u, r) /\ ~ NetworkProbe
    <2>1. StartMatch(r) /\ seat_exchange' = [seat_exchange EXCEPT ![r] = None]
        BY <1>2 DEF Ready, BeginStart
    <2>2. owner[r] \in Fighters(r)
        BY <1>1, <1>2 DEF StartsMatch
    <2>3. UNCHANGED <<roster_vars, seat_vars, engine_vars, suspended, invites>>
              /\ ready' = ready \cup {u}
        BY DEF Ready
    <2>4. TypeOK'
        BY <1>1, <2>1, <2>2, <2>3, StartMatchStep DEF TypeOK, roster_vars, seat_vars, engine_vars
    <2> QED  BY <1>1, <2>1, <2>2, <2>3, <2>4, StartMatchStep DEF Roster
<1>3. CASE StartsMatch(u, r) /\ NetworkProbe
    <2> DEFINE p == [identity |-> IdentityWith(r, ready \cup {u}), pending |-> Fighters(r)]
    <2>1. /\ seat_exchange' = [seat_exchange EXCEPT ![r] = None]
          /\ network_probe' = [network_probe EXCEPT ![r] = IF @ = None THEN p ELSE @]
          /\ UNCHANGED <<phase, match_vars>>
        BY <1>3 DEF Ready, BeginStart
    <2>2. p \in Probes
        BY <1>1, IdentityType DEF Probes, Fighters, TypeOK
    <2>3. \E e \in p.identity.roster : e.uid = p.identity.owner /\ ~ e.spectator
        <3> DEFINE e == [uid |-> u, game |-> game[u], slot |-> slot[u], team |-> team[u],
                         registry_key |-> registry_key[u],
                         ready |-> u \in ready \cup {u}, spectator |-> u \in spectator]
        <3>1. u \in members[r] /\ u \notin spectator
            BY <1>1 DEF Fighters
        <3>2. e \in p.identity.roster
            BY <3>1 DEF IdentityWith
        <3>3. p.identity.owner = u
            BY <1>3 DEF IdentityWith, StartsMatch
        <3> QED  BY <3>1, <3>2, <3>3
    <2> HIDE DEF p
    <2>4. ProbeOwned'
        BY <1>1, <2>1, <2>3 DEF Roster, ProbeOwned, TypeOK
    <2>5. TypeOK'
        BY <1>1, <2>1, <2>2 DEF TypeOK, Ready, roster_vars, seat_vars, engine_vars, match_vars,
                                result_vars
    <2>6. UNCHANGED <<roster_vars, seat_vars, stage>>
        BY <2>1 DEF Ready, match_vars
    <2> QED  BY <2>4, <2>5, <2>6, SameRoster
<1>4. CASE ~ StartsMatch(u, r)
    <2>1. TypeOK'
        BY <1>1, <1>4 DEF TypeOK, Ready, roster_vars, seat_vars, engine_vars, match_vars,
                          result_vars, pending_vars
    <2>2. ProbeOwned'
        BY <1>4 DEF Roster, ProbeOwned, Ready, pending_vars
    <2>3. UNCHANGED <<roster_vars, seat_vars, stage>>
        BY <1>4 DEF Ready, match_vars
    <2> QED  BY <2>1, <2>2, <2>3, SameRoster
<1> QED  BY <1>2, <1>3, <1>4

\* A reply is counted only if the identity the probe was bound to still
\* stands, and in that identity the owner fights.
LEMMA NetworkDelayReplyStep ==
    ASSUME Roster, NEW u \in Users, NetworkDelayReply(u)
    PROVE  Roster'
<1> DEFINE r == room[u]
           left == network_probe[r].pending \ {u}
<1>1. r \in rooms /\ r \in Rooms /\ u \in members[r] /\ TypeOK
    BY DEF NetworkDelayReply, InRoom, Roster, TypeOK, RosterAgreement
<1>2. network_probe[r] # None /\ network_probe[r] \in Probes
    BY <1>1 DEF NetworkDelayReply, TypeOK
<1>3. CASE CancelNetworkProbe(r)
    BY <1>1, <1>3, CancelNetworkProbeStep
<1>4. ASSUME ~ CancelNetworkProbe(r) PROVE Roster'
    <2>1. /\ UNCHANGED <<engine_vars, roster_vars, seat_vars, ready, seat_exchange, suspended, invites>>
          /\ IF left = {} THEN StartMatch(r)
             ELSE /\ network_probe' = [network_probe EXCEPT ![r].pending = left]
                  /\ UNCHANGED <<phase, match_vars>>
        BY <1>4 DEF NetworkDelayReply
    <2>2. CASE left = {}
        <3>1. network_probe[r].identity = IdentityWith(r, ready)
            BY <1>1, <1>2 DEF NetworkDelayReply, InRoom, Handled, Expired, Stale, StartIdentity
        <3>2. owner[r] \in Fighters(r)
            <4>1. \E e \in network_probe[r].identity.roster :
                      e.uid = network_probe[r].identity.owner /\ ~ e.spectator
                BY <1>1, <1>2 DEF Roster, ProbeOwned
            <4>2. /\ IdentityWith(r, ready).owner = owner[r]
                  /\ \A e \in IdentityWith(r, ready).roster :
                         e.uid \in members[r] /\ e.spectator = (e.uid \in spectator)
                BY DEF IdentityWith
            <4> QED  BY <3>1, <4>1, <4>2 DEF Fighters
        <3>3. StartMatch(r)
            BY <2>1, <2>2
        <3>4. TypeOK'
            BY <1>1, <2>1, <3>2, <3>3, StartMatchStep DEF TypeOK, roster_vars, seat_vars, engine_vars
        <3> QED  BY <1>1, <2>1, <3>2, <3>3, <3>4, StartMatchStep DEF Roster
    <2>3. CASE left # {}
        <3>1. network_probe' = [network_probe EXCEPT ![r] =
                  [identity |-> network_probe[r].identity, pending |-> left]]
            BY <1>1, <1>2, <2>1, <2>3 DEF Probes
        <3>2. [identity |-> network_probe[r].identity, pending |-> left] \in Probes
            BY <1>2 DEF Probes
        <3>3. TypeOK'
            <4>1. network_probe' \in [Rooms -> Probes \cup {None}]
                BY <1>1, <3>1, <3>2 DEF TypeOK
            <4> QED  BY <1>1, <2>1, <2>3, <4>1 DEF TypeOK, roster_vars, seat_vars, engine_vars,
                                                   match_vars, result_vars
        <3>4. ProbeOwned'
            BY <1>1, <1>2, <3>1 DEF Roster, ProbeOwned, TypeOK
        <3>5. UNCHANGED <<roster_vars, seat_vars, stage>>
            BY <2>1, <2>3 DEF match_vars
        <3> QED  BY <3>3, <3>4, <3>5, SameRoster
    <2> QED  BY <2>2, <2>3
<1> QED  BY <1>3, <1>4

\* Loaded, InputReady and Ack record one user and look at the barriers.
LEMMA BarrierStep ==
    ASSUME Roster, NEW r \in rooms, NEW ld \in SUBSET Users, NEW ir \in SUBSET Users,
           NEW acks \in SUBSET Users, AdvanceBarriers(r, members[r], ld, ir, acks, phase),
           UNCHANGED <<engine_vars, roster_vars, seat_vars, serial, result_reports, result_replies,
                       battles, pending_vars, suspended, invites>>
    PROVE  Roster'
<1>1. r \in Rooms /\ TypeOK /\ members[r] \in SUBSET Users /\ phase \in [Users -> Phases]
    BY DEF Roster, TypeOK
<1>2. /\ stage' \in [Rooms -> Stages] /\ phase' \in [Users -> Phases]
      /\ loaded' \in [Rooms -> SUBSET Users] /\ input_ready' \in [Rooms -> SUBSET Users]
      /\ result_acks' \in [Rooms -> SUBSET Users]
      /\ ready' \subseteq Users /\ public_deadline' \subseteq Rooms
      /\ \A q \in Rooms : stage[q] = "room" => stage'[q] = "room"
    BY <1>1, AdvanceType
<1>3. TypeOK'
    BY <1>1, <1>2 DEF TypeOK, engine_vars, roster_vars, seat_vars, pending_vars
<1>4. ProbeOwned'
    BY DEF Roster, ProbeOwned, pending_vars
<1>5. RosterAgreement' /\ OwnerSeated' /\ Seated' /\ Unlisted'
    BY <1>1, <1>2 DEF Roster, RosterAgreement, OwnerSeated, Seated, Unlisted, TypeOK,
                      roster_vars, seat_vars, Fighters
<1> QED  BY <1>3, <1>4, <1>5 DEF Roster

LEMMA LoadedStep ==
    ASSUME Roster, NEW u \in Users, Loaded(u)
    PROVE  Roster'
<1>1. room[u] \in rooms /\ room[u] \in Rooms
    BY DEF Loaded, InRoom, Roster, TypeOK, RosterAgreement
<1>2. /\ loaded[room[u]] \cup {u} \in SUBSET Users /\ input_ready[room[u]] \in SUBSET Users
      /\ result_acks[room[u]] \in SUBSET Users
    BY <1>1 DEF Roster, TypeOK
<1> QED  BY <1>1, <1>2, BarrierStep DEF Loaded

LEMMA InputReadyStep ==
    ASSUME Roster, NEW u \in Users, InputReady(u)
    PROVE  Roster'
<1>1. room[u] \in rooms /\ room[u] \in Rooms
    BY DEF InputReady, InRoom, Roster, TypeOK, RosterAgreement
<1>2. /\ loaded[room[u]] \in SUBSET Users /\ input_ready[room[u]] \cup {u} \in SUBSET Users
      /\ result_acks[room[u]] \in SUBSET Users
    BY <1>1 DEF Roster, TypeOK
<1> QED  BY <1>1, <1>2, BarrierStep DEF InputReady

LEMMA AckStep ==
    ASSUME Roster, NEW u \in Users, Ack(u)
    PROVE  Roster'
<1>1. room[u] \in rooms /\ room[u] \in Rooms
    BY DEF Ack, InRoom, Roster, TypeOK, RosterAgreement
<1>2. /\ loaded[room[u]] \in SUBSET Users /\ input_ready[room[u]] \in SUBSET Users
      /\ result_acks[room[u]] \cup {u} \in SUBSET Users
    BY <1>1 DEF Roster, TypeOK
<1> QED  BY <1>1, <1>2, BarrierStep DEF Ack

LEMMA ReportStep ==
    ASSUME Roster, NEW u \in Users, Report(u)
    PROVE  Roster'
<1> DEFINE r == room[u]
           candidate == [result_reports[r] EXCEPT ![u] = Fighters(r)]
<1>1. r \in rooms /\ r \in Rooms /\ u \in Fighters(r) /\ TypeOK
    BY DEF Report, InRoom, Roster, TypeOK, RosterAgreement, Fighters
<1>2. owner[r] \in Fighters(r)
    BY <1>1 DEF Roster, OwnerSeated
<1>3. candidate \in [Users -> SUBSET Users]
    BY <1>1 DEF TypeOK, Fighters
<1>4. /\ result_reports' = [result_reports EXCEPT ![r] = candidate]
      /\ \/ /\ result_replies' = [result_replies EXCEPT ![r] = members[r]]
            /\ stage' = [stage EXCEPT ![r] = "result"]
         \/ UNCHANGED <<result_replies, stage>>
    BY DEF Report
<1> HIDE DEF candidate
<1>5. TypeOK'
    <2>1. result_reports' \in [Rooms -> [Users -> SUBSET Users]]
        BY <1>1, <1>3, <1>4 DEF TypeOK
    <2>2. result_replies' \in [Rooms -> SUBSET Users] /\ stage' \in [Rooms -> Stages]
        BY ZenonT(60), <1>1, <1>4 DEF TypeOK, Stages
    <2> QED  BY <1>1, <2>1, <2>2 DEF Report, TypeOK, engine_vars, roster_vars, seat_vars, pending_vars
<1>6. ProbeOwned'
    BY DEF Roster, ProbeOwned, Report, pending_vars
<1>7. RosterAgreement' /\ OwnerSeated' /\ Seated' /\ Unlisted'
    BY <1>1, <1>2, <1>4 DEF Roster, RosterAgreement, OwnerSeated, Seated, Unlisted, TypeOK, Report,
                            roster_vars, seat_vars, Fighters
<1> QED  BY <1>5, <1>6, <1>7 DEF Roster

-----------------------------------------------------------------------------
(* Admission and the government of a waiting room                          *)

LEMMA FightersFinite ==
    ASSUME TypeOK, NEW r \in Rooms
    PROVE  IsFiniteSet(Fighters(r))
BY FS_Subset, RoomAssumption DEF TypeOK, Fighters

\* The seat, team and position install() computes are real ones.
LEMMA InstallTypes ==
    ASSUME Roster, NEW u \in Users, NEW r \in Rooms, NEW watch \in BOOLEAN,
           room[u] = None, Install(r, u, watch)
    PROVE  /\ slot' \in [Users -> Seats \cup {None}] /\ slot'[u] \in Seats
           /\ team' \in [Users -> {0, 1, None}] /\ team'[u] \in {0, 1}
           /\ registry_key' \in [Users -> Seats \cup {None}] /\ registry_key'[u] \in Seats
<1> DEFINE s == IF watch THEN SpectatorSlot ELSE FirstFreeSlot(r)
           t == IF watch THEN s % 2 ELSE HomeTeam(r, s)
           k == IF watch THEN SpectatorSlot ELSE PositionKey(r, t, s, None)
<1>1. TypeOK /\ SpectatorSlot \in Seats /\ SpectatorSlot \in Nat
    BY RoomAssumption DEF Roster, Seats, SpectatorSlot
<1>2. ~ watch => FirstFreeSlot(r) \in Slots
    <2>1. ~ watch => Cardinality(Fighters(r)) < Capacity
        BY DEF Install, CanInstall
    <2> QED  BY <1>1, <2>1, FightersFinite, FirstFreeSlotIsFree DEF FreeSlots
<1>3. s \in Seats /\ s \in Nat
    BY <1>1, <1>2, RoomAssumption DEF Seats, Slots
<1>4. t \in {0, 1}
    <2>1. s % 2 \in {0, 1}
        BY <1>3
    <2> HIDE DEF s
    <2> QED  BY <2>1 DEF HomeTeam
<1>5. k \in Seats
    <2>1. k # None
        BY DEF Install
    <2> HIDE DEF s, t
    <2>2. PositionKey(r, t, s, None) \in Seats \cup {None}
        BY <1>3, <1>4, PositionKeyType
    <2> QED  BY <1>1, <2>1, <2>2
<1>6. /\ slot' = [slot EXCEPT ![u] = s] /\ team' = [team EXCEPT ![u] = t]
      /\ registry_key' = [registry_key EXCEPT ![u] = k]
    BY DEF Install
<1> HIDE DEF s, t, k
<1> QED  BY <1>1, <1>3, <1>4, <1>5, <1>6 DEF TypeOK

LEMMA InstallStep ==
    ASSUME Roster, NEW u \in Users, NEW r \in Rooms, NEW watch \in BOOLEAN,
           room[u] = None, Install(r, u, watch), request' \in [Rooms -> BOOLEAN],
           \/ r \in rooms /\ rooms' = rooms
           \/ r \notin rooms /\ rooms' = rooms \cup {r} /\ ~ watch
    PROVE  Roster'
<1>1. TypeOK
    BY DEF Roster
<1>0. rooms \subseteq Rooms /\ \A q \in rooms : u \notin members[q]
    BY <1>1, RoomAssumption DEF Roster, RosterAgreement, TypeOK
<1>2. /\ slot' \in [Users -> Seats \cup {None}] /\ slot'[u] \in Seats
      /\ team' \in [Users -> {0, 1, None}] /\ team'[u] \in {0, 1}
      /\ registry_key' \in [Users -> Seats \cup {None}] /\ registry_key'[u] \in Seats
    BY InstallTypes
<1>3. /\ members' = [members EXCEPT ![r] = @ \cup {u}]
      /\ room' = [room EXCEPT ![u] = r]
      /\ spectator' = IF watch THEN spectator \cup {u} ELSE spectator \ {u}
      /\ owner' = [owner EXCEPT ![r] = OwnerAfterInstall(r, u, watch)]
      /\ ready' = Unreadied(r) \ {u}
      /\ phase' = [phase EXCEPT ![u] = "ROOM"]
      /\ invites' = InvitesWithout(u)
      /\ \A v \in Users \ {u} : /\ slot'[v] = slot[v] /\ team'[v] = team[v]
                                /\ registry_key'[v] = registry_key[v]
      /\ UNCHANGED <<engine_vars, match_vars, pending_vars, suspended>>
      /\ stage[r] = "room"
    BY <1>1 DEF Install, CanInstall, TypeOK
<1>4. OwnerAfterInstall(r, u, watch) \in Users \cup {None}
    BY <1>1 DEF OwnerAfterInstall, TypeOK
<1>5. TypeOK'
    <2>1. invites' \in [Users -> Invitations \cup {None}]
        BY <1>1, <1>3 DEF InvitesWithout, TypeOK
    <2>2. /\ rooms' \subseteq Rooms /\ members' \in [Rooms -> SUBSET Users]
          /\ room' \in [Users -> Rooms \cup {None}] /\ owner' \in [Rooms -> Users \cup {None}]
        BY <1>1, <1>3, <1>4 DEF TypeOK
    <2>3. phase' \in [Users -> Phases] /\ ready' \subseteq Users /\ spectator' \subseteq Users
        BY <1>1, <1>3 DEF TypeOK, Unreadied, Phases
    <2>4. UNCHANGED <<engine_vars, match_vars, pending_vars, suspended>>
        BY <1>3
    <2> QED  BY <1>1, <1>2, <2>1, <2>2, <2>3, <2>4 DEF TypeOK, engine_vars, match_vars,
                                                       result_vars, pending_vars
<1>6. ProbeOwned'
    BY <1>3 DEF Roster, ProbeOwned, pending_vars
<1>7. RosterAgreement' /\ Unlisted'
    <2>1. \A q \in rooms \ {r} : members'[q] # {} /\ members'[q] = {v \in Users : room'[v] = q}
        BY <1>0, <1>1, <1>3 DEF Roster, RosterAgreement, TypeOK
    <2>2. members[r] = {v \in Users : room[v] = r}
        BY <1>1, RoomAssumption DEF Roster, RosterAgreement, Unlisted, TypeOK
    <2>3. members'[r] # {} /\ members'[r] = {v \in Users : room'[v] = r}
        BY <2>2, <1>1, <1>3 DEF TypeOK
    <2>4. \A v \in Users : room'[v] # None => room'[v] \in rooms'
        BY <1>1, <1>3 DEF Roster, RosterAgreement, TypeOK
    <2>5. RosterAgreement'
        BY <2>1, <2>3, <2>4 DEF RosterAgreement
    <2>6. Unlisted'
        BY <1>1, <1>3 DEF Roster, Unlisted, TypeOK, match_vars
    <2> QED  BY <2>5, <2>6
<1>8. Seated'
    BY <1>2, <1>3 DEF Roster, Seated
<1>9. OwnerSeated'
    <2>1. \A q \in rooms \ {r} : u \notin members[q]
        BY <1>0
    <2>2. ASSUME NEW q \in rooms \ {r}
          PROVE  /\ owner'[q] \in members'[q]
                 /\ Fighters(q)' # {} \/ stage'[q] # "room" => owner'[q] \in Fighters(q)'
        BY <1>1, <1>3, <2>1 DEF Roster, OwnerSeated, TypeOK, Fighters, match_vars
    <2>3. /\ owner'[r] \in members'[r]
          /\ Fighters(r)' # {} \/ stage'[r] # "room" => owner'[r] \in Fighters(r)'
        <3>1. /\ owner'[r] = OwnerAfterInstall(r, u, watch)
              /\ members'[r] = members[r] \cup {u}
              /\ stage'[r] = "room"
            BY <1>1, <1>3 DEF TypeOK, match_vars
        <3>2. u \notin members[r]
            BY RoomAssumption DEF Roster, RosterAgreement, Unlisted
        <3>3. CASE r \in rooms
            BY <1>3, <3>1, <3>2, <3>3 DEF Roster, RosterAgreement, OwnerSeated, OwnerAfterInstall, Fighters
        <3>4. CASE r \notin rooms
            BY <1>3, <3>1, <3>4 DEF Roster, Unlisted, OwnerAfterInstall, Fighters
        <3> QED  BY <3>3, <3>4
    <2> QED  BY <2>2, <2>3 DEF OwnerSeated
<1> QED  BY <1>5, <1>6, <1>7, <1>8, <1>9 DEF Roster

LEMMA CreateStep ==
    ASSUME Roster, NEW u \in Users, NEW r \in Rooms, NEW w \in BOOLEAN, Create(u, r, w)
    PROVE  Roster'
<1>1. request' \in [Rooms -> BOOLEAN]
    BY DEF Roster, TypeOK, Create
<1> QED  BY <1>1, InstallStep DEF Create, InLobby

LEMMA JoinStep ==
    ASSUME Roster, NEW u \in Users, NEW r \in Rooms, NEW w \in BOOLEAN, Join(u, r, w)
    PROVE  Roster'
<1>1. request' \in [Rooms -> BOOLEAN]
    BY DEF Roster, TypeOK, Join
<1> QED  BY <1>1, InstallStep DEF Join, InLobby

LEMMA AcceptInviteStep ==
    ASSUME Roster, NEW u \in Users, AcceptInvite(u)
    PROVE  Roster'
<1>1. request' \in [Rooms -> BOOLEAN]
    BY DEF Roster, TypeOK, AcceptInvite
<1>2. invites[u].room \in Rooms /\ invites[u].room \in rooms /\ room[u] = None
    BY DEF Roster, TypeOK, AcceptInvite, InviteStands
<1> QED  BY <1>1, <1>2, InstallStep DEF AcceptInvite

LEMMA ToggleSpectatorStep ==
    ASSUME Roster, NEW u \in Users, ToggleSpectator(u)
    PROVE  Roster'
<1> DEFINE r == room[u]
           watch == u \notin spectator
           s == IF watch THEN SpectatorSlot ELSE FirstFreeSlot(r)
           k == IF watch THEN SpectatorSlot ELSE PositionKey(r, team[u], s, u)
           fighters == IF watch THEN Fighters(r) \ {u} ELSE Fighters(r) \cup {u}
<1>1. r \in rooms /\ r \in Rooms /\ u \in members[r] /\ TypeOK /\ team[u] \in {0, 1}
    BY DEF ToggleSpectator, InRoom, Roster, TypeOK, RosterAgreement, Seated
<1>2. s \in Seats
    <2>1. ~ watch => FirstFreeSlot(r) \in Slots
        <3>1. ~ watch => Cardinality(Fighters(r)) < Capacity
            BY DEF ToggleSpectator, ToggleRoom
        <3> QED  BY <1>1, <3>1, FightersFinite, FirstFreeSlotIsFree DEF FreeSlots
    <2> QED  BY <2>1 DEF Seats
<1>3. k \in Seats
    <2>1. k # None
        BY DEF ToggleSpectator
    <2> HIDE DEF s
    <2>2. PositionKey(r, team[u], s, u) \in Seats \cup {None}
        BY <1>1, <1>2, PositionKeyType
    <2> QED  BY <2>1, <2>2 DEF Seats
<1>4. PICK heir \in OwnerAfterToggle(r, fighters, [slot EXCEPT ![u] = s]) :
          owner' = [owner EXCEPT ![r] = heir]
    BY DEF ToggleSpectator
<1>5. /\ slot' = [slot EXCEPT ![u] = s]
      /\ registry_key' = [registry_key EXCEPT ![u] = k]
      /\ spectator' = IF watch THEN spectator \cup {u} ELSE spectator \ {u}
      /\ ready' = Unreadied(r)
      /\ stage[r] = "room"
      /\ UNCHANGED <<engine_vars, phase, room, rooms, members, request, team, match_vars,
                     pending_vars, suspended, invites>>
    BY DEF ToggleSpectator
<1>6. fighters = Fighters(r)'
    BY <1>1, <1>5 DEF Fighters
<1>7. heir \in members[r] /\ (fighters # {} => heir \in fighters)
    <2> HIDE DEF s
    <2> QED  BY <1>1 DEF OwnerAfterToggle, Roster, OwnerSeated, Fighters
<1> HIDE DEF s, k, fighters
<1>8. TypeOK'
    BY <1>1, <1>2, <1>3, <1>4, <1>5, <1>7 DEF TypeOK, Unreadied, engine_vars, match_vars, result_vars,
                                              pending_vars
<1>9. RosterAgreement' /\ Unlisted' /\ Seated' /\ ProbeOwned'
    BY <1>1, <1>2, <1>3, <1>5 DEF Roster, TypeOK, RosterAgreement, Unlisted, Seated, ProbeOwned, match_vars,
                                  pending_vars
<1>10. OwnerSeated'
    <2>1. \A q \in rooms \ {r} : u \notin members[q]
        BY <1>1 DEF Roster, RosterAgreement
    <2>2. ASSUME NEW q \in rooms \ {r}
          PROVE  /\ owner'[q] \in members'[q]
                 /\ Fighters(q)' # {} \/ stage'[q] # "room" => owner'[q] \in Fighters(q)'
        BY <1>1, <1>4, <1>5, <2>1 DEF Roster, OwnerSeated, TypeOK, Fighters, match_vars
    <2>3. /\ owner'[r] \in members'[r]
          /\ Fighters(r)' # {} \/ stage'[r] # "room" => owner'[r] \in Fighters(r)'
        BY <1>1, <1>4, <1>5, <1>6, <1>7 DEF TypeOK, match_vars
    <2> QED  BY <1>5, <2>2, <2>3 DEF OwnerSeated
<1> QED  BY <1>8, <1>9, <1>10 DEF Roster

LEMMA ChangeSettingsStep ==
    ASSUME Roster, NEW u \in Users, ChangeSettings(u)
    PROVE  Roster'
<1>1. TypeOK'
    BY DEF Roster, TypeOK, ChangeSettings, Unreadied, seat_vars, match_vars, result_vars, pending_vars,
           engine_vars
<1>2. ProbeOwned'
    BY DEF Roster, ProbeOwned, ChangeSettings, pending_vars
<1>3. RosterAgreement' /\ OwnerSeated' /\ Seated' /\ Unlisted'
    BY DEF Roster, RosterAgreement, OwnerSeated, Seated, Unlisted, ChangeSettings, seat_vars,
           match_vars, Fighters
<1> QED  BY <1>1, <1>2, <1>3 DEF Roster

LEMMA TransferOwnerStep ==
    ASSUME Roster, NEW u \in Users, NEW t \in Users, TransferOwner(u, t)
    PROVE  Roster'
<1>1. TypeOK'
    BY DEF Roster, TypeOK, TransferOwner, Unreadied, seat_vars, match_vars, result_vars, pending_vars,
           engine_vars
<1>2. ProbeOwned'
    BY DEF Roster, ProbeOwned, TransferOwner, pending_vars
<1>3. RosterAgreement' /\ Seated' /\ Unlisted'
    BY DEF Roster, RosterAgreement, Seated, Unlisted, TransferOwner, seat_vars, match_vars
<1>4. OwnerSeated'
    BY DEF Roster, TypeOK, OwnerSeated, TransferOwner, MayOwn, Fighters, seat_vars, match_vars
<1> QED  BY <1>1, <1>2, <1>3, <1>4 DEF Roster

\* Steps that give a member another team or position.
LEMMA SameMembers ==
    ASSUME Roster, UNCHANGED <<roster_vars, spectator, stage>>, TypeOK', ProbeOwned', Seated'
    PROVE  Roster'
BY DEF Roster, RosterAgreement, OwnerSeated, Unlisted, roster_vars, Fighters

LEMMA ChangeTeamStep ==
    ASSUME Roster, NEW u \in Users, NEW t \in {0, 1}, ChangeTeam(u, t)
    PROVE  Roster'
<1> DEFINE k == PositionKey(room[u], t, slot[u], u)
<1>1. slot[u] \in Seats /\ TypeOK
    BY DEF ChangeTeam, InRoom, Roster, Seated
<1>2. k \in Seats
    BY <1>1, PositionKeyType DEF ChangeTeam
<1>3. team' = [team EXCEPT ![u] = t] /\ registry_key' = [registry_key EXCEPT ![u] = k]
    BY DEF ChangeTeam
<1> HIDE DEF k
<1>4. TypeOK'
    BY <1>1, <1>2, <1>3 DEF TypeOK, ChangeTeam, Unreadied, roster_vars, match_vars, result_vars,
                            pending_vars, engine_vars
<1>5. ProbeOwned'
    BY DEF Roster, ProbeOwned, ChangeTeam, pending_vars
<1>6. Seated'
    BY <1>1, <1>2, <1>3 DEF Roster, Seated, TypeOK, ChangeTeam, roster_vars
<1>7. UNCHANGED <<roster_vars, spectator, stage>>
    BY DEF ChangeTeam, match_vars
<1> QED  BY <1>4, <1>5, <1>6, <1>7, SameMembers

LEMMA MoveSeatStep ==
    ASSUME Roster, NEW u \in Users, NEW k \in Slots, MoveSeat(u, k)
    PROVE  Roster'
<1>1. TypeOK'
    BY DEF Roster, TypeOK, MoveSeat, Seats, Unreadied, roster_vars, match_vars, result_vars,
           pending_vars, engine_vars
<1>2. ProbeOwned'
    BY DEF Roster, ProbeOwned, MoveSeat, pending_vars
<1>3. Seated'
    BY DEF Roster, Seated, TypeOK, MoveSeat, Seats, roster_vars
<1>4. UNCHANGED <<roster_vars, spectator, stage>>
    BY DEF MoveSeat, match_vars
<1> QED  BY <1>1, <1>2, <1>3, <1>4, SameMembers

LEMMA AcceptSwapStep ==
    ASSUME Roster, NEW u \in Users, AcceptSwap(u)
    PROVE  Roster'
<1> DEFINE r == room[u]
           a == seat_exchange[r].source
<1>1. r \in rooms /\ r \in Rooms /\ u \in members[r] /\ TypeOK
    BY DEF AcceptSwap, ExchangeOpen, InRoom, Roster, TypeOK, RosterAgreement
<1>2. a \in Users /\ a # u /\ a \in members[r]
    BY <1>1 DEF AcceptSwap, MaySwap, Fighters, TypeOK
<1>3. /\ registry_key' = [registry_key EXCEPT ![a] = registry_key[u], ![u] = registry_key[a]]
      /\ team' = [team EXCEPT ![a] = team[u], ![u] = team[a]]
      /\ seat_exchange' = [seat_exchange EXCEPT ![r] = None]
      /\ ready' = Unreadied(r)
    BY DEF AcceptSwap
<1>4. room[a] # None
    BY <1>1, <1>2, RoomAssumption DEF Roster, RosterAgreement
<1> HIDE DEF a
<1>5. TypeOK'
    <2>1. /\ registry_key' \in [Users -> Seats \cup {None}]
          /\ team' \in [Users -> {0, 1, None}]
        BY <1>1, <1>2, <1>3 DEF TypeOK
    <2>2. seat_exchange' \in [Rooms -> Exchanges \cup {None}] /\ ready' \subseteq Users
        BY <1>1, <1>3 DEF TypeOK, Unreadied
    <2> QED  BY <1>1, <2>1, <2>2 DEF TypeOK, AcceptSwap, roster_vars, match_vars, result_vars, engine_vars
<1>6. ProbeOwned'
    BY DEF Roster, ProbeOwned, AcceptSwap
<1>7. Seated'
    <2>1. room[u] # None
        BY DEF AcceptSwap, ExchangeOpen, InRoom
    <2>2. /\ team[a] \in {0, 1} /\ team[u] \in {0, 1}
          /\ registry_key[a] \in Seats /\ registry_key[u] \in Seats
        BY <1>2, <1>4, <2>1 DEF Roster, Seated
    <2>3. UNCHANGED <<room, slot>>
        BY DEF AcceptSwap, roster_vars
    <2> QED  BY <1>1, <1>2, <1>3, <2>2, <2>3 DEF Roster, Seated, TypeOK
<1>8. UNCHANGED <<roster_vars, spectator, stage>>
    BY DEF AcceptSwap, match_vars
<1> QED  BY <1>5, <1>6, <1>7, <1>8, SameMembers

-----------------------------------------------------------------------------
(* The step and the theorems                                               *)

LEMMA RosterStep ==
    ASSUME Roster, [Next]_vars
    PROVE  Roster'
<1>1. CASE Session
    BY <1>1, EnterStep, DisconnectStep, RegisterP2PStep, LoseP2PStep, BindStep DEF Session
<1>2. CASE Expire
    BY <1>2, ExpireStep
<1>3. CASE Flow
    BY <1>3, ReadyStep, UnreadyStep, NetworkDelayReplyStep, LoadedStep, InputReadyStep, ReportStep,
       AckStep, ToggleSpectatorStep DEF Flow
<1>4. CASE Requests
    <2>1. ASSUME NEW u \in Users, LeaveRoom(u) PROVE Roster'
        BY <2>1, RemoveStep DEF LeaveRoom
    <2>2. ASSUME NEW u \in Users, NEW t \in Users, RemoveMember(u, t) PROVE Roster'
        BY <2>2, RemoveStep DEF RemoveMember
    <2> QED  BY <1>4, <2>1, <2>2, CreateStep, JoinStep, ChangeSettingsStep, TransferOwnerStep, InviteStep,
                ChangeTeamStep, AcceptInviteStep, DropInviteStep DEF Requests
<1>5. CASE Exchange
    BY <1>5, MoveSeatStep, ProposeSwapStep, AcceptSwapStep, RejectSwapStep DEF Exchange
<1>6. CASE UNCHANGED vars
    <2>1. TypeOK' /\ ProbeOwned'
        BY <1>6 DEF vars, Roster, TypeOK, ProbeOwned
    <2> QED  BY <1>6, <2>1, SameRoster DEF vars, roster_vars, seat_vars
<1> QED  BY <1>1, <1>2, <1>3, <1>4, <1>5, <1>6 DEF Next

\* Everything that follows rests on this inductive invariant.
THEOREM RosterInvariant == Spec => []Roster
BY InitRoster, RosterStep, PTL DEF Spec

\* Every field always holds a value of its type; in particular install() and
\* the role change always find a native seat when the room admits a fighter.
THEOREM TypeCorrect == Spec => []TypeOK
<1>1. Roster => TypeOK
    BY DEF Roster
<1> QED  BY <1>1, RosterInvariant, PTL

\* room.members and engine.room never disagree, whoever leaves, is removed,
\* is cut off, expires or takes a match down with him.
THEOREM MembershipAgrees == Spec => []RosterAgreement
<1>1. Roster => RosterAgreement
    BY DEF Roster
<1> QED  BY <1>1, RosterInvariant, PTL

\* room.members[room.owner] never fails, and a match is always hosted by one
\* of its fighters.
THEOREM OwnerAlwaysSeated == Spec => []OwnerSeated
<1>1. Roster => OwnerSeated
    BY DEF Roster
<1> QED  BY <1>1, RosterInvariant, PTL

-----------------------------------------------------------------------------
(* What a step does to the rooms it is not about                           *)

\* Roster, settings and seats of q are what they were.
Same(q) ==
    /\ members'[q] = members[q] /\ owner'[q] = owner[q] /\ request'[q] = request[q]
    /\ \A v \in members[q] :
           /\ slot'[v] = slot[v] /\ team'[v] = team[v] /\ registry_key'[v] = registry_key[v]
           /\ v \in spectator' <=> v \in spectator

\* install() on a listed room, or on the new room of its creator.
Admits(u, r, w) ==
    /\ room[u] = None
    /\ Install(r, u, w)
    /\ \/ r \in rooms /\ UNCHANGED <<rooms, request>>
       \/ /\ r \notin rooms /\ rooms' = rooms \cup {r} /\ ~ w
          /\ \A q \in Rooms \ {r} : request'[q] = request[q]

\* The steps that change rosters or seats; all others leave them alone.
Departs(u) == \E ph : Leave(u, ph)
Admitted(u) == \E r \in Rooms, w \in BOOLEAN : Admits(u, r, w)
Governed(u) == ChangeSettings(u) \/ \E t \in Users : TransferOwner(u, t)
Moves(u) == (\E t \in {0, 1} : ChangeTeam(u, t)) \/ (\E k \in Slots : MoveSeat(u, k))

LEMMA StepKinds ==
    ASSUME Roster, [Next]_vars
    PROVE  \/ UNCHANGED <<roster_vars, seat_vars>>
           \/ \E u \in Users : \/ Departs(u) \/ Admitted(u) \/ ToggleSpectator(u)
                               \/ Governed(u) \/ Moves(u) \/ AcceptSwap(u)
<1>1. CASE Session
    <2>1. ASSUME NEW u \in Users, Disconnect(u)
          PROVE  Departs(u) \/ UNCHANGED <<roster_vars, seat_vars>>
        BY <2>1 DEF Disconnect, Suspend, Departs
    <2>2. ASSUME NEW u \in Users,
                 RegisterP2P(u) \/ LoseP2P(u) \/ Bind(u) \/ \E c \in Conns : Enter(u, c)
          PROVE  UNCHANGED <<roster_vars, seat_vars>>
        BY <2>2 DEF RegisterP2P, LoseP2P, Bind, Enter
    <2> QED  BY <1>1, <2>1, <2>2 DEF Session
<1>2. CASE Expire
    <2>1. ASSUME NEW r \in Rooms, ExpirePublicDeadline(r) PROVE \E u \in Users : Departs(u)
        <3>1. owner[r] \in Users
            BY <2>1 DEF ExpirePublicDeadline, Roster, OwnerSeated, TypeOK
        <3> QED  BY <2>1, <3>1 DEF ExpirePublicDeadline, Remove, Departs
    <2>2. ASSUME NEW u \in Users, ExpireSuspended(u) PROVE Departs(u)
        BY <2>2 DEF ExpireSuspended, Remove, Departs
    <2>3. ASSUME \/ \E r \in Rooms : ExpireSeat(r) \/ ExpireProbe(r)
                 \/ \E u \in Users : ExpireInvite(u)
          PROVE  UNCHANGED <<roster_vars, seat_vars>>
        BY <2>3 DEF ExpireSeat, ExpireProbe, CancelNetworkProbe, ExpireInvite
    <2> QED  BY <1>2, <2>1, <2>2, <2>3 DEF Expire
<1>3. CASE Flow
    <2>1. ASSUME NEW u \in Users,
                 \/ Ready(u) \/ Unready(u) \/ NetworkDelayReply(u)
                 \/ Loaded(u) \/ InputReady(u) \/ Report(u) \/ Ack(u)
          PROVE  UNCHANGED <<roster_vars, seat_vars>>
        BY <2>1 DEF Ready, Unready, NetworkDelayReply, CancelNetworkProbe, Loaded, InputReady, Report, Ack
    <2> QED  BY <1>3, <2>1 DEF Flow
<1>4. CASE Requests
    <2>1. ASSUME NEW u \in Users, NEW r \in Rooms, NEW w \in BOOLEAN, Create(u, r, w) \/ Join(u, r, w)
          PROVE  Admitted(u)
        <3>1. CASE Create(u, r, w)
            <4>1. Admits(u, r, FALSE)
                BY <3>1 DEF Create, InLobby, Admits, Roster, TypeOK
            <4> QED  BY <4>1 DEF Admitted
        <3>2. CASE Join(u, r, w)
            BY <3>2 DEF Join, InLobby, Admits, Admitted
        <3> QED  BY <2>1, <3>1, <3>2
    <2>2. ASSUME NEW u \in Users, AcceptInvite(u) PROVE Admitted(u)
        <3>1. invites[u].room \in Rooms /\ invites[u].room \in rooms /\ room[u] = None
            BY <2>2 DEF Roster, TypeOK, AcceptInvite, InviteStands
        <3>2. Admits(u, invites[u].room, FALSE)
            BY <2>2, <3>1 DEF AcceptInvite, Admits
        <3> QED  BY <3>1, <3>2 DEF Admitted
    <2>3. ASSUME NEW u \in Users, LeaveRoom(u) \/ \E t \in Users : RemoveMember(u, t)
          PROVE  \E v \in Users : Departs(v)
        BY <2>3 DEF LeaveRoom, RemoveMember, Remove, Departs
    <2>4. ASSUME NEW u \in Users, DropInvite(u) \/ \E t \in Users : Invite(u, t)
          PROVE  UNCHANGED <<roster_vars, seat_vars>>
        BY <2>4 DEF DropInvite, Invite
    <2> QED  BY <1>4, <2>1, <2>2, <2>3, <2>4 DEF Requests, Governed, Moves
<1>5. CASE Exchange
    <2>1. ASSUME NEW u \in Users, RejectSwap(u) \/ \E t \in Users : ProposeSwap(u, t)
          PROVE  UNCHANGED <<roster_vars, seat_vars>>
        BY <2>1 DEF RejectSwap, ProposeSwap
    <2> QED  BY <1>5, <2>1 DEF Exchange, Moves
<1>6. CASE UNCHANGED vars
    BY <1>6 DEF vars, roster_vars, seat_vars
<1> QED  BY <1>1, <1>2, <1>3, <1>4, <1>5, <1>6 DEF Next

\* Nobody is a member of two rooms.
LEMMA OneRoomOnly ==
    ASSUME Roster, NEW u \in Users, NEW q \in rooms, room[u] # q
    PROVE  u \notin members[q]
BY DEF Roster, RosterAgreement

LEMMA QuietSame ==
    ASSUME UNCHANGED <<roster_vars, seat_vars>>
    PROVE  \A q \in rooms : Same(q)
BY DEF Same, roster_vars, seat_vars

LEMMA LeaveSame ==
    ASSUME Roster, NEW u \in Users, Departs(u)
    PROVE  \A q \in rooms : q # room[u] => Same(q)
<1>1. PICK ph : Leave(u, ph)
    BY DEF Departs
<1>2. TypeOK
    BY DEF Roster
<1>3. CASE room[u] = None
    BY <1>1, <1>3, QuietSame DEF Leave
<1>4. CASE room[u] # None
    <2>1. PICK r \in rooms : room[u] = r /\ r \in Rooms
        BY <1>2, <1>4 DEF Roster, RosterAgreement, TypeOK
    <2>2. ASSUME NEW q \in rooms, q # r PROVE members[q] \cap members[r] = {} /\ u \notin members[q]
        BY <2>1, <2>2 DEF Roster, RosterAgreement
    <2>3. ASSUME NEW q \in rooms, q # r, LeaveEmpty(u, r, ph) PROVE Same(q)
        BY <1>2, <2>1, <2>2, <2>3 DEF LeaveEmpty, Unseat, Unlist, Same, TypeOK
    <2>4. ASSUME NEW q \in rooms, q # r, LeaveObserver(u, r, ph) PROVE Same(q)
        BY <1>2, <2>1, <2>2, <2>4 DEF LeaveObserver, Unseat, Same, TypeOK
    <2>5. ASSUME NEW q \in rooms, q # r, LeaveWaiting(u, r, ph) PROVE Same(q)
        BY <1>2, <2>1, <2>2, <2>5 DEF LeaveWaiting, Unseat, Same, TypeOK
    <2> QED  BY <1>1, <1>4, <2>1, <2>3, <2>4, <2>5 DEF Leave
<1> QED  BY <1>3, <1>4

LEMMA AdmitSame ==
    ASSUME Roster, NEW u \in Users, NEW r \in Rooms, NEW w \in BOOLEAN, Admits(u, r, w)
    PROVE  \A q \in rooms : q # r => Same(q)
<1>1. TypeOK /\ \A q \in rooms : u \notin members[q]
    BY RoomAssumption DEF Roster, RosterAgreement, TypeOK, Admits
<1> QED  BY <1>1 DEF Admits, Install, Same, TypeOK

LEMMA GovernSame ==
    ASSUME Roster, NEW u \in Users, ToggleSpectator(u) \/ Governed(u) \/ Moves(u) \/ AcceptSwap(u)
    PROVE  /\ room[u] \in rooms /\ u \in members[room[u]] /\ UNCHANGED <<rooms, members>>
           /\ ready' = Unreadied(room[u])
           /\ \A q \in rooms : q # room[u] => Same(q)
<1>1. room[u] \in rooms /\ u \in members[room[u]] /\ TypeOK
    BY DEF ToggleSpectator, Governed, ChangeSettings, TransferOwner, Moves, ChangeTeam, MoveSeat, AcceptSwap,
           ExchangeOpen, InRoom, Roster, RosterAgreement
<1>2. UNCHANGED <<rooms, members>> /\ ready' = Unreadied(room[u])
    BY DEF ToggleSpectator, Governed, ChangeSettings, TransferOwner, Moves, ChangeTeam, MoveSeat, AcceptSwap,
           roster_vars
<1>3. \A q \in rooms : q # room[u] => u \notin members[q]
    BY OneRoomOnly
<1>4. ASSUME NEW q \in rooms, q # room[u], ToggleSpectator(u) PROVE Same(q)
    BY <1>1, <1>2, <1>3, <1>4 DEF ToggleSpectator, Same, TypeOK
<1>5. ASSUME NEW q \in rooms, q # room[u], Governed(u) PROVE Same(q)
    BY <1>1, <1>2, <1>3, <1>5 DEF Governed, ChangeSettings, TransferOwner, seat_vars, Same, TypeOK
<1>6. ASSUME NEW q \in rooms, q # room[u], Moves(u) PROVE Same(q)
    BY <1>1, <1>2, <1>3, <1>6 DEF Moves, ChangeTeam, MoveSeat, roster_vars, Same, TypeOK
<1>7. ASSUME NEW q \in rooms, q # room[u], AcceptSwap(u) PROVE Same(q)
    <2> DEFINE a == seat_exchange[room[u]].source
    <2>1. a \in Fighters(room[u])
        BY <1>7 DEF AcceptSwap, MaySwap
    <2>2. a \notin members[q]
        BY <1>1, <1>7, <2>1 DEF Fighters, Roster, RosterAgreement
    <2>3. /\ registry_key' = [registry_key EXCEPT ![a] = registry_key[u], ![u] = registry_key[a]]
          /\ team' = [team EXCEPT ![a] = team[u], ![u] = team[a]]
          /\ UNCHANGED <<roster_vars, slot, spectator>>
        BY <1>7 DEF AcceptSwap
    <2> HIDE DEF a
    <2> QED  BY <1>1, <1>2, <1>3, <1>7, <2>2, <2>3 DEF roster_vars, Same, TypeOK
<1> QED  BY <1>1, <1>2, <1>4, <1>5, <1>6, <1>7

-----------------------------------------------------------------------------
(* Readiness                                                               *)

\* What the action property says of one room.
Confirmed(r) ==
    /\ stage[r] = "room" /\ stage'[r] = "room"
    /\ <<members[r], owner[r], request[r]>> # <<members'[r], owner'[r], request'[r]>>
       \/ \E u \in members[r] :
              <<u \in spectator, team[u], registry_key[u]>> #
              <<u \in spectator', team'[u], registry_key'[u]>>
    => ready' \cap members'[r] = {}

\* Rooms in which nothing changed owe no new confirmation.
LEMMA SameConfirmed ==
    ASSUME NEW q, Same(q)
    PROVE  Confirmed(q)
<1>1. \A v \in members[q] : (v \in spectator) = (v \in spectator')
    BY DEF Same
<1>2. \A v \in members[q] : <<v \in spectator, team[v], registry_key[v]>> =
                            <<v \in spectator', team'[v], registry_key'[v]>>
    BY <1>1 DEF Same
<1> QED  BY <1>2 DEF Same, Confirmed

LEMMA StepConfirms ==
    ASSUME Roster, [Next]_vars, NEW q \in rooms \cap rooms'
    PROVE  Confirmed(q)
<1>1. CASE UNCHANGED <<roster_vars, seat_vars>>
    BY <1>1, QuietSame, SameConfirmed
<1>2. ASSUME NEW u \in Users, Departs(u) PROVE Confirmed(q)
    <2>1. CASE q # room[u]
        BY <1>2, <2>1, LeaveSame, SameConfirmed
    <2>2. CASE q = room[u]
        <3>1. PICK ph : Leave(u, ph)
            BY <1>2 DEF Departs
        <3>2. q \in Rooms /\ q # None /\ TypeOK
            BY RoomAssumption DEF Roster, TypeOK
        <3>3. ~ LeaveEmpty(u, q, ph)
            BY DEF LeaveEmpty, Unlist
        <3>4. CASE LeaveObserver(u, q, ph)
            BY <3>4 DEF LeaveObserver, Confirmed
        <3>5. CASE LeaveWaiting(u, q, ph)
            BY <3>2, <3>5 DEF LeaveWaiting, Unreadied, Confirmed, TypeOK
        <3> QED  BY <2>2, <3>1, <3>2, <3>3, <3>4, <3>5 DEF Leave
    <2> QED  BY <2>1, <2>2
<1>3. ASSUME NEW u \in Users, NEW r \in Rooms, NEW w \in BOOLEAN, Admits(u, r, w) PROVE Confirmed(q)
    <2>1. CASE q # r
        BY <1>3, <2>1, AdmitSame, SameConfirmed
    <2>2. CASE q = r
        BY <1>3, <2>2 DEF Admits, Install, Unreadied, Confirmed, Roster, TypeOK
    <2> QED  BY <2>1, <2>2
<1>4. ASSUME NEW u \in Users, ToggleSpectator(u) \/ Governed(u) \/ Moves(u) \/ AcceptSwap(u)
      PROVE  Confirmed(q)
    <2>1. CASE q # room[u]
        BY <1>4, <2>1, GovernSame, SameConfirmed
    <2>2. CASE q = room[u]
        <3>1. ready' \cap members'[q] = {}
            BY <1>4, <2>2, GovernSame DEF Unreadied
        <3> QED  BY <3>1 DEF Confirmed
    <2> QED  BY <2>1, <2>2
<1> QED  BY <1>1, <1>2, <1>3, <1>4, StepKinds DEF Admitted

\* "Composition changed: everyone must confirm readiness again", for every
\* command, departure and deadline that changes a waiting room.
THEOREM ChangesUnready == Spec => ChangeUnreadies
<1>1. Roster /\ [Next]_vars =>
          [\A r \in rooms \cap rooms' :
               /\ stage[r] = "room" /\ stage'[r] = "room"
               /\ <<members[r], owner[r], request[r]>> # <<members'[r], owner'[r], request'[r]>>
                  \/ \E u \in members[r] :
                         <<u \in spectator, team[u], registry_key[u]>> #
                         <<u \in spectator', team'[u], registry_key'[u]>>
               => ready' \cap members'[r] = {}]_vars
    BY StepConfirms DEF Confirmed
<1> QED  BY <1>1, RosterInvariant, PTL DEF Spec, ChangeUnreadies

-----------------------------------------------------------------------------
(* Exclusive seats                                                         *)

\* SeatsExclusive, said of one room.
Exclusive(r) ==
    /\ Cardinality(Fighters(r)) <= Capacity
    /\ \A u \in Observers(r) : slot[u] = SpectatorSlot
    /\ \A u \in Fighters(r) :
           /\ slot[u] \in Slots
           /\ IF Mode \in TeamModes THEN registry_key[u] \in Bank(team[u])
                                    ELSE registry_key[u] = slot[u]
    /\ \A u, v \in Fighters(r) :
           u # v => slot[u] # slot[v] /\ registry_key[u] # registry_key[v]

LEMMA ExclusiveRooms == SeatsExclusive <=> \A r \in rooms : Exclusive(r)
BY DEF SeatsExclusive, Exclusive

LEMMA ExclusiveRoomsNext == (SeatsExclusive <=> \A r \in rooms : Exclusive(r))'
BY ExclusiveRooms, PTL

LEMMA SameExclusive ==
    ASSUME NEW q, Exclusive(q), Same(q)
    PROVE  Exclusive(q)'
<1>1. Fighters(q)' = Fighters(q) /\ Observers(q)' = Observers(q)
    BY DEF Same, Fighters, Observers
<1>2. Fighters(q) \subseteq members[q] /\ Observers(q) \subseteq members[q]
    BY DEF Fighters, Observers
<1> QED  BY <1>1, <1>2 DEF Same, Exclusive

\* A room some of whose members are gone, or watch now.
LEMMA FewerExclusive ==
    ASSUME TypeOK, NEW r \in Rooms, Exclusive(r), Fighters(r)' \subseteq Fighters(r),
           \A v \in Fighters(r)' : slot'[v] = slot[v] /\ team'[v] = team[v]
                                   /\ registry_key'[v] = registry_key[v],
           \A v \in Observers(r)' : slot'[v] = SpectatorSlot
    PROVE  Exclusive(r)'
<1>1. Cardinality(Fighters(r)') <= Cardinality(Fighters(r)) /\ Cardinality(Fighters(r)') \in Nat
         /\ Cardinality(Fighters(r)) \in Nat
    BY FightersFinite, FS_Subset, FS_CardinalityType
<1>2. Cardinality(Fighters(r)') <= Capacity
    BY <1>1, RoomAssumption DEF Exclusive
<1> QED  BY <1>2 DEF Exclusive

\* A room with one more fighter, in a free seat and position.
LEMMA OneMoreExclusive ==
    ASSUME TypeOK, NEW r \in Rooms, Exclusive(r), NEW u \in Users, u \notin Fighters(r),
           Cardinality(Fighters(r)) < Capacity,
           Fighters(r)' = Fighters(r) \cup {u}, Observers(r)' \subseteq Observers(r),
           NEW s \in FreeSlots(r), NEW t \in {0, 1}, NEW k,
           IF Mode \in TeamModes THEN k \in Bank(t) /\ \A v \in Fighters(r) : registry_key[v] # k
                                 ELSE k = s,
           slot'[u] = s /\ team'[u] = t /\ registry_key'[u] = k,
           \A v \in members[r] \ {u} : slot'[v] = slot[v] /\ team'[v] = team[v]
                                       /\ registry_key'[v] = registry_key[v]
    PROVE  Exclusive(r)'
<1>1. Cardinality(Fighters(r)') = Cardinality(Fighters(r)) + 1 /\ Cardinality(Fighters(r)) \in Nat
    BY FightersFinite, FS_AddElement, FS_CardinalityType
<1>2. Cardinality(Fighters(r)') <= Capacity
    BY <1>1, RoomAssumption
<1>3. /\ s \in Slots /\ \A v \in Fighters(r) : slot[v] # s
      /\ \A v \in Fighters(r) : v \in members[r] \ {u}
      /\ \A v \in Observers(r)' : v \in members[r] /\ v \in Observers(r)
    BY DEF FreeSlots, Fighters, Observers
<1>4. u \notin Observers(r)'
    BY DEF Fighters, Observers
<1>5. \A v \in Fighters(r) : registry_key[v] # k
    BY <1>3 DEF Exclusive
<1> QED  BY <1>2, <1>3, <1>4, <1>5 DEF Exclusive

LEMMA LeaveExclusive ==
    ASSUME Roster, SeatsExclusive, NEW u \in Users, Departs(u), NEW r \in rooms', r = room[u]
    PROVE  Exclusive(r)'
<1>1. PICK ph : Leave(u, ph)
    BY DEF Departs
<1>2. TypeOK /\ (r \in rooms => r \in Rooms /\ r # None /\ Exclusive(r))
    BY ExclusiveRooms, RoomAssumption DEF Roster, TypeOK
<1>3. CASE room[u] = None
    <2>1. rooms' = rooms
        BY <1>1, <1>3 DEF Leave, roster_vars
    <2> QED  BY <1>2, <1>3, <2>1
<1>4. CASE room[u] # None
    <2>0. r \in rooms
        BY <1>4 DEF Roster, RosterAgreement
    <2>1. ~ LeaveEmpty(u, r, ph)
        BY DEF LeaveEmpty, Unlist
    <2>2. CASE LeaveObserver(u, r, ph) \/ LeaveWaiting(u, r, ph)
        <3>1. members' = [members EXCEPT ![r] = @ \ {u}] /\ Unseat({u})
            BY <2>2 DEF LeaveObserver, LeaveWaiting
        <3>2. /\ members'[r] = members[r] \ {u}
              /\ Fighters(r)' = Fighters(r) \ {u} /\ Observers(r)' = Observers(r) \ {u}
            BY <1>2, <2>0, <3>1 DEF TypeOK, Unseat, Fighters, Observers
        <3>3. \A v \in members[r] \ {u} : slot'[v] = slot[v] /\ team'[v] = team[v]
                                          /\ registry_key'[v] = registry_key[v]
            BY <1>2, <2>0, <3>1 DEF TypeOK, Unseat
        <3>4. \A v \in Fighters(r)' : v \in members[r] \ {u}
            BY <3>2 DEF Fighters
        <3>5. \A v \in Observers(r)' : slot'[v] = SpectatorSlot
            BY <1>2, <2>0, <3>2, <3>3 DEF Observers, Exclusive
        <3> QED  BY <1>2, <2>0, <3>2, <3>3, <3>4, <3>5, FewerExclusive
    <2> QED  BY <1>1, <1>4, <2>1, <2>2 DEF Leave
<1> QED  BY <1>3, <1>4

\* install(): the first free seat, a free position of its team or of the
\* other one, and only while the room has less fighters than it admits.
LEMMA AdmitExclusive ==
    ASSUME Roster, SeatsExclusive, NEW u \in Users, NEW r \in Rooms, NEW w \in BOOLEAN,
           Admits(u, r, w)
    PROVE  Exclusive(r)'
<1> DEFINE s == IF w THEN SpectatorSlot ELSE FirstFreeSlot(r)
           t == IF w THEN s % 2 ELSE HomeTeam(r, s)
           k == IF w THEN SpectatorSlot ELSE PositionKey(r, t, s, None)
<1>1. TypeOK /\ u \notin members[r]
    BY RoomAssumption DEF Roster, RosterAgreement, Unlisted, Admits
<1>2. Exclusive(r)
    <2>1. CASE r \in rooms
        BY <2>1, ExclusiveRooms
    <2>2. CASE r \notin rooms
        <3>1. Fighters(r) = {} /\ Observers(r) = {}
            BY <2>2 DEF Roster, Unlisted, Fighters, Observers
        <3> QED  BY <3>1, FS_EmptySet, RoomAssumption DEF Exclusive
    <2> QED  BY <2>1, <2>2
<1>3. /\ members' = [members EXCEPT ![r] = @ \cup {u}]
      /\ spectator' = IF w THEN spectator \cup {u} ELSE spectator \ {u}
      /\ slot' = [slot EXCEPT ![u] = s] /\ team' = [team EXCEPT ![u] = t]
      /\ registry_key' = [registry_key EXCEPT ![u] = k]
      /\ ~ w => Cardinality(Fighters(r)) < Capacity
      /\ k # None
    BY DEF Admits, Install, CanInstall
<1>4. CASE w
    <2> HIDE DEF t, k
    <2>1. Fighters(r)' = Fighters(r) /\ Observers(r)' = Observers(r) \cup {u}
        BY <1>1, <1>3, <1>4 DEF Fighters, Observers, TypeOK
    <2>2. \A v \in members[r] : slot'[v] = slot[v] /\ team'[v] = team[v]
                                /\ registry_key'[v] = registry_key[v]
        BY <1>1, <1>3 DEF TypeOK
    <2>3. \A v \in Observers(r)' : slot'[v] = SpectatorSlot
        BY <1>1, <1>2, <1>3, <1>4, <2>1, <2>2 DEF Exclusive, Observers, TypeOK
    <2>4. \A v \in Fighters(r)' : v \in members[r]
        BY <2>1 DEF Fighters
    <2> QED  BY <1>1, <1>2, <2>1, <2>2, <2>3, <2>4, FewerExclusive
<1>5. CASE ~ w
    <2>1. s \in FreeSlots(r) /\ s \in Nat
        <3>1. FirstFreeSlot(r) \in FreeSlots(r)
            BY <1>1, <1>3, <1>5, FightersFinite, FirstFreeSlotIsFree
        <3> QED  BY <1>5, <3>1, RoomAssumption DEF FreeSlots, Slots
    <2>2. t \in {0, 1}
        <3>1. s % 2 \in {0, 1}
            BY <2>1
        <3> HIDE DEF s
        <3> QED  BY <1>5, <3>1 DEF HomeTeam
    <2>3. k = PositionKey(r, t, s, None)
        BY <1>5
    <2> HIDE DEF s, t, k
    <2>4. IF Mode \in TeamModes
          THEN k \in Bank(t) /\ \A v \in Fighters(r) \ {None} : registry_key[v] # k
          ELSE k = s
        BY <1>3, <2>2, <2>3, PositionKeyIsFree
    <2>5. None \notin Fighters(r)
        BY <1>1, RoomAssumption DEF Fighters, TypeOK
    <2>6. IF Mode \in TeamModes THEN k \in Bank(t) /\ \A v \in Fighters(r) : registry_key[v] # k
                                ELSE k = s
        BY <2>4, <2>5
    <2>7. /\ Fighters(r)' = Fighters(r) \cup {u} /\ Observers(r)' \subseteq Observers(r)
          /\ u \notin Fighters(r)
        BY <1>1, <1>3, <1>5 DEF Fighters, Observers, TypeOK
    <2>8. /\ slot'[u] = s /\ team'[u] = t /\ registry_key'[u] = k
          /\ \A v \in members[r] \ {u} : slot'[v] = slot[v] /\ team'[v] = team[v]
                                         /\ registry_key'[v] = registry_key[v]
        BY <1>1, <1>3 DEF TypeOK
    <2> QED  BY <1>1, <1>2, <1>3, <1>5, <2>1, <2>2, <2>6, <2>7, <2>8, OneMoreExclusive
<1> QED  BY <1>4, <1>5

\* A spectator who fights takes a free seat and a position of its old team.
LEMMA ToggleExclusive ==
    ASSUME Roster, SeatsExclusive, NEW u \in Users, ToggleSpectator(u), NEW r \in rooms, r = room[u]
    PROVE  Exclusive(r)'
<1> DEFINE watch == u \notin spectator
           s == IF watch THEN SpectatorSlot ELSE FirstFreeSlot(r)
           k == IF watch THEN SpectatorSlot ELSE PositionKey(r, team[u], s, u)
<1>1. TypeOK /\ r \in Rooms /\ u \in members[r] /\ Exclusive(r) /\ team[u] \in {0, 1}
    BY ExclusiveRooms, RoomAssumption DEF Roster, RosterAgreement, TypeOK, Seated
<1>2. /\ slot' = [slot EXCEPT ![u] = s] /\ registry_key' = [registry_key EXCEPT ![u] = k]
      /\ spectator' = IF watch THEN spectator \cup {u} ELSE spectator \ {u}
      /\ k # None
      /\ ~ watch => Cardinality(Fighters(r)) < Capacity
      /\ UNCHANGED <<members, team>>
    BY DEF ToggleSpectator, ToggleRoom
<1>3. \A v \in members[r] \ {u} : slot'[v] = slot[v] /\ team'[v] = team[v]
                                  /\ registry_key'[v] = registry_key[v]
    <2> HIDE DEF s, k
    <2> QED  BY <1>1, <1>2 DEF TypeOK
<1>4. CASE watch
    <2> HIDE DEF k
    <2>1. Fighters(r)' = Fighters(r) \ {u} /\ Observers(r)' = Observers(r) \cup {u}
        BY <1>1, <1>2, <1>4 DEF Fighters, Observers
    <2>2. \A v \in Observers(r)' : slot'[v] = SpectatorSlot
        BY <1>1, <1>2, <1>3, <1>4, <2>1 DEF Exclusive, Observers, TypeOK
    <2>3. \A v \in Fighters(r)' : v \in members[r] \ {u}
        BY <2>1 DEF Fighters
    <2> QED  BY <1>1, <1>3, <2>1, <2>2, <2>3, FewerExclusive
<1>5. CASE ~ watch
    <2>1. s \in FreeSlots(r)
        BY <1>1, <1>2, <1>5, FightersFinite, FirstFreeSlotIsFree
    <2>2. k = PositionKey(r, team[u], s, u)
        BY <1>5
    <2> HIDE DEF s, k
    <2>3. IF Mode \in TeamModes
          THEN k \in Bank(team[u]) /\ \A v \in Fighters(r) \ {u} : registry_key[v] # k
          ELSE k = s
        <3> DEFINE t == team[u]
        <3>1. k # None /\ k = PositionKey(r, t, s, u) /\ t \in {0, 1}
            BY <1>1, <1>2, <2>2
        <3> HIDE DEF t
        <3>2. IF Mode \in TeamModes
              THEN k \in Bank(t) /\ \A v \in Fighters(r) \ {u} : registry_key[v] # k
              ELSE k = s
            BY <3>1, PositionKeyIsFree
        <3> QED  BY <3>2 DEF t
    <2>4. /\ Fighters(r)' = Fighters(r) \cup {u} /\ Observers(r)' \subseteq Observers(r)
          /\ u \notin Fighters(r)
        BY <1>1, <1>2, <1>5 DEF Fighters, Observers
    <2>5. IF Mode \in TeamModes
          THEN k \in Bank(team[u]) /\ \A v \in Fighters(r) : registry_key[v] # k
          ELSE k = s
        BY <2>3, <2>4
    <2>6. slot'[u] = s /\ team'[u] = team[u] /\ registry_key'[u] = k
        BY <1>1, <1>2 DEF TypeOK
    <2> QED  BY <1>1, <1>2, <1>3, <1>5, <2>1, <2>4, <2>5, <2>6, OneMoreExclusive
<1> QED  BY <1>4, <1>5

\* A fighter takes another position that is free, in the bank of its team.
LEMMA MoveExclusive ==
    ASSUME Roster, SeatsExclusive, NEW u \in Users, Moves(u), NEW r \in rooms, r = room[u]
    PROVE  Exclusive(r)'
<1>1. TypeOK /\ u \in members[r] /\ Exclusive(r)
    BY ExclusiveRooms, RoomAssumption DEF Roster, RosterAgreement
<1>2. Fighters(r)' = Fighters(r) /\ Observers(r)' = Observers(r) /\ slot' = slot /\ u \in Fighters(r)
    BY <1>1 DEF Moves, ChangeTeam, MoveSeat, roster_vars, Fighters, Observers
<1>3. ASSUME NEW t \in {0, 1}, NEW k,
             team' = [team EXCEPT ![u] = t], registry_key' = [registry_key EXCEPT ![u] = k],
             IF Mode \in TeamModes THEN k \in Bank(t) /\ \A v \in Fighters(r) \ {u} : registry_key[v] # k
                                   ELSE k = slot[u]
      PROVE  Exclusive(r)'
    <2>1. /\ team'[u] = t /\ registry_key'[u] = k
          /\ \A v \in Fighters(r) \ {u} : team'[v] = team[v] /\ registry_key'[v] = registry_key[v]
        BY <1>1, <1>3 DEF TypeOK, Fighters
    <2>2. \A v \in Fighters(r) \ {u} : registry_key[v] # k
        BY <1>1, <1>2, <1>3 DEF Exclusive
    <2> QED  BY <1>1, <1>2, <1>3, <2>1, <2>2 DEF Exclusive
<1>4. ASSUME NEW t \in {0, 1}, ChangeTeam(u, t) PROVE Exclusive(r)'
    <2> DEFINE k == PositionKey(r, t, slot[u], u)
    <2>1. /\ k # None
          /\ team' = [team EXCEPT ![u] = t] /\ registry_key' = [registry_key EXCEPT ![u] = k]
        BY <1>4 DEF ChangeTeam
    <2> DEFINE s == slot[u]
    <2>2. k = PositionKey(r, t, s, u)
        OBVIOUS
    <2> HIDE DEF k, s
    <2>3. IF Mode \in TeamModes THEN k \in Bank(t) /\ \A v \in Fighters(r) \ {u} : registry_key[v] # k
                                ELSE k = s
        BY <2>1, <2>2, PositionKeyIsFree
    <2> QED  BY <1>3, <2>1, <2>3 DEF s
<1>5. ASSUME NEW k \in Slots, MoveSeat(u, k) PROVE Exclusive(r)'
    <2>1. /\ Mode \in TeamModes /\ k \in Bank(team[u]) /\ \A v \in Fighters(r) : registry_key[v] # k
          /\ registry_key' = [registry_key EXCEPT ![u] = k] /\ team' = team
        BY <1>5 DEF MoveSeat, ExchangeOpen, TeamModes
    <2>2. team[u] \in {0, 1} /\ team' = [team EXCEPT ![u] = team[u]]
        BY <1>1, <2>1, RoomAssumption DEF Roster, Seated, RosterAgreement, TypeOK
    <2> QED  BY <1>3, <2>1, <2>2
<1> QED  BY <1>4, <1>5 DEF Moves

\* The two partners of a swap have each other's position and team, nobody else changed.
Swapped(r, a, b) ==
    /\ a \in Fighters(r) /\ b \in Fighters(r) /\ a # b
    /\ registry_key'[a] = registry_key[b] /\ registry_key'[b] = registry_key[a]
    /\ team'[a] = team[b] /\ team'[b] = team[a]
    /\ \A v \in Users \ {a, b} : registry_key'[v] = registry_key[v] /\ team'[v] = team[v]
    /\ UNCHANGED <<members, slot, spectator>>

LEMMA AcceptSwaps ==
    ASSUME Roster, NEW u \in Users, AcceptSwap(u)
    PROVE  Swapped(room[u], seat_exchange[room[u]].source, u)
<1> DEFINE r == room[u]
           a == seat_exchange[r].source
<1>1. TypeOK
    BY DEF Roster
<1>2. /\ a \in Fighters(r) /\ u \in Fighters(r) /\ a # u
      /\ registry_key' = [registry_key EXCEPT ![a] = registry_key[u], ![u] = registry_key[a]]
      /\ team' = [team EXCEPT ![a] = team[u], ![u] = team[a]]
      /\ UNCHANGED <<members, slot, spectator>>
    BY DEF AcceptSwap, MaySwap, roster_vars
<1>3. a \in Users
    BY <1>1, <1>2, RoomAssumption DEF Fighters, TypeOK, AcceptSwap, ExchangeOpen, InRoom
<1> HIDE DEF r, a
<1>4. Swapped(r, a, u)
    BY <1>1, <1>2, <1>3 DEF Swapped, TypeOK
<1> QED  BY <1>4 DEF r, a

LEMMA SwapExclusive ==
    ASSUME Roster, SeatsExclusive, NEW u \in Users, AcceptSwap(u), NEW r \in rooms, r = room[u]
    PROVE  Exclusive(r)'
<1> DEFINE a == seat_exchange[r].source
<1>1. Exclusive(r) /\ Mode \in TeamModes
    BY ExclusiveRooms DEF AcceptSwap, ExchangeOpen, TeamModes
<1>2. Swapped(r, a, u)
    BY AcceptSwaps
<1> HIDE DEF a
<1>3. Fighters(r)' = Fighters(r) /\ Observers(r)' = Observers(r) /\ Fighters(r) \subseteq Users
    BY <1>2 DEF Swapped, Fighters, Observers, Roster, TypeOK
<1> QED  BY <1>1, <1>2, <1>3 DEF Exclusive, Swapped

LEMMA SeatsStep ==
    ASSUME Roster, SeatsExclusive, [Next]_vars
    PROVE  SeatsExclusive'
<1>1. \A r \in rooms : Exclusive(r)
    BY ExclusiveRooms
<1>2. CASE UNCHANGED <<roster_vars, seat_vars>>
    <2>1. \A r \in rooms' : Exclusive(r)'
        BY <1>1, <1>2, QuietSame, SameExclusive DEF roster_vars
    <2> QED  BY <2>1, ExclusiveRoomsNext
<1>3. ASSUME NEW u \in Users, Departs(u) PROVE SeatsExclusive'
    <2>1. rooms' \subseteq rooms
        BY <1>3 DEF Departs, Leave, LeaveEmpty, Unlist, LeaveObserver, LeaveWaiting, roster_vars
    <2>2. \A r \in rooms' : Exclusive(r)'
        BY <1>1, <1>3, <2>1, LeaveSame, SameExclusive, LeaveExclusive
    <2> QED  BY <2>2, ExclusiveRoomsNext
<1>4. ASSUME NEW u \in Users, NEW r \in Rooms, NEW w \in BOOLEAN, Admits(u, r, w) PROVE SeatsExclusive'
    <2>1. Exclusive(r)'
        BY <1>4, AdmitExclusive
    <2>2. \A q \in rooms' : q \in rooms \/ q = r
        BY <1>4 DEF Admits
    <2>3. \A q \in rooms' : Exclusive(q)'
        BY <1>1, <1>4, <2>1, <2>2, AdmitSame, SameExclusive
    <2> QED  BY <2>3, ExclusiveRoomsNext
<1>5. ASSUME NEW u \in Users, ToggleSpectator(u) \/ Governed(u) \/ Moves(u) \/ AcceptSwap(u)
      PROVE  SeatsExclusive'
    <2>1. rooms' = rooms /\ room[u] \in rooms /\ \A q \in rooms : q # room[u] => Same(q)
        BY <1>5, GovernSame
    <2>2. ASSUME NEW r \in rooms, r = room[u], Governed(u) PROVE Exclusive(r)'
        <3>1. UNCHANGED <<members, seat_vars>>
            BY <2>2 DEF Governed, ChangeSettings, TransferOwner
        <3> QED  BY <1>1, <3>1 DEF Exclusive, Fighters, Observers, seat_vars
    <2>3. \A q \in rooms' : Exclusive(q)'
        BY <1>1, <1>5, <2>1, <2>2, SameExclusive, ToggleExclusive, MoveExclusive, SwapExclusive
    <2> QED  BY <2>3, ExclusiveRoomsNext
<1> QED  BY <1>2, <1>3, <1>4, <1>5, StepKinds DEF Admitted

LEMMA InitSeats == Init => SeatsExclusive
BY DEF Init, SeatsExclusive

\* Rooms are never overfull, no two fighters share a seat or a position, and
\* in team modes a position is one of its fighter's team.
THEOREM SeatsAlwaysExclusive == Spec => []SeatsExclusive
<1>1. Init => Roster /\ SeatsExclusive
    BY InitRoster, InitSeats
<1>2. Roster /\ SeatsExclusive /\ [Next]_vars => (Roster /\ SeatsExclusive)'
    BY RosterStep, SeatsStep
<1> QED  BY <1>1, <1>2, PTL DEF Spec

-----------------------------------------------------------------------------
(* Trading positions                                                       *)

\* What the action property says of one room.
Consented(r) ==
    \A u, v \in Fighters(r) :
        u # v /\ registry_key'[u] = registry_key[v] /\ registry_key'[v] = registry_key[u] =>
            /\ seat_exchange[r] # None
            /\ {u, v} = {seat_exchange[r].source, seat_exchange[r].target}
            /\ seat_exchange[r].identity = StartIdentity(r)

\* Two fighters trade nothing unless both positions change.
LEMMA OnlyBothTrade ==
    ASSUME SeatsExclusive, NEW r \in rooms,
           \A u, v \in Fighters(r) : u # v =>
               registry_key'[u] \in {None, registry_key[u]} \/ registry_key'[v] \in {None, registry_key[v]},
           \A u \in Fighters(r) : registry_key[u] # None
    PROVE  Consented(r)
BY DEF SeatsExclusive, Consented

LEMMA StepConsents ==
    ASSUME Roster, SeatsExclusive, [Next]_vars, NEW r \in rooms
    PROVE  Consented(r)
<1>1. TypeOK /\ r \in Rooms /\ r # None
    BY RoomAssumption DEF Roster, TypeOK
<1>2. \A v \in Fighters(r) : v \in Users /\ v \in members[r] /\ room[v] = r /\ registry_key[v] # None
    <2>1. \A v \in Fighters(r) : v \in Users /\ v \in members[r] /\ room[v] = r
        BY <1>1 DEF Fighters, TypeOK, Roster, RosterAgreement
    <2>2. None \notin Seats
        BY RoomAssumption DEF Seats, Slots, SpectatorSlot
    <2> QED  BY <1>1, <2>1, <2>2 DEF Roster, Seated
<1>3. ASSUME Same(r) PROVE Consented(r)
    BY <1>2, <1>3, OnlyBothTrade DEF Same
<1>4. CASE UNCHANGED <<roster_vars, seat_vars>>
    BY <1>3, <1>4, QuietSame
<1>5. ASSUME NEW w \in Users, Departs(w) PROVE Consented(r)
    <2>1. PICK ph : Leave(w, ph)
        BY <1>5 DEF Departs
    <2>2. \A v \in Users : registry_key'[v] \in {None, registry_key[v]}
        BY <2>1 DEF Leave, LeaveEmpty, LeaveObserver, LeaveWaiting, Unseat, seat_vars
    <2> QED  BY <1>2, <2>2, OnlyBothTrade
<1>6. ASSUME NEW w \in Users, NEW q \in Rooms, NEW b \in BOOLEAN, Admits(w, q, b) PROVE Consented(r)
    <2>1. \A v \in Users \ {w} : registry_key'[v] = registry_key[v]
        BY <1>1, <1>6 DEF Admits, Install, TypeOK
    <2>2. w \notin Fighters(r)
        BY <1>1, <1>2, <1>6 DEF Admits
    <2> QED  BY <1>2, <2>1, <2>2, OnlyBothTrade
<1>7. ASSUME NEW w \in Users, ToggleSpectator(w) \/ Governed(w) \/ Moves(w) PROVE Consented(r)
    <2>1. \A v \in Users \ {w} : registry_key'[v] = registry_key[v]
        BY <1>1, <1>7 DEF ToggleSpectator, Governed, ChangeSettings, TransferOwner, Moves, ChangeTeam, MoveSeat,
                          seat_vars, TypeOK
    <2> QED  BY <1>2, <2>1, OnlyBothTrade
<1>8. ASSUME NEW w \in Users, AcceptSwap(w) PROVE Consented(r)
    <2>1. CASE r # room[w]
        BY <1>3, <1>8, <2>1, GovernSame
    <2>2. CASE r = room[w]
        <3> DEFINE a == seat_exchange[r].source
        <3>1. Swapped(r, a, w)
            BY <1>8, <2>2, AcceptSwaps
        <3>2. /\ seat_exchange[r] # None /\ seat_exchange[r].target = w
              /\ seat_exchange[r].identity = StartIdentity(r)
            BY <1>8, <2>2 DEF AcceptSwap, ExchangeOpen, InRoom, Handled, Expired, Stale
        <3>3. ASSUME NEW u \in Fighters(r), NEW v \in Fighters(r), u # v,
                     registry_key'[u] = registry_key[v], registry_key'[v] = registry_key[u]
              PROVE  {u, v} = {a, w}
            <4>1. registry_key[u] # registry_key[v]
                BY <3>3 DEF SeatsExclusive
            <4> HIDE DEF a
            <4>2. u \in {a, w} /\ v \in {a, w}
                BY <1>2, <3>1, <3>3, <4>1 DEF Swapped
            <4> QED  BY <3>3, <4>2
        <3> QED  BY <3>2, <3>3 DEF Consented
    <2> QED  BY <2>1, <2>2
<1> QED  BY <1>4, <1>5, <1>6, <1>7, <1>8, StepKinds DEF Admitted

\* Two fighters trade positions only by an exchange proposed to the very
\* roster it is applied to: no admission, departure or move brings a trade
\* about, and a proposal made to another roster has expired.
THEOREM SwapsConsented == Spec => SwapConsented
<1>1. Init => Roster /\ SeatsExclusive
    BY InitRoster, InitSeats
<1>2. Roster /\ SeatsExclusive /\ [Next]_vars => (Roster /\ SeatsExclusive)'
    BY RosterStep, SeatsStep
<1>3. Roster /\ SeatsExclusive /\ [Next]_vars =>
          [\A r \in rooms : \A u, v \in Fighters(r) :
               u # v /\ registry_key'[u] = registry_key[v] /\ registry_key'[v] = registry_key[u] =>
                   /\ seat_exchange[r] # None
                   /\ {u, v} = {seat_exchange[r].source, seat_exchange[r].target}
                   /\ seat_exchange[r].identity = StartIdentity(r)]_vars
    BY StepConsents DEF Consented
<1> QED  BY <1>1, <1>2, <1>3, PTL DEF Spec, SwapConsented

-----------------------------------------------------------------------------
(* Invitations                                                             *)

\* A step that only takes invitations away, and users out of rooms, keeps
\* those whose two connections it leaves alone.
LEMMA FewerInvites ==
    ASSUME TypeOK, InvitesCurrent,
           \A t \in Users : \/ invites'[t] = None
                            \/ /\ invites'[t] = invites[t]
                               /\ invites[t] # None =>
                                      /\ game'[t] = game[t]
                                      /\ game'[invites[t].inviter] = game[invites[t].inviter]
                                      /\ room'[invites[t].inviter] \in {room[invites[t].inviter], None}
                                      /\ room'[t] \in {room[t], None}
    PROVE  InvitesCurrent'
BY DEF InvitesCurrent

LEMMA LeaveInvites ==
    ASSUME Roster, InvitesCurrent, NEW u \in Users, Departs(u),
           \A v \in Users \ {u} : game'[v] = game[v]
    PROVE  InvitesCurrent'
<1>1. PICK ph : Leave(u, ph)
    BY DEF Departs
<1>2. TypeOK
    BY DEF Roster
<1>3. \A v \in Users : room'[v] \in {room[v], None}
    BY <1>1 DEF Leave, LeaveEmpty, LeaveObserver, LeaveWaiting, Unseat, roster_vars
<1>4. invites' = InvitesWithout(u)
    BY <1>1 DEF Leave
<1>5. \A t \in Users : invites[t] # None => invites[t].inviter \in Users
    BY <1>2 DEF TypeOK, Invitations
<1> QED  BY <1>2, <1>3, <1>4, <1>5, FewerInvites DEF InvitesWithout

LEMMA InvitesStep ==
    ASSUME Roster, InvitesCurrent, [Next]_vars
    PROVE  InvitesCurrent'
<1>1. TypeOK /\ \A t \in Users : invites[t] # None => invites[t].inviter \in Users
    BY DEF Roster, TypeOK, Invitations
<1>2. ASSUME UNCHANGED <<game, room>>, \A t \in Users : invites'[t] \in {invites[t], None}
      PROVE  InvitesCurrent'
    BY <1>1, <1>2, FewerInvites
<1>3. ASSUME NEW u \in Users, Remove(u) PROVE InvitesCurrent'
    BY <1>3, LeaveInvites DEF Remove, Departs, engine_vars
<1>4. ASSUME NEW u \in Users, NEW r, NEW w, room[u] = None, Install(r, u, w) PROVE InvitesCurrent'
    <2>1. /\ invites' = InvitesWithout(u) /\ room' = [room EXCEPT ![u] = r] /\ game' = game
        BY <1>4 DEF Install, engine_vars
    <2> QED  BY <1>1, <2>1, FewerInvites DEF InvitesWithout, TypeOK
<1>5. CASE Session
    <2>1. ASSUME NEW u \in Users, NEW c \in Conns, Enter(u, c) PROVE InvitesCurrent'
        <3>1. game[u] = None /\ game' = [game EXCEPT ![u] = c] /\ UNCHANGED <<room, invites>>
            BY <2>1 DEF Enter, roster_vars
        <3>2. \A t \in Users : invites[t] # None => t # u /\ invites[t].inviter # u
            BY <1>1, <3>1, RoomAssumption DEF InvitesCurrent, TypeOK, Invitations
        <3> QED  BY <1>1, <3>1, <3>2, FewerInvites DEF TypeOK
    <2>2. ASSUME NEW u \in Users, Disconnect(u) PROVE InvitesCurrent'
        <3>1. game' = [game EXCEPT ![u] = None]
            BY <2>2 DEF Disconnect
        <3>2. CASE SuspendsOnLoss(u)
            <4>1. invites' = InvitesWithout(u) /\ room' = room
                BY <2>2, <3>2 DEF Disconnect, Suspend, roster_vars
            <4> QED  BY <1>1, <3>1, <4>1, FewerInvites DEF InvitesWithout, TypeOK
        <3>3. CASE ~ SuspendsOnLoss(u)
            BY <1>1, <2>2, <3>1, <3>3, LeaveInvites DEF Disconnect, Departs, TypeOK
        <3> QED  BY <3>2, <3>3
    <2>3. ASSUME NEW u \in Users, RegisterP2P(u) \/ LoseP2P(u) \/ Bind(u)
          PROVE  UNCHANGED <<game, room, invites>>
        BY <2>3 DEF RegisterP2P, LoseP2P, Bind, roster_vars
    <2> QED  BY <1>2, <1>5, <2>1, <2>2, <2>3 DEF Session
<1>6. CASE Expire
    <2>1. ASSUME NEW r \in Rooms, ExpirePublicDeadline(r) PROVE InvitesCurrent'
        <3>1. owner[r] \in Users
            BY <2>1 DEF ExpirePublicDeadline, Roster, OwnerSeated, TypeOK
        <3> QED  BY <1>3, <2>1, <3>1 DEF ExpirePublicDeadline
    <2>2. ASSUME NEW u \in Users, ExpireSuspended(u) PROVE InvitesCurrent'
        BY <1>3, <2>2 DEF ExpireSuspended
    <2>3. ASSUME NEW r \in Rooms, ExpireSeat(r) \/ ExpireProbe(r)
          PROVE  UNCHANGED <<game, room, invites>>
        BY <2>3 DEF ExpireSeat, ExpireProbe, CancelNetworkProbe, roster_vars, engine_vars
    <2>4. ASSUME NEW u \in Users, ExpireInvite(u) PROVE InvitesCurrent'
        BY <1>1, <1>2, <2>4 DEF ExpireInvite, roster_vars, engine_vars, TypeOK
    <2> QED  BY <1>2, <1>6, <2>1, <2>2, <2>3, <2>4 DEF Expire
<1>7. CASE Flow
    <2>1. ASSUME NEW u \in Users,
                 \/ Ready(u) \/ Unready(u) \/ NetworkDelayReply(u) \/ Loaded(u) \/ InputReady(u)
                 \/ Report(u) \/ Ack(u) \/ ToggleSpectator(u)
          PROVE  UNCHANGED <<game, room, invites>>
        BY <2>1 DEF Ready, Unready, NetworkDelayReply, CancelNetworkProbe, Loaded, InputReady, Report,
                    Ack, ToggleSpectator, roster_vars, engine_vars
    <2> QED  BY <1>2, <1>7, <2>1 DEF Flow
<1>8. CASE Requests \/ Exchange
    <2>1. ASSUME NEW u \in Users,
                 \/ \E r \in Rooms, w \in BOOLEAN : Create(u, r, w) \/ Join(u, r, w)
                 \/ AcceptInvite(u)
          PROVE  InvitesCurrent'
        BY <1>4, <2>1 DEF Create, Join, InLobby, AcceptInvite, InviteStands
    <2>2. ASSUME NEW u \in Users, LeaveRoom(u) \/ \E t \in Users : RemoveMember(u, t)
          PROVE  InvitesCurrent'
        BY <1>3, <2>2 DEF LeaveRoom, RemoveMember
    <2>3. ASSUME NEW u \in Users, NEW t \in Users, Invite(u, t) PROVE InvitesCurrent'
        <3> DEFINE i == [inviter |-> u, room |-> room[u], serial |-> serial[room[u]],
                         inviter_connection |-> game[u], recipient_connection |-> game[t]]
        <3>1. /\ invites' = [invites EXCEPT ![t] = i] /\ UNCHANGED <<game, room>>
              /\ room[t] = None
            BY <2>3 DEF Invite, roster_vars, engine_vars
        <3>2. /\ i.inviter = u /\ i.room = room[u] /\ i.inviter_connection = game[u]
              /\ i.recipient_connection = game[t]
            OBVIOUS
        <3> HIDE DEF i
        <3> QED  BY <1>1, <3>1, <3>2 DEF InvitesCurrent, TypeOK
    <2>4. ASSUME NEW u \in Users, DropInvite(u) PROVE InvitesCurrent'
        BY <1>1, <1>2, <2>4 DEF DropInvite, roster_vars, engine_vars, TypeOK
    <2>5. ASSUME NEW u \in Users,
                 \/ ChangeSettings(u) \/ AcceptSwap(u) \/ RejectSwap(u)
                 \/ \E t \in Users : TransferOwner(u, t) \/ ProposeSwap(u, t)
                 \/ \E t \in {0, 1} : ChangeTeam(u, t)
                 \/ \E k \in Slots : MoveSeat(u, k)
          PROVE  UNCHANGED <<game, room, invites>>
        BY <2>5 DEF ChangeSettings, AcceptSwap, RejectSwap, TransferOwner, ProposeSwap, ChangeTeam,
                    MoveSeat, roster_vars, engine_vars
    <2> QED  BY <1>2, <1>8, <2>1, <2>2, <2>3, <2>4, <2>5 DEF Requests, Exchange
<1>9. CASE UNCHANGED vars
    BY <1>2, <1>9 DEF vars
<1> QED  BY <1>5, <1>6, <1>7, <1>8, <1>9 DEF Next

LEMMA InitInvites == Init => InvitesCurrent
BY DEF Init, InvitesCurrent

\* A pending invitation belongs to the two connections it was made between,
\* however they were lost and replaced meanwhile, and its sender has gone
\* nowhere but out of the room it invites to.
THEOREM InvitesAlwaysCurrent == Spec => []InvitesCurrent
<1>1. Init => Roster /\ InvitesCurrent
    BY InitRoster, InitInvites
<1>2. Roster /\ InvitesCurrent /\ [Next]_vars => (Roster /\ InvitesCurrent)'
    BY RosterStep, InvitesStep
<1> QED  BY <1>1, <1>2, PTL DEF Spec
=============================================================================
