--------------------------- MODULE RoomMatchProofs ---------------------------
(***************************************************************************)
(* The course of a match, for any number of users and rooms: its barriers  *)
(* can always open, its stages follow each other in order, its members are *)
(* connected and in the right phase, and it starts only by agreement.      *)
(***************************************************************************)
EXTENDS RoomHubProofs

\* Outside a match the ledgers of the entry barriers are empty, the input
\* ledger until everybody has loaded; replies exist only once a match was
\* settled, and the reports that settled it are kept as long as they do.
Settled(r) == \E F \in SUBSET Users : F # {} /\ \A v \in F : result_reports[r][v] = F

LedgersIdle ==
    \A r \in Rooms :
        /\ r \notin rooms => result_replies[r] = {} /\ result_acks[r] = {}
        /\ stage[r] = "room" => loaded[r] = {} /\ input_ready[r] = {}
        /\ stage[r] = "loading" => input_ready[r] = {}
        /\ stage[r] \in {"loading", "wait_ready", "battle"} => result_replies[r] = {}
        /\ result_replies[r] # {} => Settled(r)

Ledgers == BarriersOpen /\ LedgersIdle

\* The order in which a room goes through its stages.
StageSteps ==
    {<<s, s>> : s \in Stages} \cup
    {<<"room", "loading">>, <<"loading", "wait_ready">>, <<"wait_ready", "battle">>,
     <<"battle", "result">>, <<"result", "room">>}
Orderly == \A r \in rooms \cap rooms' : <<stage[r], stage'[r]>> \in StageSteps

-----------------------------------------------------------------------------
(* Barriers                                                                *)

LEMMA InitLedgers == Init => Ledgers
BY DEF Init, Ledgers, BarriersOpen, LedgersIdle, Fighters

\* Steps that touch neither rosters nor ledgers.
LEMMA SameLedgers ==
    ASSUME Roster, Ledgers, UNCHANGED <<rooms, members, spectator, match_vars>>
    PROVE  Ledgers' /\ Orderly
<1>1. UNCHANGED <<rooms, members, spectator, stage, loaded, input_ready, result_reports,
                  result_replies, result_acks>>
    BY DEF match_vars, result_vars
<1>2. Ledgers'
    BY <1>1 DEF Ledgers, BarriersOpen, LedgersIdle, Settled, Fighters
<1>3. \A r \in rooms : stage[r] \in Stages
    BY DEF Roster, TypeOK
<1> QED  BY <1>1, <1>2, <1>3 DEF Orderly, StageSteps

\* Where the barriers leave a match: before the first one that is not complete.
LEMMA StageAfterMatch ==
    ASSUME NEW st \in Stages \ {"room"}, NEW ms, NEW fs, fs # {}, NEW ld, NEW ir, NEW acks,
           st = "loading" => ir = {}
    PROVE  LET n == StageAfter(st, ms, fs, ld, ir, acks)
           IN  /\ n \in Stages /\ <<st, n>> \in StageSteps
               /\ n = "loading" => ld # ms
               /\ n = "wait_ready" => ir # fs
               /\ n = "result" => acks # ms /\ st = "result"
               /\ n = "room" => st = "result"
               /\ n = "battle" => st \in {"wait_ready", "battle"}
BY DEF StageAfter, Stages, StageSteps

\* What becomes of the stage and the ledgers of r if the barriers see the
\* roster ms and the ledgers ld, ir and acks; no other room changes.
Advanced(r, ms, ld, ir, acks) ==
    /\ <<stage[r], stage'[r]>> \in StageSteps
    /\ stage'[r] = "room" => stage[r] = "result" /\ loaded'[r] = {} /\ input_ready'[r] = {}
    /\ stage'[r] # "room" => loaded'[r] = ld /\ input_ready'[r] = ir
    /\ result_acks'[r] = acks
    /\ stage'[r] = "loading" => stage[r] = "loading" /\ ld # ms
    /\ stage'[r] = "wait_ready" => stage[r] \in {"loading", "wait_ready"} /\ ir # ms \ spectator
    /\ stage'[r] = "battle" => stage[r] \in {"wait_ready", "battle"}
    /\ stage'[r] = "result" => stage[r] = "result" /\ acks # ms
    /\ \A q \in Rooms \ {r} :
           /\ stage'[q] = stage[q] /\ loaded'[q] = loaded[q]
           /\ input_ready'[q] = input_ready[q] /\ result_acks'[q] = result_acks[q]

\* The ledgers of a running match after advance_barriers; ms is the new
\* roster, fs its fighters.
LEMMA AdvanceLedgers ==
    ASSUME Roster, Ledgers, NEW r \in rooms, stage[r] # "room",
           NEW ms, NEW ld, NEW ir, NEW acks, NEW ph,
           ms \ spectator # {}, stage[r] = "loading" => ir = {},
           AdvanceBarriers(r, ms, ld, ir, acks, ph)
    PROVE  Advanced(r, ms, ld, ir, acks)
<1> DEFINE st == StageAfter(stage[r], ms, ms \ spectator, ld, ir, acks)
<1>1. r \in Rooms /\ stage[r] \in Stages \ {"room"} /\ TypeOK
    BY DEF Roster, TypeOK
<1>2. /\ st \in Stages /\ <<stage[r], st>> \in StageSteps
      /\ st = "loading" => ld # ms
      /\ st = "wait_ready" => ir # ms \ spectator
      /\ st = "result" => acks # ms /\ stage[r] = "result"
      /\ st = "room" => stage[r] = "result"
      /\ st = "battle" => stage[r] \in {"wait_ready", "battle"}
    BY <1>1, StageAfterMatch
<1>3. /\ stage' = [stage EXCEPT ![r] = st]
      /\ loaded' = [loaded EXCEPT ![r] = IF st = "room" /\ stage[r] # "room" THEN {} ELSE ld]
      /\ input_ready' = [input_ready EXCEPT ![r] = IF st = "room" /\ stage[r] # "room" THEN {} ELSE ir]
      /\ result_acks' = [result_acks EXCEPT ![r] = acks]
    BY DEF AdvanceBarriers
<1> HIDE DEF st
<1>4. /\ stage'[r] = st /\ result_acks'[r] = acks
      /\ loaded'[r] = IF st = "room" THEN {} ELSE ld
      /\ input_ready'[r] = IF st = "room" THEN {} ELSE ir
    BY <1>1, <1>3 DEF TypeOK
<1>5. \A q \in Rooms \ {r} :
          /\ stage'[q] = stage[q] /\ loaded'[q] = loaded[q]
          /\ input_ready'[q] = input_ready[q] /\ result_acks'[q] = result_acks[q]
    BY <1>1, <1>3 DEF TypeOK
<1>6. /\ st = "loading" => stage[r] = "loading"
      /\ st = "wait_ready" => stage[r] \in {"loading", "wait_ready"}
    BY <1>2 DEF StageSteps
<1> QED  BY <1>1, <1>2, <1>4, <1>5, <1>6 DEF Advanced

-----------------------------------------------------------------------------
(* Departures                                                              *)

\* A room that keeps its fighters and its ledgers.
Kept(q) ==
    /\ members'[q] = members[q] /\ Fighters(q)' = Fighters(q) /\ stage'[q] = stage[q]
    /\ loaded'[q] = loaded[q] /\ input_ready'[q] = input_ready[q]
    /\ result_reports'[q] = result_reports[q]
    /\ result_replies'[q] = result_replies[q] /\ result_acks'[q] = result_acks[q]

\* What has to be shown of a room whose ledgers change: the conjuncts of
\* BarriersOpen and LedgersIdle for it.
Good(r) ==
    /\ r \in rooms =>
        /\ loaded[r] \subseteq members[r]
        /\ input_ready[r] \subseteq Fighters(r)
        /\ result_acks[r] \subseteq result_replies[r]
        /\ result_replies[r] \subseteq members[r]
        /\ stage[r] = "loading" => loaded[r] # members[r]
        /\ stage[r] = "wait_ready" => input_ready[r] # Fighters(r)
        /\ stage[r] = "result" => result_replies[r] = members[r] /\ result_acks[r] # members[r]
    /\ r \notin rooms => result_replies[r] = {} /\ result_acks[r] = {}
    /\ stage[r] = "room" => loaded[r] = {} /\ input_ready[r] = {}
    /\ stage[r] = "loading" => input_ready[r] = {}
    /\ stage[r] \in {"loading", "wait_ready", "battle"} => result_replies[r] = {}
    /\ result_replies[r] # {} => Settled(r)

LEMMA LedgersAreGood ==
    ASSUME rooms \subseteq Rooms
    PROVE  Ledgers <=> \A r \in Rooms : Good(r)
BY DEF Ledgers, BarriersOpen, LedgersIdle, Good

\* A step that concerns one room keeps the ledgers if it keeps those of r.
LEMMA OneRoom ==
    ASSUME Roster, Roster', Ledgers, NEW r \in Rooms,
           rooms \ {r} = rooms' \ {r}, \A q \in Rooms \ {r} : Kept(q),
           Good(r)', r \in rooms /\ r \in rooms' => <<stage[r], stage'[r]>> \in StageSteps
    PROVE  Ledgers' /\ Orderly
<1>1. rooms \subseteq Rooms /\ rooms' \subseteq Rooms /\ \A q \in Rooms : stage[q] \in Stages
    BY DEF Roster, TypeOK
<1>2. \A q \in Rooms : Good(q)
    BY <1>1, LedgersAreGood
<1>3. ASSUME NEW q \in Rooms \ {r} PROVE Good(q)'
    <2>1. Good(q) /\ Kept(q) /\ (q \in rooms' <=> q \in rooms)
        BY <1>2
    <2> QED  BY <2>1 DEF Good, Kept, Settled
<1>4. Ledgers'
    <2>1. \A q \in Rooms : Good(q)'
        BY <1>3
    <2>2. (rooms \subseteq Rooms)'
        BY <1>1
    <2>3. (Ledgers <=> \A q \in Rooms : Good(q))'
        BY <2>2 DEF Ledgers, BarriersOpen, LedgersIdle, Good
    <2> QED  BY <2>1, <2>3
<1>5. ASSUME NEW q \in rooms \cap rooms' PROVE <<stage[q], stage'[q]>> \in StageSteps
    <2>1. CASE q = r
        BY <2>1, <1>5
    <2>2. CASE q # r
        BY <2>2, <1>1 DEF Kept, StageSteps
    <2> QED  BY <2>1, <2>2
<1> QED  BY <1>4, <1>5 DEF Orderly

\* Rooms that u is not in are kept when u changes its role or leaves.
LEMMA Disjoint ==
    ASSUME Roster, NEW r \in rooms, NEW q \in Rooms \ {r}
    PROVE  members[q] \cap members[r] = {}
BY DEF Roster, RosterAgreement, Unlisted

LEMMA LeaveEmptyLedgers ==
    ASSUME Roster, Roster', Ledgers, NEW u \in Users, NEW r \in rooms, room[u] = r, NEW ph,
           LeaveEmpty(u, r, ph)
    PROVE  Ledgers' /\ Orderly
<1>1. r \in rooms /\ r \in Rooms /\ TypeOK
    BY DEF Roster, TypeOK, RosterAgreement
<1>2. Unlist(r) /\ spectator' = spectator \ members[r]
    BY DEF LeaveEmpty, Unseat
<1>3. \A q \in Rooms \ {r} : Kept(q)
    BY <1>1, <1>2, Disjoint DEF Kept, Unlist, Fighters, TypeOK
<1>4. Good(r)'
    BY <1>1, <1>2 DEF Unlist, Good, TypeOK
<1>5. rooms \ {r} = rooms' \ {r} /\ r \notin rooms'
    BY <1>2 DEF Unlist
<1> QED  BY <1>1, <1>3, <1>4, <1>5, OneRoom

LEMMA LeaveObserverLedgers ==
    ASSUME Roster, Roster', Ledgers, NEW u \in Users, NEW r \in rooms, room[u] = r, NEW ph,
           LeaveObserver(u, r, ph)
    PROVE  Ledgers' /\ Orderly
<1> DEFINE ms == members[r] \ {u}
<1>1. r \in rooms /\ r \in Rooms /\ u \in members[r] /\ TypeOK
    BY DEF Roster, TypeOK, RosterAgreement
<1>2. stage[r] # "room" /\ u \in spectator
    BY <1>1 DEF LeaveObserver, Departing
<1>3. /\ members' = [members EXCEPT ![r] = ms]
      /\ result_replies' = [result_replies EXCEPT ![r] = @ \ {u}]
      /\ spectator' = spectator \ {u}
      /\ UNCHANGED <<rooms, result_reports>>
      /\ AdvanceBarriers(r, ms, loaded[r] \ {u}, input_ready[r] \ {u}, result_acks[r] \ {u},
                         [phase EXCEPT ![u] = ph])
    BY DEF LeaveObserver, Unseat
<1>4. ms \spectator = Fighters(r) /\ Fighters(r) # {} /\ ms \in SUBSET Users
    BY <1>1, <1>2 DEF Fighters, Roster, OwnerSeated, TypeOK
<1>5. Good(r)
    BY <1>1, LedgersAreGood DEF TypeOK
<1>6. /\ loaded[r] \ {u} \in SUBSET ms
      /\ input_ready[r] \ {u} \in SUBSET (ms \ spectator)
      /\ result_acks[r] \ {u} \in SUBSET Users
      /\ stage[r] = "loading" => input_ready[r] \ {u} = {}
    BY <1>1, <1>2, <1>4, <1>5 DEF Good, TypeOK, Fighters
<1>7. Advanced(r, ms, loaded[r] \ {u}, input_ready[r] \ {u}, result_acks[r] \ {u})
    <2> DEFINE ld == loaded[r] \ {u}
               ir == input_ready[r] \ {u}
               acks == result_acks[r] \ {u}
               ph2 == [phase EXCEPT ![u] = ph]
    <2>1. AdvanceBarriers(r, ms, ld, ir, acks, ph2)
        BY <1>3
    <2>2. /\ ms \ spectator # {} /\ stage[r] # "room"
          /\ stage[r] = "loading" => ir = {}
        BY <1>2, <1>4, <1>6
    <2> HIDE DEF ms, ld, ir, acks, ph2
    <2>3. Advanced(r, ms, ld, ir, acks)
        BY <2>1, <2>2, AdvanceLedgers
    <2> QED  BY <2>3 DEF ld, ir, acks
<1>8. \A q \in Rooms \ {r} : Kept(q)
    BY <1>1, <1>3, <1>7, Disjoint DEF Kept, Fighters, TypeOK, Advanced
<1>9. Good(r)'
    <2>1. /\ members'[r] = ms /\ result_replies'[r] = result_replies[r] \ {u}
          /\ result_reports'[r] = result_reports[r] /\ Fighters(r)' = Fighters(r)
        BY <1>1, <1>2, <1>3 DEF TypeOK, Fighters
    <2>2. Settled(r) => Settled(r)'
        BY <2>1 DEF Settled
    <2>3. /\ result_replies[r] # {} => Settled(r)
          /\ stage[r] \in {"loading", "wait_ready", "battle"} => result_replies[r] = {}
          /\ stage[r] = "result" => result_replies[r] = members[r]
          /\ result_acks[r] \subseteq result_replies[r] /\ result_replies[r] \subseteq members[r]
        BY <1>1, <1>5 DEF Good
    <2>4. r \in rooms'
        BY <1>3
    <2> QED  BY <1>2, <1>4, <1>6, <1>7, <2>1, <2>2, <2>3, <2>4 DEF Good, Advanced
<1> QED  BY <1>1, <1>3, <1>7, <1>8, <1>9, OneRoom DEF Advanced

LEMMA LeaveWaitingLedgers ==
    ASSUME Roster, Roster', Ledgers, NEW u \in Users, NEW r \in rooms, room[u] = r, NEW ph,
           LeaveWaiting(u, r, ph)
    PROVE  Ledgers' /\ Orderly
<1>1. r \in rooms /\ r \in Rooms /\ u \in members[r] /\ TypeOK /\ stage[r] = "room"
    BY DEF Roster, TypeOK, RosterAgreement, LeaveWaiting
<1>2. /\ members' = [members EXCEPT ![r] = @ \ {u}] /\ spectator' = spectator \ {u}
      /\ loaded' = [loaded EXCEPT ![r] = @ \ {u}]
      /\ input_ready' = [input_ready EXCEPT ![r] = @ \ {u}]
      /\ result_acks' = [result_acks EXCEPT ![r] = @ \ {u}]
      /\ result_replies' = [result_replies EXCEPT ![r] = @ \ {u}]
      /\ UNCHANGED <<rooms, stage, result_reports>>
    BY DEF LeaveWaiting, Unseat
<1>3. \A q \in Rooms \ {r} : Kept(q)
    BY <1>1, <1>2, Disjoint DEF Kept, Fighters, TypeOK
<1>4. Good(r)
    BY <1>1, LedgersAreGood DEF TypeOK
<1>5. Good(r)'
    BY <1>1, <1>2, <1>4 DEF Good, TypeOK, Settled
<1>6. <<stage[r], stage'[r]>> \in StageSteps
    BY <1>1, <1>2 DEF StageSteps, Stages
<1> QED  BY <1>1, <1>2, <1>3, <1>5, <1>6, OneRoom

LEMMA LeaveLedgers ==
    ASSUME Roster, Roster', Ledgers, NEW u \in Users, NEW ph, Leave(u, ph)
    PROVE  Ledgers' /\ Orderly
<1>1. CASE room[u] = None
    BY <1>1, SameLedgers DEF Leave, roster_vars, seat_vars
<1>2. CASE room[u] # None
    <2>1. room[u] \in rooms
        BY <1>2 DEF Roster, RosterAgreement
    <2> QED  BY <1>2, <2>1, LeaveEmptyLedgers, LeaveObserverLedgers, LeaveWaitingLedgers DEF Leave
<1> QED  BY <1>1, <1>2

-----------------------------------------------------------------------------
(* Admission and roles: only in a waiting room, whose ledgers are empty    *)

LEMMA InstallLedgers ==
    ASSUME Roster, Roster', Ledgers, NEW u \in Users, NEW r \in Rooms, NEW watch \in BOOLEAN,
           room[u] = None, Install(r, u, watch),
           rooms' = rooms \/ rooms' = rooms \cup {r}
    PROVE  Ledgers' /\ Orderly
<1>1. TypeOK /\ \A q \in Rooms : u \notin members[q]
    <2>1. \A q \in rooms : u \notin members[q]
        BY RoomAssumption DEF Roster, TypeOK, RosterAgreement
    <2>2. \A q \in Rooms \ rooms : u \notin members[q]
        BY DEF Roster, Unlisted
    <2> QED  BY <2>1, <2>2 DEF Roster
<1>2. /\ members' = [members EXCEPT ![r] = @ \cup {u}] /\ stage[r] = "room"
      /\ spectator' = IF watch THEN spectator \cup {u} ELSE spectator \ {u}
      /\ UNCHANGED <<stage, loaded, input_ready, result_reports, result_replies, result_acks>>
    BY DEF Install, CanInstall, match_vars, result_vars
<1>3. \A q \in Rooms \ {r} : Kept(q)
    BY <1>1, <1>2 DEF Kept, Fighters, TypeOK
<1>4. Good(r)
    BY <1>1, LedgersAreGood DEF TypeOK
<1>5. Good(r)'
    BY <1>1, <1>2, <1>4 DEF Good, TypeOK, Settled
<1>6. <<stage[r], stage'[r]>> \in StageSteps
    BY <1>2 DEF StageSteps, Stages
<1>7. rooms \ {r} = rooms' \ {r}
    OBVIOUS
<1> QED  BY <1>3, <1>5, <1>6, <1>7, OneRoom

LEMMA AdmissionLedgers ==
    ASSUME Roster, Roster', Ledgers, NEW u \in Users,
           \/ \E r \in Rooms, w \in BOOLEAN : Create(u, r, w) \/ Join(u, r, w)
           \/ AcceptInvite(u)
    PROVE  Ledgers' /\ Orderly
<1>1. ASSUME NEW r \in Rooms, NEW w \in BOOLEAN, Create(u, r, w) PROVE Ledgers' /\ Orderly
    BY <1>1, InstallLedgers DEF Create, InLobby
<1>2. ASSUME NEW r \in Rooms, NEW w \in BOOLEAN, Join(u, r, w) PROVE Ledgers' /\ Orderly
    BY <1>2, InstallLedgers DEF Join, InLobby
<1>3. CASE AcceptInvite(u)
    <2>1. invites[u].room \in Rooms /\ room[u] = None
        BY <1>3 DEF Roster, TypeOK, AcceptInvite, InviteStands
    <2> QED  BY <1>3, <2>1, InstallLedgers DEF AcceptInvite
<1> QED  BY <1>1, <1>2, <1>3

LEMMA ToggleLedgers ==
    ASSUME Roster, Roster', Ledgers, NEW u \in Users, ToggleSpectator(u)
    PROVE  Ledgers' /\ Orderly
<1>1. PICK r \in rooms : room[u] = r /\ r \in Rooms /\ u \in members[r] /\ stage[r] = "room"
    BY DEF ToggleSpectator, InRoom, Roster, TypeOK, RosterAgreement
<1>2. /\ spectator' \in {spectator \cup {u}, spectator \ {u}}
      /\ UNCHANGED <<rooms, members, stage, loaded, input_ready, result_reports,
                     result_replies, result_acks>>
    BY DEF ToggleSpectator, match_vars, result_vars
<1>3. \A q \in Rooms \ {r} : Kept(q)
    BY <1>1, <1>2, Disjoint DEF Kept, Fighters
<1>4. Good(r)
    BY <1>1, LedgersAreGood DEF Roster, TypeOK
<1>5. Good(r)'
    BY <1>1, <1>2, <1>4 DEF Good, Settled, Fighters
<1>6. <<stage[r], stage'[r]>> \in StageSteps
    BY <1>1, <1>2 DEF StageSteps, Stages
<1> QED  BY <1>1, <1>2, <1>3, <1>5, <1>6, OneRoom

-----------------------------------------------------------------------------
(* The course of a match                                                   *)

LEMMA StartMatchLedgers ==
    ASSUME Roster, Roster', Ledgers, NEW r \in rooms, stage[r] = "room", StartMatch(r),
           UNCHANGED <<rooms, members, spectator>>
    PROVE  Ledgers' /\ Orderly
<1>1. r \in Rooms /\ TypeOK /\ members[r] # {}
    BY DEF Roster, TypeOK, RosterAgreement
<1>2. /\ stage' = [stage EXCEPT ![r] = "loading"]
      /\ loaded' = [loaded EXCEPT ![r] = {}]
      /\ input_ready' = [input_ready EXCEPT ![r] = {}]
      /\ result_reports' = [result_reports EXCEPT ![r] = [u \in Users |-> {}]]
      /\ result_replies' = [result_replies EXCEPT ![r] = {}]
      /\ result_acks' = [result_acks EXCEPT ![r] = {}]
    BY DEF StartMatch, ClearLedgers
<1>3. \A q \in Rooms \ {r} : Kept(q)
    BY <1>1, <1>2 DEF Kept, Fighters, TypeOK
<1>4. Good(r)'
    BY <1>1, <1>2 DEF Good, TypeOK
<1>5. <<stage[r], stage'[r]>> \in StageSteps
    BY <1>1, <1>2 DEF StageSteps, TypeOK
<1> QED  BY <1>1, <1>3, <1>4, <1>5, OneRoom

LEMMA StartLedgers ==
    ASSUME Roster, Roster', Ledgers, NEW u \in Users, Ready(u) \/ NetworkDelayReply(u)
    PROVE  Ledgers' /\ Orderly
<1>1. PICK r \in rooms : room[u] = r /\ stage[r] = "room"
    BY DEF Ready, NetworkDelayReply, InRoom, Roster, RosterAgreement
<1>2. UNCHANGED <<rooms, members, spectator>>
    BY DEF Ready, NetworkDelayReply, CancelNetworkProbe, roster_vars, seat_vars
<1>3. StartMatch(r) \/ UNCHANGED match_vars
    BY <1>1 DEF Ready, BeginStart, NetworkDelayReply, CancelNetworkProbe
<1> QED  BY <1>1, <1>2, <1>3, StartMatchLedgers, SameLedgers

\* A member was recorded in one of the three ledgers of a running match.
LEMMA BarrierLedgers ==
    ASSUME Roster, Roster', Ledgers, NEW r \in rooms, NEW ld, NEW ir, NEW acks,
           ld \subseteq members[r], ir \subseteq Fighters(r), acks \subseteq result_replies[r],
           stage[r] = "loading" => ir = {}, stage[r] = "room" => ld = {} /\ ir = {},
           AdvanceBarriers(r, members[r], ld, ir, acks, phase),
           UNCHANGED <<rooms, members, spectator, result_reports, result_replies>>
    PROVE  Ledgers' /\ Orderly
<1>1. r \in Rooms /\ TypeOK /\ Good(r) /\ (stage[r] # "room" => Fighters(r) # {})
    BY LedgersAreGood DEF Roster, TypeOK, OwnerSeated
<1>2. CASE stage[r] # "room"
    <2> DEFINE ms == members[r]
    <2>1. ms \ spectator # {} /\ ms \ spectator = Fighters(r)
        BY <1>1, <1>2 DEF Fighters
    <2>2. Advanced(r, ms, ld, ir, acks)
        <3>1. AdvanceBarriers(r, ms, ld, ir, acks, phase)
            OBVIOUS
        <3> HIDE DEF ms
        <3> QED  BY <1>2, <2>1, <3>1, AdvanceLedgers
    <2>3. \A q \in Rooms \ {r} : Kept(q)
        BY <2>2 DEF Kept, Fighters, Advanced
    <2>4. Good(r)'
        <3>1. Fighters(r)' = Fighters(r) /\ (Settled(r) => Settled(r)')
            BY DEF Fighters, Settled
        <3> QED  BY <1>1, <1>2, <2>1, <2>2, <3>1 DEF Good, Advanced
    <2> QED  BY <1>1, <2>2, <2>3, <2>4, OneRoom DEF Advanced
<1>3. CASE stage[r] = "room"
    <2>1. StageAfter("room", members[r], members[r] \ spectator, ld, ir, acks) = "room"
        BY StageAfterRoom DEF Stages
    <2>2. /\ stage' = [stage EXCEPT ![r] = "room"]
          /\ loaded' = [loaded EXCEPT ![r] = {}] /\ input_ready' = [input_ready EXCEPT ![r] = {}]
          /\ result_acks' = [result_acks EXCEPT ![r] = acks]
        BY <1>3, <2>1 DEF AdvanceBarriers
    <2>3. \A q \in Rooms \ {r} : Kept(q)
        BY <1>1, <2>2 DEF Kept, Fighters, TypeOK
    <2>4. Good(r)'
        BY <1>1, <1>3, <2>2 DEF Good, TypeOK, Settled
    <2>5. <<stage[r], stage'[r]>> \in StageSteps
        BY <1>1, <1>3, <2>2 DEF StageSteps, TypeOK, Stages
    <2> QED  BY <1>1, <2>3, <2>4, <2>5, OneRoom
<1> QED  BY <1>2, <1>3

LEMMA CountLedgers ==
    ASSUME Roster, Roster', Ledgers, NEW u \in Users, Loaded(u) \/ InputReady(u) \/ Ack(u)
    PROVE  Ledgers' /\ Orderly
<1>1. PICK r \in rooms : room[u] = r /\ r \in Rooms /\ u \in members[r]
    BY DEF Loaded, InputReady, Ack, InRoom, Roster, TypeOK, RosterAgreement
<1>2. UNCHANGED <<rooms, members, spectator, result_reports, result_replies>>
    BY DEF Loaded, InputReady, Ack, roster_vars, seat_vars
<1>3. Good(r)
    BY <1>1, LedgersAreGood DEF Roster, TypeOK
<1>4. /\ loaded[r] \subseteq members[r] /\ input_ready[r] \subseteq Fighters(r)
      /\ result_acks[r] \subseteq result_replies[r]
      /\ stage[r] = "loading" => input_ready[r] = {}
      /\ stage[r] = "room" => loaded[r] = {} /\ input_ready[r] = {}
    BY <1>1, <1>3 DEF Good
<1>5. CASE Loaded(u)
    <2> DEFINE ld == loaded[r] \cup {u}
    <2>1. stage[r] = "loading" /\ ld \subseteq members[r]
          /\ AdvanceBarriers(r, members[r], ld, input_ready[r], result_acks[r], phase)
        BY <1>1, <1>4, <1>5 DEF Loaded
    <2> HIDE DEF ld
    <2> QED  BY <1>2, <1>4, <2>1, BarrierLedgers
<1>6. CASE InputReady(u)
    <2> DEFINE ir == input_ready[r] \cup {u}
    <2>1. stage[r] = "wait_ready" /\ ir \subseteq Fighters(r)
          /\ AdvanceBarriers(r, members[r], loaded[r], ir, result_acks[r], phase)
        BY <1>1, <1>4, <1>6 DEF InputReady, Fighters
    <2> HIDE DEF ir
    <2> QED  BY <1>2, <1>4, <2>1, BarrierLedgers
<1>7. CASE Ack(u)
    <2> DEFINE acks == result_acks[r] \cup {u}
    <2>1. acks \subseteq result_replies[r]
          /\ AdvanceBarriers(r, members[r], loaded[r], input_ready[r], acks, phase)
        BY <1>1, <1>4, <1>7 DEF Ack
    <2> HIDE DEF acks
    <2> QED  BY <1>2, <1>4, <2>1, BarrierLedgers
<1> QED  BY <1>5, <1>6, <1>7

\* A report settles a running battle or is only kept: once it was settled, the
\* reports that did it contradict every later one.
LEMMA ReportLedgers ==
    ASSUME Roster, Roster', Ledgers, NEW u \in Users, Report(u)
    PROVE  Ledgers' /\ Orderly
<1>1. PICK r \in rooms : room[u] = r /\ r \in Rooms /\ u \in Fighters(r)
    BY DEF Report, InRoom, Roster, TypeOK, RosterAgreement, Fighters
<1> DEFINE F == Fighters(r)
           candidate == [result_reports[r] EXCEPT ![u] = F]
<1>2. TypeOK /\ Good(r) /\ F \subseteq Users /\ F \subseteq members[r]
    BY <1>1, LedgersAreGood DEF Roster, TypeOK, Fighters
<1>3. /\ stage[r] \in {"battle", "result"} \/ (stage[r] = "room" /\ result_replies[r] # {})
      /\ result_reports[r][u] = {}
      /\ Complete(candidate, F) => Consistent(candidate, F)
      /\ result_reports' = [result_reports EXCEPT ![r] = candidate]
      /\ IF Complete(candidate, F)
         THEN /\ result_replies' = [result_replies EXCEPT ![r] = members[r]]
              /\ stage' = [stage EXCEPT ![r] = "result"]
         ELSE UNCHANGED <<result_replies, stage>>
      /\ UNCHANGED <<rooms, members, spectator, loaded, input_ready, result_acks>>
    BY <1>1 DEF Report, roster_vars, seat_vars
<1>4. result_reports'[r] = candidate /\ Fighters(r)' = F
    BY <1>1, <1>2, <1>3 DEF TypeOK, Fighters
<1>5. /\ candidate[u] = F
      /\ \A v \in Users \ {u} : candidate[v] = result_reports[r][v]
    BY <1>1, <1>2 DEF TypeOK
<1>6. \A q \in Rooms \ {r} : Kept(q)
    BY <1>1, <1>2, <1>3 DEF Kept, Fighters, TypeOK
<1> HIDE DEF candidate
<1>7. Settled(r) => Settled(r)' /\ ~ Complete(candidate, F)
    <2> SUFFICES ASSUME NEW G \in SUBSET Users, G # {}, \A v \in G : result_reports[r][v] = G
                 PROVE  Settled(r)' /\ ~ Complete(candidate, F)
        BY DEF Settled
    <2>1. u \notin G
        BY <1>3
    <2>2. \A v \in G : candidate[v] = G
        BY <1>5, <2>1
    <2>3. Settled(r)'
        BY <1>4, <2>2 DEF Settled
    <2>4. Complete(candidate, F) => G \subseteq F
        BY <2>2 DEF Complete, Reporters
    <2>5. Complete(candidate, F) => G = F
        BY <1>3, <2>2, <2>4 DEF Consistent
    <2> QED  BY <1>1, <2>1, <2>3, <2>5
<1>8. CASE Complete(candidate, F)
    <2>1. stage[r] = "battle" /\ result_replies[r] = {} /\ result_acks[r] = {}
        BY <1>1, <1>2, <1>3, <1>7, <1>8 DEF Good, Roster, RosterAgreement
    <2>2. Settled(r)'
        BY <1>1, <1>2, <1>3, <1>4, <1>8 DEF Settled, Consistent
    <2>3. /\ stage'[r] = "result" /\ result_replies'[r] = members[r]
          /\ members[r] # {}
        BY <1>1, <1>2, <1>3, <1>8 DEF TypeOK
    <2>4. Good(r)'
        BY <1>1, <1>2, <1>3, <1>4, <2>1, <2>2, <2>3 DEF Good
    <2>5. <<stage[r], stage'[r]>> \in StageSteps
        BY <2>1, <2>3 DEF StageSteps
    <2> QED  BY <1>1, <1>3, <1>6, <2>4, <2>5, OneRoom
<1>9. CASE ~ Complete(candidate, F)
    <2>1. Good(r)'
        BY <1>1, <1>2, <1>3, <1>4, <1>7, <1>9 DEF Good
    <2>2. <<stage[r], stage'[r]>> \in StageSteps
        BY <1>1, <1>2, <1>3, <1>9 DEF StageSteps, TypeOK
    <2> QED  BY <1>1, <1>3, <1>6, <2>1, <2>2, OneRoom
<1> QED  BY <1>8, <1>9

-----------------------------------------------------------------------------
(* The step and the first theorem                                          *)

LEMMA SessionLedgers ==
    ASSUME Roster, Roster', Ledgers, Session
    PROVE  Ledgers' /\ Orderly
<1>1. ASSUME NEW u \in Users, NEW c \in Conns, Enter(u, c) PROVE Ledgers' /\ Orderly
    BY <1>1, SameLedgers DEF Enter, roster_vars, seat_vars
<1>2. ASSUME NEW u \in Users, Disconnect(u) PROVE Ledgers' /\ Orderly
    <2>1. CASE SuspendsOnLoss(u)
        BY <1>2, <2>1, SameLedgers DEF Disconnect, Suspend, roster_vars, seat_vars
    <2>2. CASE ~ SuspendsOnLoss(u)
        BY <1>2, <2>2, LeaveLedgers DEF Disconnect
    <2> QED  BY <2>1, <2>2
<1>3. ASSUME NEW u \in Users, RegisterP2P(u) \/ LoseP2P(u) \/ Bind(u) PROVE Ledgers' /\ Orderly
    BY <1>3, SameLedgers DEF RegisterP2P, LoseP2P, Bind, roster_vars, seat_vars
<1> QED  BY <1>1, <1>2, <1>3 DEF Session

LEMMA ExpireLedgers ==
    ASSUME Roster, Roster', Ledgers, Expire
    PROVE  Ledgers' /\ Orderly
<1>1. ASSUME NEW r \in Rooms, ExpirePublicDeadline(r) PROVE Ledgers' /\ Orderly
    <2>1. owner[r] \in Users
        BY <1>1 DEF ExpirePublicDeadline, Roster, OwnerSeated, TypeOK
    <2> QED  BY <1>1, <2>1, LeaveLedgers DEF ExpirePublicDeadline, Remove
<1>2. ASSUME NEW r \in Rooms, ExpireSeat(r) \/ ExpireProbe(r) PROVE Ledgers' /\ Orderly
    BY <1>2, SameLedgers DEF ExpireSeat, ExpireProbe, CancelNetworkProbe, roster_vars, seat_vars
<1>3. ASSUME NEW u \in Users, ExpireSuspended(u) PROVE Ledgers' /\ Orderly
    BY <1>3, LeaveLedgers DEF ExpireSuspended, Remove
<1>4. ASSUME NEW u \in Users, ExpireInvite(u) PROVE Ledgers' /\ Orderly
    BY <1>4, SameLedgers DEF ExpireInvite, roster_vars, seat_vars
<1> QED  BY <1>1, <1>2, <1>3, <1>4 DEF Expire

LEMMA FlowLedgers ==
    ASSUME Roster, Roster', Ledgers, Flow
    PROVE  Ledgers' /\ Orderly
<1>1. ASSUME NEW u \in Users, Unready(u) PROVE Ledgers' /\ Orderly
    BY <1>1, SameLedgers DEF Unready, roster_vars, seat_vars
<1> QED  BY <1>1, StartLedgers, CountLedgers, ReportLedgers, ToggleLedgers DEF Flow

LEMMA RequestLedgers ==
    ASSUME Roster, Roster', Ledgers, Requests \/ Exchange
    PROVE  Ledgers' /\ Orderly
<1>1. ASSUME NEW u \in Users,
             \/ LeaveRoom(u)
             \/ \E t \in Users : RemoveMember(u, t)
      PROVE  Ledgers' /\ Orderly
    BY <1>1, LeaveLedgers DEF LeaveRoom, RemoveMember, Remove
<1>2. ASSUME NEW u \in Users,
             \/ ChangeSettings(u) \/ DropInvite(u)
             \/ \E t \in Users : TransferOwner(u, t) \/ Invite(u, t) \/ ProposeSwap(u, t)
             \/ \E t \in {0, 1} : ChangeTeam(u, t)
             \/ \E k \in Slots : MoveSeat(u, k)
             \/ AcceptSwap(u) \/ RejectSwap(u)
      PROVE  UNCHANGED <<rooms, members, spectator, match_vars>>
    BY <1>2 DEF ChangeSettings, DropInvite, TransferOwner, Invite, ProposeSwap, ChangeTeam,
                MoveSeat, AcceptSwap, RejectSwap, roster_vars, seat_vars
<1> QED  BY <1>1, <1>2, SameLedgers, AdmissionLedgers DEF Requests, Exchange

LEMMA LedgersStep ==
    ASSUME Roster, Ledgers, [Next]_vars
    PROVE  Ledgers' /\ Orderly
<1>1. Roster'
    BY RosterStep
<1>2. CASE Next
    BY <1>1, <1>2, SessionLedgers, ExpireLedgers, FlowLedgers, RequestLedgers DEF Next
<1>3. CASE UNCHANGED vars
    BY <1>3, SameLedgers DEF vars, match_vars, result_vars
<1> QED  BY <1>2, <1>3

\* The ledgers stay consistent with the rosters and with the stages.
THEOREM LedgersInvariant == Spec => [](Roster /\ Ledgers)
<1>1. Init => Roster /\ Ledgers
    BY InitRoster, InitLedgers
<1>2. Roster /\ Ledgers /\ [Next]_vars => (Roster /\ Ledgers)'
    BY RosterStep, LedgersStep
<1> QED  BY <1>1, <1>2, PTL DEF Spec

\* advance_barriers() always finds its way: whoever leaves or reports, no
\* barrier waits for somebody who is gone and none stays shut once everybody
\* it waits for has passed.
THEOREM BarriersAlwaysOpen == Spec => []BarriersOpen
<1>1. Ledgers => BarriersOpen
    BY DEF Ledgers
<1> QED  BY <1>1, LedgersInvariant, PTL

-----------------------------------------------------------------------------
(* The order of the stages                                                 *)

\* A spectator who goes during a match takes nobody along: either the match
\* goes on without him, or the room had no other member.
LEMMA SpectatorLeavesAlone ==
    ASSUME Roster, NEW u \in spectator, room[u] # None, stage[room[u]] # "room",
           LeaveRoom(u) \/ Disconnect(u)
    PROVE  \A v \in Users \ {u} : room'[v] = room[v]
<1>1. u \in Users /\ TypeOK
    BY DEF Roster, TypeOK
<1>2. PICK r \in rooms : room[u] = r /\ r \in Rooms
    BY <1>1 DEF Roster, TypeOK, RosterAgreement
<1>3. \E ph : Leave(u, ph)
    BY <1>1 DEF LeaveRoom, Remove, Disconnect, SuspendsOnLoss
<1>4. Departing(u, r) = {u}
    BY DEF Departing
<1>5. Unseat({u})
    BY <1>2, <1>3, <1>4 DEF Leave, LeaveEmpty, LeaveObserver, LeaveWaiting
<1> QED  BY <1>5 DEF Unseat

\* Loading, waiting for input, battle, result and back: no report, however
\* late, and no departure makes a room skip a stage or go back to another.
THEOREM StagesInOrder == Spec => StageOrder
<1>1. Roster /\ Ledgers /\ [Next]_vars =>
          [/\ \A r \in rooms \cap rooms' :
                  <<stage[r], stage'[r]>> \in
                      {<<s, s>> : s \in Stages} \cup
                      {<<"room", "loading">>, <<"loading", "wait_ready">>, <<"wait_ready", "battle">>,
                       <<"battle", "result">>, <<"result", "room">>}
           /\ \A u \in spectator :
                  /\ room[u] # None
                  /\ stage[room[u]] # "room"
                  /\ LeaveRoom(u) \/ Disconnect(u)
                  => \A v \in Users \ {u} : room'[v] = room[v]]_vars
    BY LedgersStep, SpectatorLeavesAlone DEF Orderly, StageSteps
<1> QED  BY <1>1, LedgersInvariant, PTL DEF Spec, StageOrder

-----------------------------------------------------------------------------
(* The members of a room and their connections                             *)

\* MembersServed, said of one user.
Served(u) ==
    /\ room[u] # None /\ u \notin suspended => game[u] # None /\ phase[u] = PhaseOf(stage[room[u]])
    /\ room[u] = None => phase[u] \in {"LOBBY", "CLOSED"}
    /\ u \in suspended => room[u] # None /\ stage[room[u]] = "room" /\ ~ Bound(u)

LEMMA ServedUsers == Roster => (MembersServed <=> \A u \in Users : Served(u))
<1> SUFFICES ASSUME Roster PROVE MembersServed <=> \A u \in Users : Served(u)
    OBVIOUS
<1>1. TypeOK /\ RosterAgreement
    BY DEF Roster
<1>2. ASSUME MembersServed, NEW u \in Users PROVE Served(u)
    BY <1>1, <1>2 DEF MembersServed, Served, RosterAgreement
<1>3. ASSUME \A u \in Users : Served(u) PROVE MembersServed
    <2>1. ASSUME NEW r \in rooms, NEW u \in members[r] \ suspended
          PROVE  game[u] # None /\ phase[u] = PhaseOf(stage[r])
        <3>1. u \in Users /\ room[u] = r /\ r # None
            BY <1>1, RoomAssumption DEF RosterAgreement, TypeOK
        <3> QED  BY <1>3, <3>1, <2>1 DEF Served
    <2> QED  BY <1>1, <1>3, <2>1 DEF MembersServed, Served, TypeOK
<1> QED  BY <1>2, <1>3

LEMMA ServedNext == (Roster => (MembersServed <=> \A u \in Users : Served(u)))'
BY ServedUsers, PTL

\* A user a step has nothing to do with.
Untouched(v) ==
    /\ room'[v] = room[v] /\ game'[v] = game[v] /\ phase'[v] = phase[v]
    /\ v \in suspended' <=> v \in suspended
    /\ v \in suspended => p2p'[v] = p2p[v]
    /\ room[v] # None => stage'[room[v]] = stage[room[v]]

LEMMA UntouchedServed ==
    ASSUME NEW v, Served(v), Untouched(v)
    PROVE  Served(v)'
BY DEF Served, Untouched, Bound

\* Steps that move nobody, stages and phases included.
LEMMA SameServed ==
    ASSUME Roster, Roster', MembersServed,
           UNCHANGED <<room, game, phase, suspended, stage>>,
           \A v \in suspended : p2p'[v] # "bound"
    PROVE  MembersServed'
<1>1. \A v \in Users : Served(v)'
    BY ServedUsers DEF Served, Bound
<1> QED  BY <1>1, ServedNext

\* Whoever stays in the room, or is taken along, was served and still is.
LEMMA LeaveServed ==
    ASSUME Roster, Roster', MembersServed, NEW u \in Users, NEW ph \in {"LOBBY", "CLOSED"},
           Leave(u, ph), \A v \in Users \ {u} : game'[v] = game[v] /\ p2p'[v] = p2p[v]
    PROVE  MembersServed'
<1>1. TypeOK /\ RosterAgreement /\ \A v \in Users : Served(v)
    BY ServedUsers DEF Roster
<1>2. suspended' = suspended \ {u}
    BY DEF Leave
<1>3. CASE room[u] = None
    <2>1. phase' = [phase EXCEPT ![u] = ph] /\ room' = room /\ stage' = stage
        BY <1>3 DEF Leave, roster_vars, match_vars
    <2>2. Served(u)'
        BY <1>1, <1>2, <1>3, <2>1 DEF TypeOK, Served
    <2>3. \A v \in Users \ {u} : Untouched(v)
        BY <1>1, <1>2, <2>1 DEF TypeOK, Untouched
    <2> QED  BY <1>1, <2>2, <2>3, UntouchedServed, ServedNext
<1>4. CASE room[u] # None
    <2>1. PICK r \in rooms : room[u] = r /\ r \in Rooms /\ u \in members[r]
        BY <1>1, <1>4 DEF RosterAgreement, TypeOK
    <2>2. \A v \in Users : v \in members[r] <=> room[v] = r
        BY <1>1, <2>1 DEF RosterAgreement
    <2>3. stage[r] # "room" => \A v \in members[r] : v \notin suspended /\ game[v] # None
        BY <1>1, <1>4, <2>1, <2>2 DEF Served, TypeOK
    <2>4. CASE LeaveEmpty(u, r, ph)
        <3>1. /\ \A v \in Users : room'[v] = IF v \in members[r] THEN None ELSE room[v]
              /\ \A v \in Users : phase'[v] = IF v = u THEN ph
                                              ELSE IF v \in members[r] /\ game[v] # None THEN "LOBBY"
                                              ELSE phase[v]
              /\ stage' = [stage EXCEPT ![r] = "room"]
              /\ stage[r] # "room" \/ members[r] = {u}
            BY <2>4 DEF LeaveEmpty, Unseat, Unlist, Departing
        <3>2. \A v \in members[r] : Served(v)'
            BY <1>1, <1>2, <2>1, <2>3, <3>1 DEF Served, TypeOK
        <3>3. \A v \in Users \ members[r] : Untouched(v)
            BY <1>1, <1>2, <2>1, <2>2, <3>1 DEF Untouched, TypeOK
        <3> QED  BY <1>1, <3>2, <3>3, UntouchedServed, ServedNext
    <2>5. CASE LeaveObserver(u, r, ph)
        <3> DEFINE ms == members[r] \ {u}
                   ph2 == [phase EXCEPT ![u] = ph]
                   st == StageAfter(stage[r], ms, ms \ spectator, loaded[r] \ {u},
                                    input_ready[r] \ {u}, result_acks[r] \ {u})
        <3>1. /\ stage' = [stage EXCEPT ![r] = st]
              /\ phase' = [v \in Users |-> IF v \in ms /\ st # stage[r] THEN PhaseOf(st) ELSE ph2[v]]
            BY <2>5 DEF LeaveObserver, AdvanceBarriers
        <3> HIDE DEF st
        <3>2. /\ \A v \in Users : room'[v] = IF v = u THEN None ELSE room[v]
              /\ stage[r] # "room"
            BY <2>5 DEF LeaveObserver, Unseat
        <3>3. Served(u)'
            BY <1>1, <1>2, <3>1, <3>2 DEF Served, TypeOK
        <3>4. \A v \in ms : Served(v)'
            BY <1>1, <1>2, <1>4, <2>1, <2>2, <2>3, <3>1, <3>2 DEF Served, TypeOK
        <3>5. \A v \in Users \ members[r] : Untouched(v)
            BY <1>1, <1>2, <2>1, <2>2, <3>1, <3>2 DEF Untouched, TypeOK
        <3> QED  BY <1>1, <3>3, <3>4, <3>5, UntouchedServed, ServedNext
    <2>6. CASE LeaveWaiting(u, r, ph)
        <3>1. /\ \A v \in Users : room'[v] = IF v = u THEN None ELSE room[v]
              /\ phase' = [phase EXCEPT ![u] = ph] /\ stage' = stage
            BY <2>6 DEF LeaveWaiting, Unseat
        <3>2. Served(u)'
            BY <1>1, <1>2, <3>1 DEF Served, TypeOK
        <3>3. \A v \in Users \ {u} : Untouched(v)
            BY <1>1, <1>2, <3>1 DEF Untouched, TypeOK
        <3> QED  BY <1>1, <3>2, <3>3, UntouchedServed, ServedNext
    <2> QED  BY <1>4, <2>1, <2>4, <2>5, <2>6 DEF Leave
<1> QED  BY <1>3, <1>4

LEMMA RemoveServed ==
    ASSUME Roster, Roster', MembersServed, NEW u \in Users, Remove(u)
    PROVE  MembersServed'
<1>1. (IF game[u] = None THEN "CLOSED" ELSE "LOBBY") \in {"LOBBY", "CLOSED"}
    OBVIOUS
<1>2. UNCHANGED <<game, p2p>>
    BY DEF Remove, engine_vars
<1> QED  BY <1>1, <1>2, LeaveServed DEF Remove

LEMMA SessionServed ==
    ASSUME Roster, Roster', MembersServed, Session
    PROVE  MembersServed'
<1>1. TypeOK /\ RosterAgreement /\ \A v \in Users : Served(v)
    BY ServedUsers DEF Roster
<1>2. ASSUME NEW u \in Users, NEW c \in Conns, Enter(u, c) PROVE MembersServed'
    <2>1. Served(u)'
        BY <1>1, <1>2, RoomAssumption DEF Enter, Served, TypeOK, Bound, roster_vars, match_vars
    <2>2. \A v \in Users \ {u} : Untouched(v)
        BY <1>1, <1>2 DEF Enter, Untouched, TypeOK, roster_vars, match_vars
    <2> QED  BY <1>1, <2>1, <2>2, UntouchedServed, ServedNext
<1>3. ASSUME NEW u \in Users, Disconnect(u) PROVE MembersServed'
    <2>1. CASE SuspendsOnLoss(u)
        <3>1. /\ suspended' = suspended \cup {u} /\ phase' = [phase EXCEPT ![u] = "CLOSED"]
              /\ game' = [game EXCEPT ![u] = None] /\ p2p' = [p2p EXCEPT ![u] = "none"]
              /\ room' = room /\ stage' = stage
              /\ room[u] # None /\ stage[room[u]] = "room"
            BY <1>3, <2>1 DEF Disconnect, Suspend, SuspendsOnLoss, roster_vars, match_vars
        <3>2. Served(u)'
            BY <1>1, <3>1 DEF Served, TypeOK, Bound
        <3>3. \A v \in Users \ {u} : Untouched(v)
            BY <1>1, <3>1 DEF Untouched, TypeOK
        <3> QED  BY <1>1, <3>2, <3>3, UntouchedServed, ServedNext
    <2>2. CASE ~ SuspendsOnLoss(u)
        <3>1. \A v \in Users \ {u} : game'[v] = game[v] /\ p2p'[v] = p2p[v]
            BY <1>1, <1>3 DEF Disconnect, TypeOK
        <3> QED  BY <1>3, <2>2, <3>1, LeaveServed DEF Disconnect
    <2> QED  BY <2>1, <2>2
<1>4. ASSUME NEW u \in Users, RegisterP2P(u) \/ LoseP2P(u) PROVE MembersServed'
    <2>1. \A v \in suspended : p2p'[v] # "bound"
        BY <1>1, <1>4 DEF RegisterP2P, LoseP2P, TypeOK, Served, Bound
    <2> QED  BY <1>4, <2>1, SameServed DEF RegisterP2P, LoseP2P, roster_vars, match_vars
<1>5. ASSUME NEW u \in Users, Bind(u) PROVE MembersServed'
    <2>1. PhaseOf("room") = "ROOM"
        BY DEF PhaseOf
    <2>2. Served(u)'
        BY <1>1, <1>5, <2>1 DEF Bind, Served, TypeOK, roster_vars, match_vars
    <2>3. \A v \in Users \ {u} : Untouched(v)
        BY <1>1, <1>5 DEF Bind, Untouched, TypeOK, roster_vars, match_vars
    <2> QED  BY <1>1, <2>2, <2>3, UntouchedServed, ServedNext
<1> QED  BY <1>2, <1>3, <1>4, <1>5 DEF Session

\* Nobody is suspended when a match starts: the host's readiness and the last
\* reply to the probe look at every member.
LEMMA StartMatchServed ==
    ASSUME Roster, Roster', MembersServed, NEW r \in rooms, stage[r] = "room", StartMatch(r),
           members[r] \cap suspended = {},
           UNCHANGED <<room, game, p2p, suspended>>
    PROVE  MembersServed'
<1>1. TypeOK /\ RosterAgreement /\ r \in Rooms /\ \A v \in Users : Served(v)
    BY ServedUsers DEF Roster, TypeOK
<1>2. /\ stage' = [stage EXCEPT ![r] = "loading"]
      /\ phase' = [v \in Users |-> IF v \in members[r] THEN "LOADING" ELSE phase[v]]
    BY DEF StartMatch
<1>3. \A v \in Users : v \in members[r] <=> room[v] = r
    BY <1>1 DEF RosterAgreement
<1>4. PhaseOf("loading") = "LOADING" /\ r # None
    BY <1>1, RoomAssumption DEF PhaseOf
<1>5. \A v \in members[r] : Served(v)'
    BY <1>1, <1>2, <1>3, <1>4 DEF Served, TypeOK
<1>6. \A v \in Users \ members[r] : Untouched(v)
    BY <1>1, <1>2, <1>3 DEF Untouched, TypeOK
<1> QED  BY <1>1, <1>5, <1>6, UntouchedServed, ServedNext

LEMMA StartServed ==
    ASSUME Roster, Roster', MembersServed, NEW u \in Users, Ready(u) \/ NetworkDelayReply(u)
    PROVE  MembersServed'
<1>1. PICK r \in rooms : room[u] = r /\ stage[r] = "room" /\ r \in Rooms
    BY DEF Ready, NetworkDelayReply, InRoom, Roster, TypeOK, RosterAgreement
<1>2. UNCHANGED <<room, game, p2p, suspended>>
    BY DEF Ready, NetworkDelayReply, CancelNetworkProbe, roster_vars, engine_vars
<1>3. \/ StartMatch(r) /\ members[r] \cap suspended = {}
      \/ UNCHANGED <<phase, stage>>
    BY <1>1 DEF Ready, BeginStart, StartsMatch, NetworkDelayReply, ProbeIntact, CancelNetworkProbe,
                match_vars
<1>4. \A v \in suspended : p2p'[v] # "bound"
    BY <1>2 DEF MembersServed, Bound
<1> QED  BY <1>1, <1>2, <1>3, <1>4, StartMatchServed, SameServed

\* The barriers move the whole room on, and put everybody in the phase of its
\* new stage.
LEMMA BarrierServed ==
    ASSUME Roster, Roster', MembersServed, NEW r \in rooms, NEW ld, NEW ir, NEW acks,
           AdvanceBarriers(r, members[r], ld, ir, acks, phase),
           UNCHANGED <<room, game, p2p, suspended>>
    PROVE  MembersServed'
<1> DEFINE st == StageAfter(stage[r], members[r], members[r] \ spectator, ld, ir, acks)
<1>1. TypeOK /\ RosterAgreement /\ r \in Rooms /\ r # None /\ \A v \in Users : Served(v)
    BY ServedUsers, RoomAssumption DEF Roster, TypeOK
<1>2. /\ stage' = [stage EXCEPT ![r] = st]
      /\ phase' = [v \in Users |-> IF v \in members[r] /\ st # stage[r] THEN PhaseOf(st) ELSE phase[v]]
    BY DEF AdvanceBarriers
<1>3. stage[r] = "room" => st = "room"
    BY StageAfterRoom DEF Stages
<1> HIDE DEF st
<1>4. \A v \in Users : v \in members[r] <=> room[v] = r
    BY <1>1 DEF RosterAgreement
<1>5. \A v \in members[r] : Served(v)'
    BY <1>1, <1>2, <1>3, <1>4 DEF Served, TypeOK, Bound
<1>6. \A v \in Users \ members[r] : Untouched(v)
    BY <1>1, <1>2, <1>4 DEF Untouched, TypeOK
<1> QED  BY <1>1, <1>5, <1>6, UntouchedServed, ServedNext

LEMMA CountServed ==
    ASSUME Roster, Roster', MembersServed, NEW u \in Users, Loaded(u) \/ InputReady(u) \/ Ack(u)
    PROVE  MembersServed'
<1>1. room[u] \in rooms
    BY DEF Loaded, InputReady, Ack, InRoom, Roster, RosterAgreement
<1>2. UNCHANGED <<room, game, p2p, suspended>>
    BY DEF Loaded, InputReady, Ack, roster_vars, engine_vars
<1>3. CASE Loaded(u)
    <2> DEFINE ld == loaded[room[u]] \cup {u}
    <2>1. AdvanceBarriers(room[u], members[room[u]], ld, input_ready[room[u]], result_acks[room[u]], phase)
        BY <1>3 DEF Loaded
    <2> HIDE DEF ld
    <2> QED  BY <1>1, <1>2, <2>1, BarrierServed
<1>4. CASE InputReady(u)
    <2> DEFINE ir == input_ready[room[u]] \cup {u}
    <2>1. AdvanceBarriers(room[u], members[room[u]], loaded[room[u]], ir, result_acks[room[u]], phase)
        BY <1>4 DEF InputReady
    <2> HIDE DEF ir
    <2> QED  BY <1>1, <1>2, <2>1, BarrierServed
<1>5. CASE Ack(u)
    <2> DEFINE acks == result_acks[room[u]] \cup {u}
    <2>1. AdvanceBarriers(room[u], members[room[u]], loaded[room[u]], input_ready[room[u]], acks, phase)
        BY <1>5 DEF Ack
    <2> HIDE DEF acks
    <2> QED  BY <1>1, <1>2, <2>1, BarrierServed
<1> QED  BY <1>3, <1>4, <1>5

\* The result stage keeps the phase of the battle, and only a battle gets there.
LEMMA ReportServed ==
    ASSUME Roster, Roster', MembersServed, Ledgers, NEW u \in Users, Report(u)
    PROVE  MembersServed'
<1>1. PICK r \in rooms : room[u] = r /\ r \in Rooms
    BY DEF Report, InRoom, Roster, TypeOK, RosterAgreement
<1>2. TypeOK /\ \A v \in Users : Served(v)
    BY ServedUsers DEF Roster
<1>3. /\ stage' = stage \/ stage' = [stage EXCEPT ![r] = "result"]
      /\ UNCHANGED <<rooms, room, game, p2p, phase, suspended>>
    BY <1>1 DEF Report, roster_vars, engine_vars
<1>4. stage'[r] # stage[r] => stage[r] = "battle" /\ stage'[r] = "result"
    <2>1. <<stage[r], stage'[r]>> \in StageSteps
        BY <1>1, <1>3, ReportLedgers DEF Orderly
    <2> QED  BY <1>1, <1>2, <1>3, <2>1 DEF StageSteps, TypeOK
<1>5. PhaseOf("battle") = PhaseOf("result")
    BY DEF PhaseOf
<1>6. \A v \in Users : Served(v)'
    BY <1>1, <1>2, <1>3, <1>4, <1>5 DEF Served, TypeOK, Bound
<1> QED  BY <1>6, ServedNext

LEMMA InstallServed ==
    ASSUME Roster, Roster', MembersServed, NEW u \in Users, NEW r \in Rooms, NEW watch \in BOOLEAN,
           room[u] = None, game[u] # None, Install(r, u, watch)
    PROVE  MembersServed'
<1>1. TypeOK /\ \A v \in Users : Served(v)
    BY ServedUsers DEF Roster
<1>2. /\ room' = [room EXCEPT ![u] = r] /\ phase' = [phase EXCEPT ![u] = "ROOM"]
      /\ stage[r] = "room" /\ UNCHANGED <<game, p2p, stage, suspended>>
    BY DEF Install, CanInstall, engine_vars, match_vars
<1>3. PhaseOf("room") = "ROOM" /\ r # None
    BY RoomAssumption DEF PhaseOf
<1>4. Served(u)'
    BY <1>1, <1>2, <1>3 DEF Served, TypeOK
<1>5. \A v \in Users \ {u} : Untouched(v)
    BY <1>1, <1>2 DEF Untouched, TypeOK
<1> QED  BY <1>1, <1>4, <1>5, UntouchedServed, ServedNext

LEMMA AdmissionServed ==
    ASSUME Roster, Roster', MembersServed, NEW u \in Users,
           \/ \E r \in Rooms, w \in BOOLEAN : Create(u, r, w) \/ Join(u, r, w)
           \/ AcceptInvite(u)
    PROVE  MembersServed'
<1>1. CASE \E r \in Rooms, w \in BOOLEAN : Create(u, r, w) \/ Join(u, r, w)
    BY <1>1, InstallServed DEF Create, Join, InLobby, Handled
<1>2. CASE AcceptInvite(u)
    <2>1. invites[u].room \in Rooms /\ room[u] = None /\ game[u] # None
        BY <1>2 DEF Roster, TypeOK, AcceptInvite, InviteStands, Answers, Handled
    <2> QED  BY <1>2, <2>1, InstallServed DEF AcceptInvite
<1> QED  BY <1>1, <1>2

LEMMA ServedStep ==
    ASSUME Roster, Ledgers, MembersServed, [Next]_vars
    PROVE  MembersServed'
<1>1. Roster' /\ TypeOK
    BY RosterStep DEF Roster
<1>2. \A v \in suspended : p2p[v] # "bound"
    BY DEF MembersServed, Bound
<1>3. CASE Session
    BY <1>1, <1>3, SessionServed
<1>4. CASE Expire
    <2>1. ASSUME NEW r \in Rooms, ExpirePublicDeadline(r) PROVE MembersServed'
        <3>1. owner[r] \in Users
            BY <2>1 DEF ExpirePublicDeadline, Roster, OwnerSeated, TypeOK
        <3> QED  BY <1>1, <2>1, <3>1, RemoveServed DEF ExpirePublicDeadline
    <2>2. ASSUME NEW u \in Users, ExpireSuspended(u) PROVE MembersServed'
        BY <1>1, <2>2, RemoveServed DEF ExpireSuspended
    <2>3. ASSUME \/ \E r \in Rooms : ExpireSeat(r) \/ ExpireProbe(r)
                 \/ \E u \in Users : ExpireInvite(u)
          PROVE  UNCHANGED <<room, game, phase, suspended, stage, p2p>>
        BY <2>3 DEF ExpireSeat, ExpireProbe, CancelNetworkProbe, ExpireInvite, roster_vars,
                    engine_vars, match_vars
    <2> QED  BY <1>1, <1>2, <1>4, <2>1, <2>2, <2>3, SameServed DEF Expire
<1>5. CASE Flow
    <2>1. ASSUME NEW u \in Users, Unready(u) \/ ToggleSpectator(u)
          PROVE  UNCHANGED <<room, game, phase, suspended, stage, p2p>>
        BY <2>1 DEF Unready, ToggleSpectator, roster_vars, engine_vars, match_vars
    <2> QED  BY <1>1, <1>2, <1>5, <2>1, SameServed, StartServed, CountServed, ReportServed DEF Flow
<1>6. CASE Requests \/ Exchange
    <2>1. ASSUME NEW u \in Users, LeaveRoom(u) \/ \E t \in Users : RemoveMember(u, t)
          PROVE  MembersServed'
        BY <1>1, <2>1, RemoveServed DEF LeaveRoom, RemoveMember
    <2>2. ASSUME NEW u \in Users,
                 \/ ChangeSettings(u) \/ DropInvite(u)
                 \/ \E t \in Users : TransferOwner(u, t) \/ Invite(u, t) \/ ProposeSwap(u, t)
                 \/ \E t \in {0, 1} : ChangeTeam(u, t)
                 \/ \E k \in Slots : MoveSeat(u, k)
                 \/ AcceptSwap(u) \/ RejectSwap(u)
          PROVE  UNCHANGED <<room, game, phase, suspended, stage, p2p>>
        BY <2>2 DEF ChangeSettings, DropInvite, TransferOwner, Invite, ProposeSwap, ChangeTeam,
                    MoveSeat, AcceptSwap, RejectSwap, roster_vars, engine_vars, match_vars
    <2> QED  BY <1>1, <1>2, <1>6, <2>1, <2>2, SameServed, AdmissionServed DEF Requests, Exchange
<1>7. CASE UNCHANGED vars
    BY <1>1, <1>2, <1>7, SameServed DEF vars
<1> QED  BY <1>3, <1>4, <1>5, <1>6, <1>7 DEF Next

LEMMA InitServed == Init => MembersServed
BY DEF Init, MembersServed

\* Whatever a handler or expire() writes to engine.game of a member finds a
\* connection there, in the phase of the room; a lost seat is only ever kept
\* in a waiting room, without a bound lease.
THEOREM MembersAlwaysServed == Spec => []MembersServed
<1>1. Init => Roster /\ Ledgers /\ MembersServed
    BY InitRoster, InitLedgers, InitServed
<1>2. Roster /\ Ledgers /\ MembersServed /\ [Next]_vars => (Roster /\ Ledgers /\ MembersServed)'
    BY RosterStep, LedgersStep, ServedStep
<1> QED  BY <1>1, <1>2, PTL DEF Spec

-----------------------------------------------------------------------------
(* The start of a match                                                    *)

\* A start probe is bound to a roster in which every fighter was ready.
ProbeReady ==
    \A r \in Rooms : network_probe[r] # None =>
        \A e \in network_probe[r].identity.roster : ~ e.spectator => e.ready

LEMMA InitProbeReady == Init => ProbeReady
BY DEF Init, ProbeReady

\* What an identity says of the roster it is made from.
LEMMA IdentityOf ==
    ASSUME NEW r, NEW rd
    PROVE  \A e \in IdentityWith(r, rd).roster :
               /\ e.uid \in members[r]
               /\ e.spectator <=> e.uid \in spectator
               /\ e.ready <=> e.uid \in rd
<1>1. SUFFICES ASSUME NEW e \in IdentityWith(r, rd).roster
      PROVE  /\ e.uid \in members[r]
             /\ e.spectator <=> e.uid \in spectator
             /\ e.ready <=> e.uid \in rd
    OBVIOUS
<1>2. /\ e.uid \in members[r]
      /\ e.spectator = (e.uid \in spectator) /\ e.ready = (e.uid \in rd)
    BY DEF IdentityWith
<1>3. (e.spectator <=> e.uid \in spectator) /\ (e.ready <=> e.uid \in rd)
    BY <1>2, Zenon
<1> QED  BY <1>2, <1>3

\* Steps that make no probe.
LEMMA FewerProbes ==
    ASSUME ProbeReady, \A r \in Rooms : network_probe'[r] \in {None, network_probe[r]}
    PROVE  ProbeReady'
BY DEF ProbeReady

LEMMA LeaveProbe ==
    ASSUME TypeOK, NEW u \in Users, NEW ph, Leave(u, ph)
    PROVE  \A r \in Rooms : network_probe'[r] \in {None, network_probe[r]}
BY DEF Leave, TypeOK, pending_vars

\* The host asks for the start: the others are ready, and so is he from now on.
LEMMA ReadyProbe ==
    ASSUME Roster, ProbeReady, NEW u \in Users, Ready(u)
    PROVE  ProbeReady'
<1>1. PICK r \in Rooms : room[u] = r
    BY DEF Ready, InRoom, Roster, TypeOK
<1> DEFINE rd == ready \cup {u}
           i == IdentityWith(r, rd)
<1>2. TypeOK
    BY DEF Roster
<1>3. CASE StartsMatch(u, r) /\ NetworkProbe
    <2>1. \A e \in i.roster : ~ e.spectator => e.ready
        <3>1. Fighters(r) \subseteq rd
            BY <1>3 DEF StartsMatch
        <3>2. ASSUME NEW e \in i.roster, ~ e.spectator PROVE e.ready
            <4> HIDE DEF rd
            <4>1. e.uid \in members[r] /\ e.uid \notin spectator
                BY <3>2, IdentityOf
            <4>2. e.uid \in rd
                BY <3>1, <4>1 DEF Fighters
            <4> QED  BY <4>2, IdentityOf
        <3> QED  BY <3>2
    <2>2. network_probe' = [network_probe EXCEPT ![r] =
              IF @ = None THEN [identity |-> i, pending |-> Fighters(r)] ELSE @]
        BY <1>1, <1>3 DEF Ready, BeginStart
    <2> HIDE DEF i
    <2>3. /\ \A q \in Rooms \ {r} : network_probe'[q] = network_probe[q]
          /\ network_probe[r] # None => network_probe'[r] = network_probe[r]
          /\ network_probe[r] = None => network_probe'[r].identity = i
        BY <1>2, <2>2 DEF TypeOK
    <2> QED  BY <2>1, <2>3 DEF ProbeReady
<1>4. CASE StartsMatch(u, r) /\ ~ NetworkProbe
    <2>1. network_probe' = [network_probe EXCEPT ![r] = None]
        BY <1>1, <1>4 DEF Ready, BeginStart, StartMatch
    <2> QED  BY <1>2, <2>1, FewerProbes DEF TypeOK
<1>5. CASE ~ StartsMatch(u, r)
    BY <1>1, <1>5, FewerProbes DEF Ready, pending_vars
<1> QED  BY <1>3, <1>4, <1>5

LEMMA ReplyProbe ==
    ASSUME Roster, ProbeReady, NEW u \in Users, NetworkDelayReply(u)
    PROVE  ProbeReady'
<1>1. PICK r \in Rooms : room[u] = r
    BY DEF NetworkDelayReply, InRoom, Roster, TypeOK
<1> DEFINE left == network_probe[r].pending \ {u}
<1>2. TypeOK /\ network_probe[r] \in Probes
    BY <1>1 DEF Roster, TypeOK, NetworkDelayReply
<1>3. \/ network_probe' = [network_probe EXCEPT ![r] = None]
      \/ network_probe' = [network_probe EXCEPT ![r].pending = left]
    BY <1>1 DEF NetworkDelayReply, StartMatch, CancelNetworkProbe
<1> HIDE DEF left
<1>4. CASE network_probe' = [network_probe EXCEPT ![r] = None]
    BY <1>2, <1>4, FewerProbes DEF TypeOK
<1>5. CASE network_probe' = [network_probe EXCEPT ![r].pending = left]
    <2>1. /\ \A q \in Rooms \ {r} : network_probe'[q] = network_probe[q]
          /\ network_probe'[r].identity = network_probe[r].identity
        BY <1>2, <1>5 DEF TypeOK, Probes
    <2>2. network_probe[r] # None
        BY <1>1 DEF NetworkDelayReply
    <2> QED  BY <2>1, <2>2 DEF ProbeReady
<1> QED  BY <1>3, <1>4, <1>5

LEMMA ProbeReadyStep ==
    ASSUME Roster, ProbeReady, [Next]_vars
    PROVE  ProbeReady'
<1>1. TypeOK
    BY DEF Roster
<1>2. ASSUME NEW u \in Users, NEW ph, Leave(u, ph) PROVE ProbeReady'
    BY <1>1, <1>2, LeaveProbe, FewerProbes
<1>3. CASE Session
    <2>1. ASSUME NEW u \in Users, Disconnect(u) PROVE ProbeReady'
        BY <1>2, <2>1, FewerProbes DEF Disconnect, Suspend, pending_vars
    <2>2. ASSUME NEW u \in Users,
                 RegisterP2P(u) \/ LoseP2P(u) \/ Bind(u) \/ \E c \in Conns : Enter(u, c)
          PROVE  UNCHANGED network_probe
        BY <2>2 DEF RegisterP2P, LoseP2P, Bind, Enter, pending_vars
    <2> QED  BY <1>3, <2>1, <2>2, FewerProbes DEF Session
<1>4. CASE Expire
    <2>1. ASSUME NEW r \in Rooms, ExpirePublicDeadline(r) PROVE ProbeReady'
        <3>1. owner[r] \in Users
            BY <2>1 DEF ExpirePublicDeadline, Roster, OwnerSeated, TypeOK
        <3> QED  BY <1>2, <2>1, <3>1 DEF ExpirePublicDeadline, Remove
    <2>2. ASSUME NEW u \in Users, ExpireSuspended(u) PROVE ProbeReady'
        BY <1>2, <2>2 DEF ExpireSuspended, Remove
    <2>3. ASSUME \/ \E r \in Rooms : ExpireSeat(r) \/ ExpireProbe(r)
                 \/ \E u \in Users : ExpireInvite(u)
          PROVE  \A r \in Rooms : network_probe'[r] \in {None, network_probe[r]}
        BY <1>1, <2>3 DEF ExpireSeat, ExpireProbe, CancelNetworkProbe, ExpireInvite, pending_vars, TypeOK
    <2> QED  BY <1>4, <2>1, <2>2, <2>3, FewerProbes DEF Expire
<1>5. CASE Flow
    <2>1. ASSUME NEW u \in Users,
                 Unready(u) \/ Loaded(u) \/ InputReady(u) \/ Report(u) \/ Ack(u) \/ ToggleSpectator(u)
          PROVE  UNCHANGED network_probe
        BY <2>1 DEF Unready, Loaded, InputReady, Report, Ack, ToggleSpectator, pending_vars
    <2> QED  BY <1>5, <2>1, ReadyProbe, ReplyProbe, FewerProbes DEF Flow
<1>6. CASE Requests \/ Exchange
    <2>1. ASSUME NEW u \in Users, LeaveRoom(u) \/ \E t \in Users : RemoveMember(u, t)
          PROVE  ProbeReady'
        BY <1>2, <2>1 DEF LeaveRoom, RemoveMember, Remove
    <2>2. ASSUME NEW u \in Users,
                 \/ \E r \in Rooms, w \in BOOLEAN : Create(u, r, w) \/ Join(u, r, w)
                 \/ AcceptInvite(u) \/ ChangeSettings(u) \/ DropInvite(u)
                 \/ \E t \in Users : TransferOwner(u, t) \/ Invite(u, t) \/ ProposeSwap(u, t)
                 \/ \E t \in {0, 1} : ChangeTeam(u, t)
                 \/ \E k \in Slots : MoveSeat(u, k)
                 \/ AcceptSwap(u) \/ RejectSwap(u)
          PROVE  UNCHANGED network_probe
        BY ZenonT(60), <2>2 DEF Create, Join, AcceptInvite, Install, ChangeSettings, DropInvite, TransferOwner,
                    Invite, ProposeSwap, ChangeTeam, MoveSeat, AcceptSwap, RejectSwap, pending_vars
    <2> QED  BY <1>6, <2>1, <2>2, FewerProbes DEF Requests, Exchange
<1>7. CASE UNCHANGED vars
    BY <1>7, FewerProbes DEF vars
<1> QED  BY <1>3, <1>4, <1>5, <1>6, <1>7 DEF Next

\* What start_match() has been told of the room whenever it is called.
Agreed(r) ==
    /\ Fighters(r) \subseteq ready'
    /\ \A u \in members[r] : u \notin suspended /\ game[u] # None /\ Alive(u)

\* Only the host's readiness and the last reply to a probe start a match.
LEMMA StartedBy ==
    ASSUME Roster, NEW r \in rooms, stage[r] = "room", stage'[r] = "loading", [Next]_vars
    PROVE  \E u \in Users : Ready(u) \/ NetworkDelayReply(u)
<1>1. TypeOK /\ r \in Rooms
    BY DEF Roster, TypeOK
<1>2. ASSUME NEW u \in Users, NEW ph, Leave(u, ph) PROVE FALSE
    <2>1. room[u] = None \/ room[u] \in Rooms
        BY <1>1 DEF TypeOK
    <2> QED  BY <1>1, <1>2, <2>1 DEF Leave, LeaveEmpty, Unlist, LeaveObserver, AdvanceBarriers,
                                     LeaveWaiting, match_vars, TypeOK
<1>3. ASSUME NEW q \in Rooms, NEW ms, NEW ld, NEW ir, NEW acks, NEW ph,
             AdvanceBarriers(q, ms, ld, ir, acks, ph)
      PROVE  FALSE
    <2> DEFINE st == StageAfter(stage[q], ms, ms \ spectator, ld, ir, acks)
    <2>1. stage' = [stage EXCEPT ![q] = st]
        BY <1>3 DEF AdvanceBarriers
    <2>2. stage[q] = "room" => st = "room"
        BY StageAfterRoom DEF Stages
    <2> HIDE DEF st
    <2> QED  BY <1>1, <2>1, <2>2 DEF TypeOK
<1>4. ASSUME NEW u \in Users, Loaded(u) \/ InputReady(u) \/ Ack(u) PROVE FALSE
    <2>1. room[u] \in Rooms
        BY <1>1, <1>4 DEF Loaded, InputReady, Ack, InRoom, TypeOK
    <2>2. \E ld, ir, acks : AdvanceBarriers(room[u], members[room[u]], ld, ir, acks, phase)
        BY <1>4 DEF Loaded, InputReady, Ack
    <2> QED  BY <1>3, <2>1, <2>2
<1>5. ASSUME NEW u \in Users, Report(u) PROVE FALSE
    <2>1. stage' = stage \/ stage' = [stage EXCEPT ![room[u]] = "result"]
        BY <1>5 DEF Report
    <2> QED  BY <1>1, <2>1 DEF TypeOK
<1>6. ~ UNCHANGED stage
    OBVIOUS
<1>7. CASE Session
    <2>1. ~ \E u \in Users : Disconnect(u)
        BY <1>2, <1>6 DEF Disconnect, Suspend, match_vars
    <2> QED  BY <1>6, <1>7, <2>1 DEF Session, Enter, RegisterP2P, LoseP2P, Bind, match_vars
<1>8. CASE Expire
    <2>1. \A q \in rooms : owner[q] \in Users
        BY DEF Roster, OwnerSeated, TypeOK
    <2> QED  BY <1>2, <1>6, <1>8, <2>1 DEF Expire, ExpirePublicDeadline, ExpireSeat, ExpireProbe,
                 ExpireSuspended, ExpireInvite, CancelNetworkProbe, Remove, match_vars
<1>9. CASE Flow
    BY <1>4, <1>5, <1>6, <1>9 DEF Flow, Unready, ToggleSpectator, match_vars
<1>10. CASE Requests
    <2>1. ASSUME NEW u \in Users, LeaveRoom(u) \/ \E t \in Users : RemoveMember(u, t)
          PROVE  FALSE
        BY <1>2, <2>1 DEF LeaveRoom, RemoveMember, Remove
    <2>2. ASSUME NEW u \in Users,
                 \/ \E q \in Rooms, w \in BOOLEAN : Create(u, q, w) \/ Join(u, q, w)
                 \/ AcceptInvite(u)
          PROVE  UNCHANGED stage
        BY ZenonT(60), <2>2 DEF Create, Join, AcceptInvite, Install, match_vars
    <2>3. ASSUME NEW u \in Users,
                 \/ ChangeSettings(u) \/ DropInvite(u)
                 \/ \E t \in Users : TransferOwner(u, t) \/ Invite(u, t)
                 \/ \E t \in {0, 1} : ChangeTeam(u, t)
          PROVE  UNCHANGED stage
        BY <2>3 DEF ChangeSettings, TransferOwner, Invite, ChangeTeam, DropInvite, match_vars
    <2> QED  BY <1>6, <1>10, <2>1, <2>2, <2>3 DEF Requests
<1>11. CASE Exchange
    BY <1>6, <1>11 DEF Exchange, MoveSeat, ProposeSwap, AcceptSwap, RejectSwap, match_vars
<1> QED  BY <1>6, <1>7, <1>8, <1>9, <1>10, <1>11 DEF Next, vars

LEMMA StartIsAgreed ==
    ASSUME Roster, MembersServed, ProbeReady,
           NEW r \in rooms, stage[r] = "room", stage'[r] = "loading", [Next]_vars
    PROVE  Agreed(r)
<1>1. TypeOK /\ r \in Rooms
    BY DEF Roster, TypeOK
<1>2. ASSUME NEW u \in Users, Ready(u) PROVE Agreed(r)
    <2>1. StartsMatch(u, room[u]) /\ room[u] = r /\ ready' = ready \cup {u}
        BY <1>1, <1>2 DEF Ready, BeginStart, StartMatch, match_vars, TypeOK
    <2>2. \A v \in members[r] : game[v] # None
        BY <2>1 DEF StartsMatch, MembersServed
    <2> QED  BY <2>1, <2>2 DEF StartsMatch, Agreed
<1>3. ASSUME NEW u \in Users, NetworkDelayReply(u) PROVE Agreed(r)
    <2>1. /\ room[u] = r /\ network_probe[r] # None /\ ProbeIntact(r) /\ Expired
          /\ ready' = ready
        <3> DEFINE left == network_probe[room[u]].pending \ {u}
        <3>1. ProbeIntact(room[u]) /\ left = {} /\ StartMatch(room[u]) /\ ready' = ready
            BY <1>3 DEF NetworkDelayReply, CancelNetworkProbe, match_vars
        <3>2. room[u] = r
            BY <1>1, <3>1 DEF StartMatch, TypeOK
        <3> QED  BY <1>3, <3>1, <3>2 DEF NetworkDelayReply, InRoom, Handled
    <2>2. network_probe[r].identity = IdentityWith(r, ready)
        BY <2>1 DEF Expired, Stale, StartIdentity
    <2>3. ASSUME NEW v \in Fighters(r) PROVE v \in ready
        <3> DEFINE e == [uid |-> v, game |-> game[v], slot |-> slot[v], team |-> team[v],
                         registry_key |-> registry_key[v],
                         ready |-> v \in ready, spectator |-> v \in spectator]
        <3>1. e \in IdentityWith(r, ready).roster
            BY DEF IdentityWith, Fighters
        <3>2. e.uid = v /\ v \notin spectator
            BY DEF Fighters
        <3> HIDE DEF e
        <3>3. ~ e.spectator
            BY <3>1, <3>2, IdentityOf
        <3>4. e.ready
            BY <1>1, <2>1, <2>2, <3>1, <3>3 DEF ProbeReady
        <3> QED  BY <3>1, <3>2, <3>4, IdentityOf
    <2> QED  BY <2>1, <2>3 DEF Agreed, ProbeIntact
<1> QED  BY <1>2, <1>3, StartedBy

\* However the last confirmation, the answers to the probe, departures and
\* losses interleave: a match starts with every fighter ready and every member
\* connected, unsuspended and with a live lease.
THEOREM StartsAgreed == Spec => StartAgreed
<1>1. Init => Roster /\ Ledgers /\ MembersServed /\ ProbeReady
    BY InitRoster, InitLedgers, InitServed, InitProbeReady
<1>2. Roster /\ Ledgers /\ MembersServed /\ ProbeReady /\ [Next]_vars =>
          (Roster /\ Ledgers /\ MembersServed /\ ProbeReady)'
    BY RosterStep, LedgersStep, ServedStep, ProbeReadyStep
<1>3. Roster /\ Ledgers /\ MembersServed /\ ProbeReady /\ [Next]_vars =>
          [\A r \in rooms :
               stage[r] = "room" /\ stage'[r] = "loading" =>
                   /\ Fighters(r) \subseteq ready'
                   /\ \A u \in members[r] : u \notin suspended /\ game[u] # None /\ Alive(u)]_vars
    BY StartIsAgreed DEF Agreed
<1> QED  BY <1>1, <1>2, <1>3, PTL DEF Spec, StartAgreed
=============================================================================
