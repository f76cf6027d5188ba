----------------------------- MODULE BattleRelay -----------------------------
(***************************************************************************)
(* One battle of the public service: the relay of battle messages (8071)   *)
(* between its fighters (server/kk_local/battle_relay.py), the receipts    *)
(* and pickups of battle_receipts.py and the pairs of battle_pairs.py.     *)
(*                                                                         *)
(* A client sends an event to one peer at a time by UDP, to all by TCP     *)
(* when that fails, and any of these may be repeated, late or out of       *)
(* order.  dispatch_public executes an event once, remembers for whom it   *)
(* was meant and delivers it to those a later copy names.                  *)
(*                                                                         *)
(* A message is what its payload says: sender, the sequence number at +19  *)
(* (of a movement at +15), the player it is about and a key; parameters    *)
(* that decide nothing are left out, so two messages that agree in these   *)
(* are the same payload.                                                   *)
(* A battle of the model exchanges one family of messages: families share  *)
(* nothing but the sequence numbers and the cache.                         *)
(* Nobody joins or leaves a running battle: a departure ends it.           *)
(***************************************************************************)
EXTENDS SequencesExt

CONSTANTS
    Members,       \* the fighters
    Host,          \* room.owner
    None,
    Keys,          \* state codes, projectile keys and item keys
    Positions,     \* what the movements of one action may say
    CacheLimit,    \* remembered dispatches (128)
    WitnessLimit,  \* open receipts of one reporter (32)
    MaxSequence,   \* bound: sequence numbers of one sender
    MaxReports,    \* bound: the same for a reporter of damage
    MaxShots,      \* bound: the same where a projectile flies
    MaxEvents,     \* bound: events executed in the battle
    Reporters,     \* bound: the members that are damaged and report it
    Shooters,      \* bound: the members that shoot
    Partners,      \* bound: the members that choose others to move with
    Walkers,       \* bound: the members that move and report on themselves
    Families       \* bound: the families of which a battle exchanges one

ASSUME RelayAssumption ==
    /\ Host \in Members
    /\ None \notin Members \cup Positions \cup [key : Keys, status : {"pending", "approved"}]
    /\ None \notin [owner : Members, alive : BOOLEAN, reporters : SUBSET Members]
    /\ Families \subseteq {"state", "projectile", "pickup", "receipt", "pair", "notice", "motion"}
    /\ CacheLimit \in Nat \ {0} /\ WitnessLimit \in Nat \ {0}
    /\ Reporters \subseteq Members /\ Shooters \subseteq Members
    /\ Partners \subseteq Members /\ Walkers \subseteq Members
    /\ MaxSequence \in Nat /\ MaxReports \in Nat /\ MaxShots \in Nat
    /\ MaxEvents \in Nat

\* hit_result_status: 1 and 5 are lethal, 3 is the receipt of a death.
Statuses == {"lethal", "terminal"}

\* Messages about the sender itself, or about another player.
Own(kinds, senders, numbers) ==
    [kind : kinds, from : senders, seq : numbers, on : {None}, key : Keys]
Other(kinds, senders, numbers, keys) ==
    {m \in [kind : kinds, from : senders, seq : numbers, on : Members, key : keys] : m.on # m.from}

\* What the members of a battle send of each family.
Traffic ==
    LET Numbers == 1 .. MaxSequence
    IN  [f \in Families |->
           CASE f = "state" -> Own({"apply", "cancel"}, Members, Numbers)
                               \cup Other({"cancel"}, {Host}, Numbers, Keys)
             [] f = "projectile" -> Own({"create", "destroy"}, Shooters, 1 .. MaxShots)
                                    \cup Own({"hit", "result"}, Members, 1 .. MaxShots)
             [] f = "pickup" -> Own({"request", "withdraw", "complete"}, Members, Numbers)
                                \cup Other({"approve", "refuse"}, {Host}, Numbers, Keys)
             [] f = "receipt" -> Other({"damage", "receipt"}, Reporters, 1 .. MaxReports, Statuses)
             [] f = "pair" -> Own({"unselect"}, Partners, Numbers)
                              \cup Other({"select", "transform"}, Partners, Numbers, Keys)
             [] f = "notice" -> Own({"report", "slip", "death"}, Walkers, Numbers)
                                \cup Own({"spawn"}, {Host}, Numbers)
                                \cup Other({"death", "countdown"}, {Host}, Numbers, Keys)
             [] f = "motion" -> [kind : {"move"}, from : Walkers, seq : Numbers,
                                 on : {None}, key : Positions]]
Messages == UNION Range(Traffic)

VARIABLES
    family,           \* the family this battle exchanges
    last_sequence,    \* sender -> sequence of its last executed event
    active_states,    \* <<target, code>> that are on
    projectiles,      \* key -> owner, alive and hit_reporters, or None
    pickup_requests,  \* actor -> key and status, or None
    hit_receipts,     \* reporter -> open witnesses of its damage reports
    death_receipts,   \* reporter -> open witnesses of its lethal receipts
    pair_selections,  \* first -> second, or None
    pair_versions,    \* sender -> sequence of its last selection that counted
    spawned_collectibles,
    motion_payloads,  \* sender -> its last movement, or None
    cache,            \* battle_dispatch_cache, oldest first: message, members left
    log,              \* history: sender -> its executed events
    inbox             \* history: recipient -> sender -> the events delivered

receipts == <<hit_receipts, death_receipts>>
pairs == <<pair_selections, pair_versions>>
notices == <<spawned_collectibles, motion_payloads>>
ledgers == <<active_states, projectiles, pickup_requests, receipts, notices>>
vars == <<family, last_sequence, ledgers, pairs, cache, log, inbox>>

RelayInit ==
    /\ last_sequence = [u \in Members |-> 0]
    /\ active_states = {}
    /\ projectiles = [k \in Keys |-> None]
    /\ pickup_requests = [u \in Members |-> None]
    /\ hit_receipts = [u \in Members |-> <<>>]
    /\ death_receipts = [u \in Members |-> <<>>]
    /\ pair_selections = [u \in Members |-> None]
    /\ pair_versions = [u \in Members |-> 0]
    /\ spawned_collectibles = {}
    /\ motion_payloads = [u \in Members |-> None]
    /\ cache = <<>>
    /\ log = [u \in Members |-> <<>>]
    /\ inbox = [r \in Members |-> [u \in Members |-> <<>>]]
Init == family \in Families /\ RelayInit

-----------------------------------------------------------------------------
(* What the handlers do with an event they have not seen                   *)

\* 8150.  A player rules its own states; the Host may take one away.
Target(m) == IF m.on = None THEN m.from ELSE m.on

State(m) ==
    LET s == <<Target(m), m.key>>
    IN  /\ \/ /\ m.kind = "apply"
              /\ active_states' = active_states \cup {s}
           \/ /\ m.kind = "cancel"
              /\ Target(m) = m.from \/ (m.from = Host /\ s \in active_states)
              /\ active_states' = active_states \ {s}
        /\ UNCHANGED <<projectiles, pickup_requests, receipts, notices>>

\* 8400 to 8402 and 8404 (8403 changes nothing).  A key is used once in a
\* battle; a hit makes its target the witness of one result.
Flies(k) == projectiles[k] # None /\ projectiles[k].alive

\* Mutant: a witness is never used up.
Kept(k, u) == projectiles[k].reporters
Witnessed(k, u) == projectiles[k].reporters \ {u}

Projectile(m) ==
    LET k == m.key  u == m.from
    IN  /\ \/ /\ m.kind = "create" /\ projectiles[k] = None
              /\ projectiles' = [projectiles EXCEPT ![k] =
                                    [owner |-> u, alive |-> TRUE, reporters |-> {}]]
           \/ /\ m.kind = "hit" /\ Flies(k)
              /\ projectiles' = [projectiles EXCEPT ![k].reporters = @ \cup {u}]
           \/ /\ m.kind = "result" /\ Flies(k)
              /\ u = projectiles[k].owner \/ u \in projectiles[k].reporters
              /\ projectiles' = IF u = projectiles[k].owner THEN projectiles
                                ELSE [projectiles EXCEPT ![k].reporters = Witnessed(k, u)]
           \/ /\ m.kind = "destroy" /\ Flies(k) /\ u = projectiles[k].owner
              /\ projectiles' = [projectiles EXCEPT ![k].alive = FALSE]
        /\ UNCHANGED <<active_states, pickup_requests, receipts, notices>>

\* 9000 to 9002.  One request per member; the Host decides, and picks up what
\* nobody holds without asking.
Holds(u, k, status) == pickup_requests[u] = [key |-> k, status |-> status]
Reserved(k, others) == \E v \in others : Holds(v, k, "approved")

\* Mutant: an item may be promised twice.
Promised(u, k) == TRUE
Grantable(u, k) == ~Reserved(k, Members \ {u})

Pickup(m) ==
    LET u == Target(m)  k == m.key
        Put(r) == pickup_requests' = [pickup_requests EXCEPT ![u] = r]
    IN  /\ \/ /\ m.kind = "request" /\ u # Host /\ pickup_requests[u] = None
              /\ Put([key |-> k, status |-> "pending"])
           \/ /\ m.kind = "withdraw"
              /\ Holds(u, k, "pending") \/ Holds(u, k, "approved")
              /\ Put(None)
           \/ /\ m.kind = "approve" /\ m.from = Host /\ Holds(u, k, "pending")
              /\ Grantable(u, k)
              /\ Put([key |-> k, status |-> "approved"])
           \/ /\ m.kind = "refuse" /\ m.from = Host /\ Holds(u, k, "pending")
              /\ Put(None)
           \/ /\ m.kind = "complete"
              /\ IF u = Host THEN ~Reserved(k, Members) ELSE Holds(u, k, "approved")
              /\ Put(None)
        /\ UNCHANGED <<active_states, projectiles, receipts, notices>>

\* 8121 and 8126.  A receipt is the answer to one damage report of the same
\* reporter that came before it, a receipt of a death also to one lethal
\* receipt.
Uncapped(rows) == rows   \* mutant
Capped(rows) == SubSeq(rows, Max({1, Len(rows) - WitnessLimit + 1}), Len(rows))

FirstWitness(rows, m) ==
    {i \in DOMAIN rows :
        /\ rows[i].source = m.on /\ m.key = rows[i].status /\ rows[i].seq < m.seq
        /\ \A j \in 1 .. i - 1 : ~(rows[j].source = m.on /\ m.key = rows[j].status /\ rows[j].seq < m.seq)}

Receipt(m) ==
    LET u == m.from
        row(status) == [source |-> m.on, status |-> status, seq |-> m.seq]
        Recorded(rows, status) == [rows EXCEPT ![u] = Capped(Append(@, row(status)))]
        hit == FirstWitness(hit_receipts[u], m)
        death == FirstWitness(death_receipts[u], m)
    IN  /\ \/ /\ m.kind = "damage"
              /\ hit_receipts' = Recorded(hit_receipts, m.key)
              /\ UNCHANGED death_receipts
           \/ /\ m.kind = "receipt" /\ hit # {}
              /\ hit_receipts' = [hit_receipts EXCEPT ![u] = RemoveAt(@, CHOOSE i \in hit : TRUE)]
              /\ death_receipts' = IF m.key = "lethal" THEN Recorded(death_receipts, "terminal")
                                   ELSE death_receipts
           \/ /\ m.kind = "receipt" /\ hit = {} /\ m.key = "terminal" /\ death # {}
              /\ death_receipts' = [death_receipts EXCEPT ![u] = RemoveAt(@, CHOOSE i \in death : TRUE)]
              /\ UNCHANGED hit_receipts
        /\ UNCHANGED <<active_states, projectiles, pickup_requests, notices>>

\* 8143 changes nothing before it is delivered; 8144 needs the selection.
Pair(m) ==
    /\ m.kind = "transform" => pair_selections[m.on] = m.from
    /\ UNCHANGED ledgers

\* 8122 to 8140, 8280 to 8293 and 8403: what a player does, by itself; and
\* 8270, which moves it, and nobody with it.
OwnReport(m) == Target(m) = m.from /\ UNCHANGED ledgers
OwnedSlip(m) == Target(m) = m.from /\ UNCHANGED ledgers

\* 8286: somebody is dead, by its own word or the Host's.  8278: the Host tells
\* one player when it comes back.
DeathNotice(m) ==
    /\ m.from = Host \/ (m.kind = "death" /\ Target(m) = m.from)
    /\ UNCHANGED ledgers

\* 8287: the Host puts an item down, each once.
SpawnCollectible(m) ==
    /\ m.from = Host /\ m.key \notin spawned_collectibles
    /\ spawned_collectibles' = spawned_collectibles \cup {m.key}
    /\ UNCHANGED <<active_states, projectiles, pickup_requests, receipts, motion_payloads>>

\* 8120.  A movement goes on under the number of its action.
Move(m) ==
    /\ motion_payloads' = [motion_payloads EXCEPT ![m.from] = m.key]
    /\ UNCHANGED <<active_states, projectiles, pickup_requests, receipts, spawned_collectibles>>

Handle(m) ==
    CASE m.kind \in {"apply", "cancel"} -> State(m)
      [] m.kind \in {"create", "hit", "result", "destroy"} -> Projectile(m)
      [] m.kind \in {"request", "withdraw", "approve", "refuse", "complete"} -> Pickup(m)
      [] m.kind \in {"damage", "receipt"} -> Receipt(m)
      [] m.kind \in {"select", "unselect", "transform"} -> Pair(m)
      [] m.kind = "report" -> OwnReport(m)
      [] m.kind = "slip" -> OwnedSlip(m)
      [] m.kind \in {"death", "countdown"} -> DeathNotice(m)
      [] m.kind = "spawn" -> SpawnCollectible(m)
      [] m.kind = "move" -> Move(m)

\* Who is to hear of it.
Outputs(m) ==
    CASE m.kind \in {"request", "withdraw"} -> {Host}
      [] m.kind \in {"receipt", "countdown"} -> {m.on}
      [] OTHER -> Members \ {m.from}

-----------------------------------------------------------------------------
(* dispatch_public                                                         *)

Fresh(m) ==
    \/ m.seq > last_sequence[m.from]
    \/ m.kind = "move" /\ m.seq = last_sequence[m.from] /\ m.key # motion_payloads[m.from]

\* Mutants: copies are never, or only by their number, too old.
Unnumbered(m) ==
    CASE m.kind = "apply" -> <<Target(m), m.key>> \notin active_states
      [] m.kind = "cancel" -> <<Target(m), m.key>> \in active_states
      [] m.kind \in {"create", "hit", "result"} -> ~Flies(m.key)
      [] OTHER -> FALSE
Outnumbered(m) == m.seq < last_sequence[m.from]
\* A copy of an executed event that nobody is to get any more: its sender has
\* done something since, or what it says no longer holds.
Superseded(m) ==
    \/ m.seq < last_sequence[m.from]
    \/ m.kind = "apply" /\ <<Target(m), m.key>> \notin active_states
    \/ m.kind = "cancel" /\ <<Target(m), m.key>> \in active_states
    \/ m.kind \in {"create", "hit", "result"} /\ ~Flies(m.key)

\* Mutant: a selection counts although its target has not heard of it.
Unheard(m, to) == m.kind \in {"select", "unselect"} /\ m.seq > pair_versions[m.from]
Noticed(m, to) ==
    /\ m.kind = "unselect" \/ (m.kind = "select" /\ m.on \in to)
    /\ m.seq > pair_versions[m.from]

\* observe_pair_selection, once m has been delivered to the members to.
Observe(m, to) ==
    IF Noticed(m, to)
    THEN /\ pair_versions' = [pair_versions EXCEPT ![m.from] = m.seq]
         /\ pair_selections' = [pair_selections EXCEPT ![m.from] = m.on]
    ELSE UNCHANGED pairs

Deliver(m, to) ==
    inbox' = [r \in Members |-> IF r \in to THEN [inbox[r] EXCEPT ![m.from] = Append(@, m)]
                                ELSE inbox[r]]

Newest(entries) == SubSeq(entries, Max({1, Len(entries) - CacheLimit + 1}), Len(entries))

Remembered(m) == \E i \in DOMAIN cache : cache[i].message = m

Executed == MapThenSumSet(LAMBDA u : Len(log[u]), Members)
\* The first copy is executed, for all it is meant for.
Execute(m, targets) ==
    LET to == targets \cap Outputs(m)
    IN  /\ Executed < MaxEvents
        /\ ~Remembered(m) /\ Fresh(m)
        /\ Handle(m)
        /\ last_sequence' = [last_sequence EXCEPT ![m.from] = m.seq]
        /\ cache' = Newest(Append(cache, [message |-> m, left |-> Outputs(m) \ to]))
        /\ log' = [log EXCEPT ![m.from] = Append(@, m)]
        /\ Deliver(m, to)
        /\ Observe(m, to)
        /\ UNCHANGED family

\* A later copy is delivered to those who have not had it.
Repeat(m, targets) ==
    \E i \in DOMAIN cache :
        LET to == targets \cap cache[i].left
        IN  /\ cache[i].message = m /\ ~Superseded(m)
            /\ to # {}
            /\ cache' = [cache EXCEPT ![i].left = @ \ to]
            /\ Deliver(m, to)
            /\ Observe(m, to)
            /\ UNCHANGED <<family, last_sequence, ledgers, log>>

\* By UDP to the peers the datagram names; TCP names them all.
Recipients(u) == SUBSET (Members \ {u}) \ {{}}

\* The fifteen seconds of a selection have passed.
ExpirePair(u) ==
    /\ pair_selections[u] # None
    /\ pair_selections' = [pair_selections EXCEPT ![u] = None]
    /\ UNCHANGED <<family, last_sequence, ledgers, pair_versions, cache, log, inbox>>

Next ==
    \/ family \in Families /\ \E m \in Traffic[family] : \E targets \in Recipients(m.from) :
           Execute(m, targets) \/ Repeat(m, targets)
    \/ \E u \in Members : ExpirePair(u)

Spec == Init /\ [][Next]_vars

-----------------------------------------------------------------------------
Witnesses == [source : Members, status : Statuses, seq : 1 .. MaxReports]

\* Every variable holds a value of the attribute it stands for, and the
\* ledgers that are cut stay within their limits.
TypeOK ==
    /\ last_sequence \in [Members -> Nat]
    /\ active_states \subseteq Members \X Keys
    /\ \A k \in Keys : projectiles[k] \in {None} \cup
           [owner : Members, alive : BOOLEAN, reporters : SUBSET Members]
    /\ \A u \in Members : pickup_requests[u] \in {None} \cup
           [key : Keys, status : {"pending", "approved"}]
    /\ \A u \in Members : \A rows \in {hit_receipts[u], death_receipts[u]} :
           rows \in Seq(Witnesses) /\ Len(rows) <= WitnessLimit
    /\ pair_selections \in [Members -> Members \cup {None}]
    /\ pair_versions \in [Members -> Nat]
    /\ spawned_collectibles \subseteq Keys
    /\ motion_payloads \in [Members -> Positions \cup {None}]
    /\ cache \in Seq([message : Messages, left : SUBSET Members]) /\ Len(cache) <= CacheLimit
    /\ log \in [Members -> Seq(Messages)]
    /\ inbox \in [Members -> [Members -> Seq(Messages)]]

\* Over both transports, with copies and evictions from the cache, nobody gets
\* an event of a sender twice or after a later event of that sender; of its
\* movements, none after one of a later action.
InOrder ==
    /\ TypeOK
    /\ \A r, u \in Members : \A i, j \in DOMAIN inbox[r][u] :
           i < j => LET m == inbox[r][u][i]  later == inbox[r][u][j]
                    IN  m.seq < later.seq \/ (m.kind = "move" /\ m.seq = later.seq)

\* What m says is so, once it has been handled.
Holding(m) ==
    /\ m.kind = "apply" => <<Target(m), m.key>> \in active_states'
    /\ m.kind = "cancel" => <<Target(m), m.key>> \notin active_states'
    /\ m.kind \in {"create", "hit", "result"} => projectiles'[m.key].alive

\* A delayed copy never tells its recipient what is no longer so: a state
\* that has been cancelled, a cancellation of one that is on again, an event
\* of a projectile that is gone.
NothingStale ==
    [][\A r, u \in Members :
           Len(inbox'[r][u]) > Len(inbox[r][u]) => Holding(Last(inbox'[r][u]))]_vars

\* How many events of u before its i-th are of one kind, about on and key.
Before(u, i, kind, on, key) ==
    Cardinality({j \in 1 .. i : LET m == log[u][j]
                                IN  m.kind = kind /\ m.on = on /\ m.key = key})

\* A receipt pays for one damage report that came before it, a receipt of a
\* death for one lethal receipt or one report of a death; the result a target
\* announces for somebody else's projectile pays for a hit since its last.
WitnessesSpentOnce ==
    \A u \in Members : \A i \in DOMAIN log[u] :
        LET m == log[u][i]
            Reports(kind) == Before(u, i, kind, m.on, m.key)
        IN  /\ m.kind = "receipt" =>
                   Reports("receipt") <= Reports("damage") +
                       (IF m.key = "terminal" THEN Before(u, i, "receipt", m.on, "lethal") ELSE 0)
            /\ m.kind = "result" /\ projectiles[m.key].owner # u =>
                   \E j \in 1 .. i - 1 :
                       /\ log[u][j].kind = "hit" /\ log[u][j].key = m.key
                       /\ \A k \in j .. i - 1 : ~(log[u][k].kind = "result" /\ log[u][k].key = m.key)

\* An item is promised to one member at a time; nobody takes one that is
\* promised to another, and what a guest takes the Host has promised it.
ReservationHonoured ==
    [][\A u \in Members :
           LET m == Last(log'[u])
           IN  Len(log'[u]) > Len(log[u]) =>
                   /\ m.kind \in {"approve", "complete"} =>
                          ~Reserved(m.key, Members \ {Target(m)})
                   /\ m.kind = "complete" /\ u # Host => Holds(u, m.key, "approved")]_vars

\* A paired move is made with a player who chose the mover, who has heard so,
\* and whose choice was not replaced by one its new target heard of.
PairsConsented ==
    [][\A u \in Members :
           LET m == Last(log'[u])
           IN  Len(log'[u]) > Len(log[u]) /\ m.kind = "transform" =>
                   \E i \in DOMAIN inbox[u][m.on] :
                       LET choice == inbox[u][m.on][i]
                       IN  /\ choice.kind = "select" /\ choice.on = u
                           /\ \A j \in DOMAIN log[m.on] :
                                  LET later == log[m.on][j]
                                  IN  later.seq > choice.seq =>
                                          /\ later.kind # "unselect"
                                          /\ later.kind = "select" =>
                                                 ~Contains(inbox[later.on][m.on], later)]_vars
=============================================================================
