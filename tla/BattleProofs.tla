---------------------------- MODULE BattleProofs ----------------------------
(***************************************************************************)
(* Proofs about the battles: what the run checks on three fighters, one    *)
(* key and a cache of two holds for any number of fighters, keys and       *)
(* events and for any limit of the cache and of the receipts.              *)
(*                                                                         *)
(* What orders the delivery is Remembering: whatever is remembered or was  *)
(* delivered has a number that its sender has reached, a number is that of *)
(* one event (of a movement, of one action), and who is still to get an    *)
(* event has not had it.  A copy that is not superseded is then of its     *)
(* sender's last event, wherever the cache was cut in between.             *)
(*                                                                         *)
(* What the ledgers decide takes an account of the past each.  Pickups:    *)
(* OnePromise, for an item is reserved once.  Pairs: ChoiceHeard, what a   *)
(* selection in force was told by.  Receipts: Paid balances the reports    *)
(* executed against the receipts spent and still open, which the bound     *)
(* of the ledger may only lose.  Results: Witnessing, a projectile that    *)
(* waits for a result has a hit since the last.  Series: SeriesFollows,    *)
(* the last decision and what the series does now.                         *)
(*                                                                         *)
(* The monsters are balanced by MonstersKept: Mustered counts who is       *)
(* there, WavesCounted what a wave has brought and what is left of it,     *)
(* GroupsCounted the same of a timed group.  A quota is a sum over the     *)
(* templates of a wave, and the waves passed are a sum of quotas.          *)
(***************************************************************************)
EXTENDS HostModes, FiniteSetTheorems, SumLemmas, TLAPS

Battles == {"state", "projectile", "pickup", "receipt", "pair", "notice", "motion"}

\* A message of the battle's family, from u.
Sent(m, u) == family \in Families /\ m \in Traffic[family] /\ m.from = u

\* What was delivered and what is remembered was executed under a number
\* that its sender has reached.
Reached ==
    /\ \A r, u \in Members : \A i \in DOMAIN inbox[r][u] :
           Sent(inbox[r][u][i], u) /\ inbox[r][u][i].seq <= last_sequence[u]
    /\ \A i \in DOMAIN cache :
           LET m == cache[i].message
           IN  Sent(m, m.from) /\ m.seq <= last_sequence[m.from] /\ \E j \in DOMAIN log[m.from] : log[m.from][j] = m
    /\ \A u \in Members : \A i \in DOMAIN log[u] :
           Sent(log[u][i], u) /\ log[u][i].seq <= last_sequence[u]

\* A number is that of one event, and nobody who has had it is to get it.
Numbering ==
    /\ \A u \in Members : \A i, j \in DOMAIN log[u] :
           log[u][i].kind # "move" /\ log[u][i].seq = log[u][j].seq => i = j
    /\ \A i, j \in DOMAIN cache :
           LET m == cache[i].message
           IN  m.kind # "move" /\ m.from = cache[j].message.from /\ m.seq = cache[j].message.seq => i = j
    /\ \A i \in DOMAIN cache :
           LET m == cache[i].message
           IN  m.kind # "move" => \A r \in cache[i].left : \A j \in DOMAIN inbox[r][m.from] :
                                      inbox[r][m.from][j].seq # m.seq

\* No message comes after one with a later number.
Ordered ==
    \A r, u \in Members : \A i, j \in DOMAIN inbox[r][u] :
        i < j => LET m == inbox[r][u][i]  later == inbox[r][u][j]
                 IN  m.seq < later.seq \/ (m.kind = "move" /\ m.seq = later.seq)

Remembering == Reached /\ Numbering /\ Ordered

\* An item is promised to one member.
OnePromise ==
    \A u, v \in Members : \A k \in Keys :
        Holds(u, k, "approved") /\ Holds(v, k, "approved") => u = v

\* Whom a player has chosen has heard of it, and of no later choice of that
\* player has its new target heard.
ChoiceHeard ==
    \A u \in Members :
        /\ pair_versions[u] <= last_sequence[u]
        /\ pair_selections[u] # None =>
               \E i \in DOMAIN inbox[pair_selections[u]][u] :
                   LET m == inbox[pair_selections[u]][u][i]
                   IN  m.kind = "select" /\ m.on = pair_selections[u] /\ m.seq = pair_versions[u]
        /\ \A j \in DOMAIN log[u] :
               LET m == log[u][j]
               IN  m.seq > pair_versions[u] =>
                       /\ m.kind # "unselect"
                       /\ m.kind = "select" => \A i \in DOMAIN inbox[m.on][u] : inbox[m.on][u][i] # m

-----------------------------------------------------------------------------
(* Messages and sequences                                                  *)

\* What a message of a family may be.
LEMMA MessageIs ==
    ASSUME NEW f \in Families, NEW m \in Traffic[f]
    PROVE  /\ m \in Messages /\ m.from \in Members /\ m.seq \in Nat /\ m.on \in Members \cup {None}
           /\ f = "motion" => m.kind = "move" /\ m.key \in Positions
           /\ f = "receipt" => /\ m.kind \in {"damage", "receipt"}
                               /\ m.key \in Statuses /\ m.on \in Members /\ m.seq \in 1 .. MaxReports
           /\ f = "state" => m.kind \in {"apply", "cancel"}
           /\ f = "projectile" => m.kind \in {"create", "hit", "result", "destroy"}
           /\ f = "pickup" => m.kind \in {"request", "withdraw", "approve", "refuse", "complete"}
           /\ f = "pair" => m.kind \in {"select", "unselect", "transform"}
           /\ f = "notice" => m.kind \in {"report", "slip", "death", "spawn", "countdown"}
           /\ f \notin {"motion", "receipt"} => m.key \in Keys
           /\ m.kind \in {"request", "withdraw", "complete", "unselect"} => m.on = None
           /\ m.kind \in {"approve", "refuse", "select", "transform", "receipt", "countdown"} => m.on \in Members
           /\ m.on # m.from
<1> USE RelayAssumption DEF RelayAssumption
<1>1. f \in Battles
  BY DEF Battles
<1>2. m \in Messages
  BY DEF Messages, Range, Traffic
<1>3. CASE f = "state"
  <2>1. m \in Own({"apply", "cancel"}, Members, 1 .. MaxSequence) \cup Other({"cancel"}, {Host}, 1 .. MaxSequence, Keys)
    BY <1>3 DEF Traffic
  <2> QED BY <1>2, <1>3, <2>1 DEF Own, Other
<1>4. CASE f = "projectile"
  <2>1. m \in Own({"create", "destroy"}, Shooters, 1 .. MaxShots) \cup Own({"hit", "result"}, Members, 1 .. MaxShots)
    BY <1>4 DEF Traffic
  <2> QED BY <1>2, <1>4, <2>1 DEF Own
<1>5. CASE f = "pickup"
  <2>1. m \in Own({"request", "withdraw", "complete"}, Members, 1 .. MaxSequence)
                \cup Other({"approve", "refuse"}, {Host}, 1 .. MaxSequence, Keys)
    BY <1>5 DEF Traffic
  <2> QED BY <1>2, <1>5, <2>1 DEF Own, Other
<1>6. CASE f = "receipt"
  <2>1. m \in Other({"damage", "receipt"}, Reporters, 1 .. MaxReports, Statuses)
    BY <1>6 DEF Traffic
  <2> QED BY <1>2, <1>6, <2>1 DEF Other
<1>7. CASE f = "pair"
  <2>1. m \in Own({"unselect"}, Partners, 1 .. MaxSequence)
                \cup Other({"select", "transform"}, Partners, 1 .. MaxSequence, Keys)
    BY <1>7 DEF Traffic
  <2> QED BY <1>2, <1>7, <2>1 DEF Own, Other
<1>8. CASE f = "notice"
  <2>1. m \in Own({"report", "slip", "death"}, Walkers, 1 .. MaxSequence) \cup Own({"spawn"}, {Host}, 1 .. MaxSequence)
                \cup Other({"death", "countdown"}, {Host}, 1 .. MaxSequence, Keys)
    BY <1>8 DEF Traffic
  <2> QED BY <1>2, <1>8, <2>1 DEF Own, Other
<1>9. CASE f = "motion"
  <2>1. m \in [kind : {"move"}, from : Walkers, seq : 1 .. MaxSequence, on : {None}, key : Positions]
    BY <1>9 DEF Traffic
  <2> QED BY <1>2, <1>9, <2>1
<1> QED BY <1>1, <1>3, <1>4, <1>5, <1>6, <1>7, <1>8, <1>9 DEF Battles

LEMMA Suffix ==
    ASSUME NEW S, NEW s \in Seq(S), NEW a \in Nat, 1 <= a, a <= Len(s) + 1
    PROVE  /\ SubSeq(s, a, Len(s)) \in Seq(S)
           /\ Len(SubSeq(s, a, Len(s))) = Len(s) - (a - 1)
           /\ \A i \in 1 .. Len(s) - (a - 1) : SubSeq(s, a, Len(s))[i] = s[i + (a - 1)]
<1>1. Len(s) \in Nat
  OBVIOUS
<1>2. \A i \in 1 .. Len(s) - (a - 1) : a + i - 1 = i + (a - 1)
  BY <1>1
<1>3. SubSeq(s, a, Len(s)) \in Seq(S)
  OBVIOUS
<1>4. Len(SubSeq(s, a, Len(s))) = Len(s) - (a - 1)
  OBVIOUS
<1>5. \A i \in 1 .. Len(s) - (a - 1) : SubSeq(s, a, Len(s))[i] = s[a + i - 1]
  OBVIOUS
<1> QED BY <1>2, <1>3, <1>4, <1>5

\* The last n entries of a sequence are entries of it, in its order.
LastOf(s, n) == SubSeq(s, Max({1, Len(s) - n + 1}), Len(s))
LEMMA LastOnes ==
    ASSUME NEW S, NEW s \in Seq(S), NEW n \in Nat \ {0}
    PROVE  /\ LastOf(s, n) \in Seq(S) /\ Len(LastOf(s, n)) <= n /\ Len(LastOf(s, n)) <= Len(s)
           /\ \A i \in 1 .. Len(LastOf(s, n)) :
                  /\ i + (Len(s) - Len(LastOf(s, n))) \in 1 .. Len(s)
                  /\ LastOf(s, n)[i] = s[i + (Len(s) - Len(LastOf(s, n)))]
<1> DEFINE a == Max({1, Len(s) - n + 1})
           t == LastOf(s, n)
<1>1. Len(s) \in Nat
  OBVIOUS
<1>2. a = IF Len(s) - n + 1 <= 1 THEN 1 ELSE Len(s) - n + 1
  <2> DEFINE b == IF Len(s) - n + 1 <= 1 THEN 1 ELSE Len(s) - n + 1
  <2>1. b \in {1, Len(s) - n + 1} /\ \A y \in {1, Len(s) - n + 1} : b >= y
    BY <1>1
  <2>2. \A x \in {1, Len(s) - n + 1} : (\A y \in {1, Len(s) - n + 1} : x >= y) => x = b
    BY <1>1
  <2> QED BY <2>1, <2>2 DEF Max
<1>3. t = SubSeq(s, a, Len(s))
  BY DEF LastOf
<1> HIDE DEF a, t
<1>4. a \in 1 .. Len(s) + 1 /\ Len(s) - (a - 1) <= n
  BY <1>1, <1>2
<1>5. /\ t \in Seq(S) /\ Len(t) = Len(s) - (a - 1)
      /\ \A i \in 1 .. Len(s) - (a - 1) : t[i] = s[i + (a - 1)]
  <2>1. a \in Nat /\ 1 <= a /\ a <= Len(s) + 1
    BY <1>1, <1>4
  <2>2. /\ SubSeq(s, a, Len(s)) \in Seq(S)
        /\ Len(SubSeq(s, a, Len(s))) = Len(s) - (a - 1)
        /\ \A i \in 1 .. Len(s) - (a - 1) : SubSeq(s, a, Len(s))[i] = s[i + (a - 1)]
    BY <2>1, Suffix
  <2> QED BY <1>3, <2>2
<1>6. a - 1 = Len(s) - Len(t) /\ Len(t) <= n /\ Len(t) <= Len(s)
  BY <1>1, <1>4, <1>5
<1>7. \A i \in 1 .. Len(t) : i + (a - 1) \in 1 .. Len(s) /\ t[i] = s[i + (a - 1)]
  BY <1>1, <1>4, <1>5
<1>8. \A i \in 1 .. Len(t) : i + (Len(s) - Len(t)) \in 1 .. Len(s) /\ t[i] = s[i + (Len(s) - Len(t))]
  BY <1>6, <1>7
<1> QED BY <1>5, <1>6, <1>8 DEF t

-----------------------------------------------------------------------------
(* Types                                                                   *)

LedgerTypes ==
    /\ active_states \subseteq Members \X Keys
    /\ \A k \in Keys : projectiles[k] \in {None} \cup
           [owner : Members, alive : BOOLEAN, reporters : SUBSET Members]
    /\ \A u \in Members : pickup_requests[u] \in {None} \cup
           [key : Keys, status : {"pending", "approved"}]
    /\ \A u \in Members : \A rows \in {hit_receipts[u], death_receipts[u]} :
           rows \in Seq(Witnesses) /\ Len(rows) <= WitnessLimit
    /\ spawned_collectibles \subseteq Keys
    /\ motion_payloads \in [Members -> Positions \cup {None}]
    /\ DOMAIN projectiles = Keys /\ DOMAIN pickup_requests = Members
    /\ DOMAIN hit_receipts = Members /\ DOMAIN death_receipts = Members

RelayTypes ==
    /\ last_sequence \in [Members -> Nat]
    /\ pair_selections \in [Members -> Members \cup {None}]
    /\ pair_versions \in [Members -> Nat]
    /\ cache \in Seq([message : Messages, left : SUBSET Members]) /\ Len(cache) <= CacheLimit
    /\ log \in [Members -> Seq(Messages)]
    /\ inbox \in [Members -> [Members -> Seq(Messages)]]

BattleTypes == LedgerTypes /\ RelayTypes

\* A ledger of receipts stays cut to its limit when a row is added or used.
LEMMA RowsStep ==
    ASSUME LedgerTypes, NEW u \in Members, NEW ledger \in {hit_receipts, death_receipts},
           NEW row \in Witnesses, NEW i
    PROVE  /\ Capped(Append(ledger[u], row)) \in Seq(Witnesses)
           /\ Len(Capped(Append(ledger[u], row))) <= WitnessLimit
           /\ i \in DOMAIN ledger[u] => /\ RemoveAt(ledger[u], i) \in Seq(Witnesses)
                                        /\ Len(RemoveAt(ledger[u], i)) <= WitnessLimit
<1> DEFINE s == ledger[u]
<1>1. s \in Seq(Witnesses) /\ Len(s) \in Nat /\ Len(s) <= WitnessLimit /\ WitnessLimit \in Nat \ {0}
  BY RelayAssumption DEF LedgerTypes, RelayAssumption
<1> HIDE DEF s
<1>2. Capped(Append(s, row)) \in Seq(Witnesses) /\ Len(Capped(Append(s, row))) <= WitnessLimit
  <2> DEFINE w == Append(s, row)
             t == LastOf(w, WitnessLimit)
  <2>1. w \in Seq(Witnesses) /\ t = LastOf(w, WitnessLimit)
    BY <1>1
  <2>2. Capped(Append(s, row)) = t
    BY DEF Capped, LastOf
  <2> HIDE DEF w, t
  <2> QED BY <1>1, <2>1, <2>2, LastOnes
<1>3. ASSUME i \in DOMAIN s
      PROVE  RemoveAt(s, i) \in Seq(Witnesses) /\ Len(RemoveAt(s, i)) <= WitnessLimit
  <2> DEFINE a == SubSeq(s, 1, i - 1)
             b == SubSeq(s, i + 1, Len(s))
  <2>1. a \in Seq(Witnesses) /\ Len(a) = i - 1 /\ b \in Seq(Witnesses) /\ Len(b) = Len(s) - i
    BY <1>1, <1>3
  <2>2. RemoveAt(s, i) = a \o b
    BY DEF RemoveAt
  <2> HIDE DEF a, b
  <2>3. a \o b \in Seq(Witnesses) /\ Len(a \o b) = Len(a) + Len(b)
    BY <2>1
  <2> QED BY <1>1, <1>3, <2>1, <2>2, <2>3
<1> QED BY <1>2, <1>3 DEF s

\* Each event goes to the handler of its kind.
LEMMA Handled ==
    ASSUME NEW f \in Families, NEW m \in Traffic[f], Handle(m)
    PROVE  \/ m.kind \in {"apply", "cancel"} /\ State(m)
           \/ m.kind \in {"create", "hit", "result", "destroy"} /\ Projectile(m)
           \/ m.kind \in {"request", "withdraw", "approve", "refuse", "complete"} /\ Pickup(m)
           \/ m.kind \in {"damage", "receipt"} /\ Receipt(m)
           \/ m.kind \in {"select", "unselect", "transform"} /\ Pair(m)
           \/ m.kind = "report" /\ OwnReport(m)
           \/ m.kind = "slip" /\ OwnedSlip(m)
           \/ m.kind \in {"death", "countdown"} /\ DeathNotice(m)
           \/ m.kind = "spawn" /\ SpawnCollectible(m)
           \/ m.kind = "move" /\ Move(m)
<1> DEFINE kind == m.kind
<1>1. CASE kind \in {"apply", "cancel", "create", "hit", "result", "destroy"}
  BY <1>1 DEF Handle
<1>2. CASE kind \in {"request", "withdraw", "approve", "refuse", "complete", "damage", "receipt"}
  BY <1>2 DEF Handle
<1>3. CASE kind \in {"select", "unselect", "transform", "report", "slip"}
  BY <1>3 DEF Handle
<1>4. CASE kind \in {"death", "countdown", "spawn", "move"}
  BY <1>4 DEF Handle
<1>5. \/ kind \in {"apply", "cancel", "create", "hit", "result", "destroy"}
      \/ kind \in {"request", "withdraw", "approve", "refuse", "complete", "damage", "receipt"}
      \/ kind \in {"select", "unselect", "transform", "report", "slip"}
      \/ kind \in {"death", "countdown", "spawn", "move"}
  <2>1. f \in Battles
    BY RelayAssumption DEF RelayAssumption, Battles
  <2> QED BY <2>1, MessageIs DEF Battles
<1> QED BY <1>1, <1>2, <1>3, <1>4, <1>5

\* What the handlers do with an event keeps every ledger of its type.
LEMMA LedgerStep ==
    ASSUME LedgerTypes, NEW f \in Families, NEW m \in Traffic[f], Handle(m)
    PROVE  LedgerTypes'
<1> USE DEF receipts, notices, ledgers
<1>1. /\ m.from \in Members /\ m.seq \in Nat /\ m.on \in Members \cup {None} /\ Target(m) \in Members
      /\ m.kind = "move" => m.key \in Positions
      /\ m.kind \in {"damage", "receipt"} =>
             m.key \in Statuses /\ m.on \in Members /\ m.seq \in 1 .. MaxReports
      /\ m.kind \notin {"move", "damage", "receipt"} => m.key \in Keys
  <2>1. f \in Battles
    BY RelayAssumption DEF RelayAssumption, Battles
  <2> QED BY <2>1, MessageIs DEF Battles, Target
<1>2. CASE m.kind \in {"apply", "cancel"} /\ State(m)
  BY <1>1, <1>2 DEF State, LedgerTypes
<1>3. CASE m.kind \in {"create", "hit", "result", "destroy"} /\ Projectile(m)
  <2> DEFINE k == m.key
             Rows == [owner : Members, alive : BOOLEAN, reporters : SUBSET Members]
  <2>1. k \in Keys /\ m.from \in Members
    BY <1>1, <1>3
  <2>2. UNCHANGED <<active_states, pickup_requests, hit_receipts, death_receipts, spawned_collectibles, motion_payloads>>
    BY <1>3 DEF Projectile
  <2>3. UNCHANGED projectiles \/ \E row \in Rows : projectiles' = [projectiles EXCEPT ![k] = row]
    <3>1. CASE projectiles' = [projectiles EXCEPT ![k] = [owner |-> m.from, alive |-> TRUE, reporters |-> {}]]
      BY <2>1, <3>1
    <3>2. ASSUME Flies(k), NEW seen \in SUBSET Members, projectiles' = [projectiles EXCEPT ![k].reporters = seen]
          PROVE  \E row \in Rows : projectiles' = [projectiles EXCEPT ![k] = row]
      <4>1. projectiles[k] \in Rows
        BY <2>1, <3>2 DEF Flies, LedgerTypes
      <4>2. [projectiles[k] EXCEPT !.reporters = seen] \in Rows
        BY <4>1
      <4> QED BY <3>2, <4>2
    <3>3. ASSUME Flies(k), projectiles' = [projectiles EXCEPT ![k].alive = FALSE]
          PROVE  \E row \in Rows : projectiles' = [projectiles EXCEPT ![k] = row]
      <4>1. projectiles[k] \in Rows
        BY <2>1, <3>3 DEF Flies, LedgerTypes
      <4>2. [projectiles[k] EXCEPT !.alive = FALSE] \in Rows
        BY <4>1
      <4> QED BY <3>3, <4>2
    <3>4. Flies(k) => projectiles[k].reporters \in SUBSET Members
      BY <2>1 DEF Flies, LedgerTypes
    <3>5. Flies(k) => projectiles[k].reporters \cup {m.from} \in SUBSET Members /\ Witnessed(k, m.from) \in SUBSET Members
      BY <2>1, <3>4 DEF Witnessed
    <3>6. \/ projectiles' = [projectiles EXCEPT ![k] = [owner |-> m.from, alive |-> TRUE, reporters |-> {}]]
          \/ Flies(k) /\ projectiles' = [projectiles EXCEPT ![k].reporters = projectiles[k].reporters \cup {m.from}]
          \/ UNCHANGED projectiles
          \/ Flies(k) /\ projectiles' = [projectiles EXCEPT ![k].reporters = Witnessed(k, m.from)]
          \/ Flies(k) /\ projectiles' = [projectiles EXCEPT ![k].alive = FALSE]
      BY <1>3 DEF Projectile
    <3> HIDE DEF k, Rows
    <3> QED BY <3>1, <3>2, <3>3, <3>5, <3>6
  <2> HIDE DEF k
  <2> QED BY <2>1, <2>2, <2>3 DEF LedgerTypes
<1>4. CASE m.kind \in {"request", "withdraw", "approve", "refuse", "complete"} /\ Pickup(m)
  <2> DEFINE u == Target(m)
             Rows == {None} \cup [key : Keys, status : {"pending", "approved"}]
  <2>1. u \in Members /\ m.key \in Keys
    BY <1>1, <1>4
  <2>2. UNCHANGED <<active_states, projectiles, hit_receipts, death_receipts, spawned_collectibles, motion_payloads>>
    BY <1>4 DEF Pickup
  <2>3. PICK row \in Rows : pickup_requests' = [pickup_requests EXCEPT ![u] = row]
    <3>1. \/ pickup_requests' = [pickup_requests EXCEPT ![u] = [key |-> m.key, status |-> "pending"]]
          \/ pickup_requests' = [pickup_requests EXCEPT ![u] = [key |-> m.key, status |-> "approved"]]
          \/ pickup_requests' = [pickup_requests EXCEPT ![u] = None]
      BY <1>4 DEF Pickup
    <3>2. [key |-> m.key, status |-> "pending"] \in Rows /\ [key |-> m.key, status |-> "approved"] \in Rows /\ None \in Rows
      BY <2>1
    <3> HIDE DEF u, Rows
    <3> QED BY <3>1, <3>2
  <2> HIDE DEF u
  <2> QED BY <2>1, <2>2, <2>3 DEF LedgerTypes
<1>5. CASE m.kind \in {"damage", "receipt"} /\ Receipt(m)
  <2> DEFINE u == m.from
             Lists == {rows \in Seq(Witnesses) : Len(rows) <= WitnessLimit}
             Row(status) == [source |-> m.on, status |-> status, seq |-> m.seq]
  <2>1. Row(m.key) \in Witnesses /\ Row("terminal") \in Witnesses /\ u \in Members
    BY <1>1, <1>5 DEF Witnesses, Statuses
  <2>2. \A status \in {m.key, "terminal"} : /\ Capped(Append(hit_receipts[u], Row(status))) \in Lists
                                            /\ Capped(Append(death_receipts[u], Row(status))) \in Lists
    BY <2>1, RowsStep
  <2>3. /\ \A i \in DOMAIN hit_receipts[u] : RemoveAt(hit_receipts[u], i) \in Lists
        /\ \A i \in DOMAIN death_receipts[u] : RemoveAt(death_receipts[u], i) \in Lists
    BY <2>1, RowsStep
  <2>4. /\ UNCHANGED hit_receipts \/ \E rows \in Lists : hit_receipts' = [hit_receipts EXCEPT ![u] = rows]
        /\ UNCHANGED death_receipts \/ \E rows \in Lists : death_receipts' = [death_receipts EXCEPT ![u] = rows]
    <3> DEFINE hit == FirstWitness(hit_receipts[u], m)
               death == FirstWitness(death_receipts[u], m)
    <3>1. /\ hit # {} => (CHOOSE i \in hit : TRUE) \in DOMAIN hit_receipts[u]
          /\ death # {} => (CHOOSE i \in death : TRUE) \in DOMAIN death_receipts[u]
      <4>1. hit \subseteq DOMAIN hit_receipts[u] /\ death \subseteq DOMAIN death_receipts[u]
        BY DEF FirstWitness
      <4> HIDE DEF hit, death
      <4> QED BY <4>1
    <3>2. \/ /\ hit_receipts' = [hit_receipts EXCEPT ![u] = Capped(Append(@, Row(m.key)))]
             /\ UNCHANGED death_receipts
          \/ /\ hit # {}
             /\ hit_receipts' = [hit_receipts EXCEPT ![u] = RemoveAt(@, CHOOSE i \in hit : TRUE)]
             /\ death_receipts' = IF m.key = "lethal"
                                  THEN [death_receipts EXCEPT ![u] = Capped(Append(@, Row("terminal")))]
                                  ELSE death_receipts
          \/ /\ death # {}
             /\ death_receipts' = [death_receipts EXCEPT ![u] = RemoveAt(@, CHOOSE i \in death : TRUE)]
             /\ UNCHANGED hit_receipts
      BY <1>5 DEF Receipt
    <3> HIDE DEF hit, death, Lists, u, Row
    <3> QED BY <2>2, <2>3, <3>1, <3>2
  <2>5. UNCHANGED <<active_states, projectiles, pickup_requests, spawned_collectibles, motion_payloads>>
    BY <1>5 DEF Receipt
  <2>6. /\ \A v \in Members : hit_receipts[v] \in Lists /\ death_receipts[v] \in Lists
        /\ DOMAIN hit_receipts = Members /\ DOMAIN death_receipts = Members
    BY DEF LedgerTypes
  <2>7. /\ \A v \in Members : hit_receipts'[v] \in Lists /\ death_receipts'[v] \in Lists
        /\ DOMAIN hit_receipts' = Members /\ DOMAIN death_receipts' = Members
    <3> HIDE DEF u, Lists
    <3> QED BY <2>1, <2>4, <2>6
  <2> QED BY <2>5, <2>7 DEF LedgerTypes
<1>6. CASE m.kind = "spawn" /\ SpawnCollectible(m)
  BY <1>1, <1>6 DEF SpawnCollectible, LedgerTypes
<1>7. CASE m.kind = "move" /\ Move(m)
  BY <1>1, <1>7 DEF Move, LedgerTypes
<1>8. CASE UNCHANGED ledgers
  BY <1>8 DEF LedgerTypes
<1>9. \/ m.kind \in {"apply", "cancel"} /\ State(m)
      \/ m.kind \in {"create", "hit", "result", "destroy"} /\ Projectile(m)
      \/ m.kind \in {"request", "withdraw", "approve", "refuse", "complete"} /\ Pickup(m)
      \/ m.kind \in {"damage", "receipt"} /\ Receipt(m)
      \/ Pair(m) \/ OwnReport(m) \/ OwnedSlip(m) \/ DeathNotice(m)
      \/ m.kind = "spawn" /\ SpawnCollectible(m)
      \/ m.kind = "move" /\ Move(m)
  BY Handled
<1>10. Pair(m) \/ OwnReport(m) \/ OwnedSlip(m) \/ DeathNotice(m) => UNCHANGED ledgers
  BY DEF Pair, OwnReport, OwnedSlip, DeathNotice
<1> QED BY <1>2, <1>3, <1>4, <1>5, <1>6, <1>7, <1>8, <1>9, <1>10

-----------------------------------------------------------------------------
(* What a step delivers, remembers and executes                            *)

\* A delivery adds the message at the end of what its recipients have of its
\* sender.
LEMMA Delivered ==
    ASSUME RelayTypes, NEW m \in Messages, m.from \in Members, NEW to \in SUBSET Members, Deliver(m, to)
    PROVE  /\ inbox' \in [Members -> [Members -> Seq(Messages)]]
           /\ \A r, u \in Members :
                  inbox'[r][u] = IF r \in to /\ u = m.from THEN Append(inbox[r][u], m) ELSE inbox[r][u]
<1>1. inbox \in [Members -> [Members -> Seq(Messages)]]
  BY DEF RelayTypes
<1>2. \A r \in Members : [inbox[r] EXCEPT ![m.from] = Append(@, m)] \in [Members -> Seq(Messages)]
  BY <1>1
<1>3. inbox' = [r \in Members |-> IF r \in to THEN [inbox[r] EXCEPT ![m.from] = Append(@, m)] ELSE inbox[r]]
  BY DEF Deliver
<1>4. inbox' \in [Members -> [Members -> Seq(Messages)]]
  BY <1>1, <1>2, <1>3
<1>5. \A r, u \in Members :
         inbox'[r][u] = IF r \in to /\ u = m.from THEN Append(inbox[r][u], m) ELSE inbox[r][u]
  BY <1>1, <1>3
<1> QED BY <1>4, <1>5

\* The end of an extended sequence.
LEMMA Appended ==
    ASSUME NEW S, NEW s \in Seq(S), NEW e \in S
    PROVE  /\ Append(s, e) \in Seq(S) /\ Len(Append(s, e)) = Len(s) + 1 /\ Last(Append(s, e)) = e
           /\ DOMAIN Append(s, e) = DOMAIN s \cup {Len(s) + 1} /\ Len(s) + 1 \notin DOMAIN s
           /\ \A i \in DOMAIN Append(s, e) : Append(s, e)[i] = IF i = Len(s) + 1 THEN e ELSE s[i]
           /\ \A i \in DOMAIN s : i < Len(s) + 1
           /\ DOMAIN s \subseteq Nat
<1>1. /\ Append(s, e) \in Seq(S) /\ Len(Append(s, e)) = Len(s) + 1 /\ Len(s) \in Nat
      /\ \A i \in 1 .. Len(s) + 1 : Append(s, e)[i] = IF i = Len(s) + 1 THEN e ELSE s[i]
  OBVIOUS
<1>2. DOMAIN Append(s, e) = 1 .. Len(s) + 1 /\ DOMAIN s = 1 .. Len(s)
  BY <1>1
<1>3. Last(Append(s, e)) = e
  BY <1>1 DEF Last
<1> QED BY <1>1, <1>2, <1>3

\* The last entries of an extended sequence: some of what was, each once, and
\* the new one.
Some(kept, c, e) == \A i \in DOMAIN kept : kept[i] = e \/ \E j \in DOMAIN c : kept[i] = c[j]
Once(kept, c, e) ==
    \A i, k \in DOMAIN kept :
        \/ i = k
        \/ kept[i] = e /\ \E j \in DOMAIN c : kept[k] = c[j]
        \/ kept[k] = e /\ \E j \in DOMAIN c : kept[i] = c[j]
        \/ \E j, l \in DOMAIN c : j # l /\ kept[i] = c[j] /\ kept[k] = c[l]
LEMMA LastAppended ==
    ASSUME NEW S, NEW c \in Seq(S), NEW e \in S, NEW n \in Nat \ {0}, NEW kept, kept = LastOf(Append(c, e), n)
    PROVE  kept \in Seq(S) /\ Len(kept) <= n /\ Some(kept, c, e) /\ Once(kept, c, e)
<1> DEFINE s == Append(c, e)
           d == Len(s) - Len(kept)
<1>1. s \in Seq(S)
  OBVIOUS
<1>2. /\ DOMAIN s = DOMAIN c \cup {Len(c) + 1} /\ Len(c) + 1 \notin DOMAIN c
      /\ \A i \in DOMAIN s : s[i] = IF i = Len(c) + 1 THEN e ELSE c[i]
  BY Appended
<1> HIDE DEF s
<1>3. kept = LastOf(s, n)
  BY DEF s
<1>4. /\ kept \in Seq(S) /\ Len(kept) <= n /\ Len(kept) <= Len(s)
      /\ \A i \in 1 .. Len(kept) : i + d \in 1 .. Len(s) /\ kept[i] = s[i + d]
  <2>1. /\ LastOf(s, n) \in Seq(S) /\ Len(LastOf(s, n)) <= n /\ Len(LastOf(s, n)) <= Len(s)
        /\ \A i \in 1 .. Len(LastOf(s, n)) :
               /\ i + (Len(s) - Len(LastOf(s, n))) \in 1 .. Len(s)
               /\ LastOf(s, n)[i] = s[i + (Len(s) - Len(LastOf(s, n)))]
    BY <1>1, LastOnes
  <2> QED BY <1>3, <2>1
<1>5. d \in Nat /\ DOMAIN kept = 1 .. Len(kept) /\ DOMAIN s = 1 .. Len(s) /\ Len(kept) \in Nat
  BY <1>1, <1>4
<1> HIDE DEF d
<1>6. \A i, k \in DOMAIN kept : i + d = k + d => i = k
  BY <1>5
<1>7. Some(kept, c, e)
  BY SMTT(30), <1>2, <1>4, <1>5 DEF Some
<1>8. ASSUME NEW i \in DOMAIN kept, NEW k \in DOMAIN kept, i # k
      PROVE  \/ kept[i] = e /\ \E j \in DOMAIN c : kept[k] = c[j]
             \/ kept[k] = e /\ \E j \in DOMAIN c : kept[i] = c[j]
             \/ \E j, l \in DOMAIN c : j # l /\ kept[i] = c[j] /\ kept[k] = c[l]
  <2>1. i + d # k + d /\ i + d \in DOMAIN s /\ k + d \in DOMAIN s /\ kept[i] = s[i + d] /\ kept[k] = s[k + d]
    BY <1>4, <1>5, <1>6, <1>8
  <2> QED BY <1>2, <2>1
<1> QED BY <1>4, <1>7, <1>8 DEF Once

\* What is remembered after an event.
Entries == [message : Messages, left : SUBSET Members]
LEMMA Cached ==
    ASSUME RelayTypes, NEW e \in Entries, NEW kept, kept = Newest(Append(cache, e))
    PROVE  kept \in Seq(Entries) /\ Len(kept) <= CacheLimit /\ Some(kept, cache, e) /\ Once(kept, cache, e)
<1>1. cache \in Seq(Entries) /\ CacheLimit \in Nat \ {0}
  BY RelayAssumption DEF RelayTypes, RelayAssumption, Entries
<1>2. kept = LastOf(Append(cache, e), CacheLimit)
  BY DEF Newest, LastOf
<1> QED BY <1>1, <1>2, LastAppended

-----------------------------------------------------------------------------
(* The steps, as far as the relay is concerned                             *)

Executing == family \in Families /\ \E m \in Traffic[family] : \E targets \in Recipients(m.from) : Execute(m, targets)
Repeating == family \in Families /\ \E m \in Traffic[family] : \E targets \in Recipients(m.from) : Repeat(m, targets)
Expiring == \E u \in Members : ExpirePair(u)
Aside ==
    /\ UNCHANGED <<ledgers, pairs, cache, log, inbox>>
    /\ last_sequence' \in [Members -> Nat]
    /\ \A u \in Members : last_sequence'[u] >= last_sequence[u]

\* The Host's modes touch nothing of the relay but, by TCP, the last number.
LEMMA StepKinds ==
    ASSUME RelayTypes, [BattleNext]_allVars
    PROVE  family' = family /\ (Executing \/ Repeating \/ Expiring \/ Aside)
<1>1. last_sequence \in [Members -> Nat]
  BY DEF RelayTypes
<1>2. UNCHANGED relayVars => Aside
  BY <1>1 DEF relayVars, Aside
<1>3. CASE UNCHANGED allVars
  <2>1. UNCHANGED relayVars /\ family' = family
    BY <1>3 DEF allVars, vars, relayVars
  <2> QED BY <1>2, <2>1
<1>4. CASE BattleNext
  <2>0. family' = family
    BY <1>4 DEF BattleNext
  <2>1. CASE Next
    BY <2>0, <2>1 DEF Next, Executing, Repeating, Expiring
  <2>2. ASSUME NEW u \in Members, NEW seq \in 1 .. MaxDecisions, NEW tcp \in BOOLEAN, NEW next, Decided(u, seq, tcp, next)
        PROVE  Aside
    <3>1. UNCHANGED <<ledgers, pairs, cache, log, inbox>>
      BY <2>2 DEF Decided
    <3>2. last_sequence' = IF tcp THEN [last_sequence EXCEPT ![u] = seq] ELSE last_sequence
      BY <2>2 DEF Decided
    <3>3. seq \in Nat /\ (tcp => seq > last_sequence[u])
      BY <2>2, HostModesAssumption DEF Decided, Counts, HostModesAssumption
    <3>4. last_sequence' \in [Members -> Nat] /\ \A v \in Members : last_sequence'[v] >= last_sequence[v]
      BY <1>1, <3>2, <3>3
    <3> QED BY <3>1, <3>4 DEF Aside
  <2>3. ASSUME NEW seq \in 1 .. MaxDecisions, NEW tcp \in BOOLEAN,
               \/ \E scores \in Scores : Interval(seq, tcp, scores)
               \/ Continue(seq, tcp) \/ Finishing(seq, tcp)
               \/ \E u \in Members : seq <= MaxSequence /\ Ready(u, seq, tcp)
        PROVE  Aside
    <3>1. Host \in Members
      BY RelayAssumption DEF RelayAssumption
    <3>2. CASE \E scores \in Scores : Interval(seq, tcp, scores)
      BY <2>2, <3>1, <3>2 DEF Interval
    <3>3. CASE Continue(seq, tcp)
      BY <2>2, <3>1, <3>3 DEF Continue
    <3>4. CASE Finishing(seq, tcp)
      BY <2>2, <3>1, <3>4 DEF Finishing
    <3>5. CASE \E u \in Members : Ready(u, seq, tcp)
      BY <2>2, <3>5 DEF Ready
    <3> QED BY <2>3, <3>2, <3>3, <3>4, <3>5
  <2>4. CASE SeriesNext
    <3>1. \/ Aside
          \/ \E scores \in Scores : SeriesResult(scores)
          \/ \E u \in Members : View(u) \/ Return(u)
      BY <2>3, <2>4 DEF SeriesNext
    <3>2. (\E scores \in Scores : SeriesResult(scores)) \/ (\E u \in Members : View(u) \/ Return(u)) => UNCHANGED relayVars
      BY DEF SeriesResult, View, Return
    <3> QED BY <1>2, <2>0, <3>1, <3>2
  <2>5. CASE NpcNext /\ UNCHANGED <<stage, result_acks, outcome, series, rounds, relayVars>>
    BY <1>2, <2>0, <2>5
  <2>6. CASE \E clear \in BOOLEAN : Result(clear)
    BY <1>2, <2>0, <2>6 DEF Result
  <2>7. CASE \E u \in Members : Acknowledge(u)
    BY <1>2, <2>0, <2>7 DEF Acknowledge
  <2> QED BY <1>4, <2>1, <2>4, <2>5, <2>6, <2>7 DEF BattleNext
<1> QED BY <1>3, <1>4

\* Who is to hear of an event fights in the battle.
LEMMA OutputsAre ==
    ASSUME NEW f \in Families, NEW m \in Traffic[f]
    PROVE  Outputs(m) \subseteq Members
<1>1. /\ m.kind \in {"receipt", "countdown"} => m.on \in Members
      /\ Host \in Members
  BY MessageIs, RelayAssumption DEF RelayAssumption
<1> QED BY <1>1 DEF Outputs

\* The relay's attributes keep their types.
LEMMA RelayTypesKept ==
    ASSUME RelayTypes, [BattleNext]_allVars
    PROVE  RelayTypes'
<1>1. ASSUME family \in Families, NEW m \in Traffic[family], NEW targets \in Recipients(m.from), Execute(m, targets)
      PROVE  RelayTypes'
  <2>1. m \in Messages /\ m.from \in Members /\ m.seq \in Nat /\ m.on \in Members \cup {None}
    BY <1>1, MessageIs
  <2>2. Outputs(m) \subseteq Members
    BY <1>1, OutputsAre
  <2> DEFINE to == targets \cap Outputs(m)
             e == [message |-> m, left |-> Outputs(m) \ to]
  <2>3. to \in SUBSET Members /\ e \in Entries
    BY <2>1, <2>2 DEF Entries
  <2>4. /\ last_sequence' = [last_sequence EXCEPT ![m.from] = m.seq]
        /\ cache' = Newest(Append(cache, e))
        /\ log' = [log EXCEPT ![m.from] = Append(@, m)]
        /\ Deliver(m, to)
        /\ Observe(m, to)
    BY <1>1 DEF Execute
  <2> HIDE DEF to, e
  <2>5. cache' \in Seq(Entries) /\ Len(cache') <= CacheLimit
    BY <2>3, <2>4, Cached
  <2>6. inbox' \in [Members -> [Members -> Seq(Messages)]]
    BY <2>1, <2>3, <2>4, Delivered
  <2>7. /\ pair_selections' \in [Members -> Members \cup {None}]
        /\ pair_versions' \in [Members -> Nat]
    BY <2>1, <2>4 DEF Observe, pairs, RelayTypes
  <2>8. log' \in [Members -> Seq(Messages)]
    BY <2>1, <2>4 DEF RelayTypes
  <2>9. last_sequence' \in [Members -> Nat]
    BY <2>1, <2>4 DEF RelayTypes
  <2> QED BY <2>5, <2>6, <2>7, <2>8, <2>9 DEF RelayTypes, Entries
<1>2. ASSUME family \in Families, NEW m \in Traffic[family], NEW targets \in Recipients(m.from), Repeat(m, targets)
      PROVE  RelayTypes'
  <2>1. m \in Messages /\ m.from \in Members /\ m.seq \in Nat /\ m.on \in Members \cup {None}
    BY <1>2, MessageIs
  <2>2. PICK i \in DOMAIN cache :
            LET to == targets \cap cache[i].left
            IN  /\ cache' = [cache EXCEPT ![i].left = @ \ to]
                /\ Deliver(m, to)
                /\ Observe(m, to)
                /\ UNCHANGED <<last_sequence, log>>
    BY <1>2 DEF Repeat
  <2> DEFINE to == targets \cap cache[i].left
  <2>3. cache \in Seq(Entries) /\ cache[i] \in Entries /\ cache[i].left \in SUBSET Members
    <3>1. cache \in Seq(Entries)
      BY DEF RelayTypes, Entries
    <3>2. cache[i] \in Entries
      BY <3>1
    <3> QED BY <3>1, <3>2 DEF Entries
  <2>4. to \in SUBSET Members
    BY <2>3
  <2>5. /\ cache' = [cache EXCEPT ![i].left = cache[i].left \ to]
        /\ Deliver(m, to) /\ Observe(m, to) /\ UNCHANGED <<last_sequence, log>>
    BY <2>2
  <2> HIDE DEF to
  <2>6. cache' \in Seq(Entries) /\ Len(cache') = Len(cache)
    <3>1. [cache[i] EXCEPT !.left = cache[i].left \ to] \in Entries
      BY <2>3 DEF Entries
    <3>2. cache' = [cache EXCEPT ![i] = [cache[i] EXCEPT !.left = cache[i].left \ to]]
      BY <2>5
    <3> QED BY <2>3, <3>1, <3>2
  <2>7. inbox' \in [Members -> [Members -> Seq(Messages)]]
    BY <2>1, <2>4, <2>5, Delivered
  <2>8. /\ pair_selections' \in [Members -> Members \cup {None}]
        /\ pair_versions' \in [Members -> Nat]
    BY <2>1, <2>5 DEF Observe, pairs, RelayTypes
  <2> QED BY <2>5, <2>6, <2>7, <2>8 DEF RelayTypes, Entries
<1>3. ASSUME NEW u \in Members, ExpirePair(u)
      PROVE  RelayTypes'
  BY <1>3 DEF ExpirePair, RelayTypes
<1>4. Aside => RelayTypes'
  BY DEF Aside, RelayTypes, pairs
<1> QED BY <1>1, <1>2, <1>3, <1>4, StepKinds DEF Executing, Repeating, Expiring

\* The ledgers keep theirs: only an executed event changes them.
LEMMA LedgerTypesKept ==
    ASSUME BattleTypes, [BattleNext]_allVars
    PROVE  LedgerTypes'
<1>1. LedgerTypes /\ RelayTypes
  BY DEF BattleTypes
<1>2. CASE Executing
  BY <1>1, <1>2, LedgerStep DEF Executing, Execute
<1>3. CASE Repeating \/ Expiring \/ Aside
  <2>1. UNCHANGED ledgers
    BY <1>3 DEF Repeating, Repeat, Expiring, ExpirePair, Aside
  <2> QED BY <1>1, <2>1 DEF LedgerTypes, ledgers, receipts, notices
<1> QED BY <1>1, <1>2, <1>3, StepKinds

\* Every attribute of a battle has its type from the start.
LEMMA TypesInvariant == BattleSpec => []BattleTypes
<1>1. BattleInit => BattleTypes
  <2> SUFFICES ASSUME BattleInit PROVE BattleTypes
    OBVIOUS
  <2>1. LedgerTypes
    BY RelayAssumption DEF BattleInit, RelayInit, LedgerTypes, RelayAssumption
  <2>2. RelayTypes
    BY RelayAssumption DEF BattleInit, RelayInit, RelayTypes, RelayAssumption
  <2> QED BY <2>1, <2>2 DEF BattleTypes
<1>2. BattleTypes /\ [BattleNext]_allVars => BattleTypes'
  BY RelayTypesKept, LedgerTypesKept DEF BattleTypes
<1> QED BY <1>1, <1>2, PTL DEF BattleSpec

-----------------------------------------------------------------------------
(* What orders the delivery                                                *)

\* Movements are exchanged among movements only.
LEMMA MoveAlone ==
    ASSUME NEW m, NEW n, NEW u, NEW v, Sent(m, u), Sent(n, v)
    PROVE  /\ m.kind = "move" <=> n.kind = "move"
           /\ m.seq \in Nat /\ n.seq \in Nat
<1>1. family \in Families /\ m \in Traffic[family] /\ n \in Traffic[family] /\ family \in Battles
  BY RelayAssumption DEF Sent, RelayAssumption, Battles
<1>2. /\ (m.kind = "move" <=> family = "motion") /\ m.seq \in Nat
      /\ (n.kind = "move" <=> family = "motion") /\ n.seq \in Nat
  BY <1>1, MessageIs DEF Battles
<1> QED BY <1>2

\* An event that is executed is of a later number than everything that is
\* remembered of its sender, unless it is another movement of one action.
LEMMA FreshIsLast ==
    ASSUME RelayTypes, Reached, NEW m, Sent(m, m.from), Fresh(m),
           NEW n, Sent(n, m.from), n.seq <= last_sequence[m.from]
    PROVE  /\ n.seq < m.seq \/ (n.kind = "move" /\ n.seq = m.seq)
           /\ n.kind # "move" => n.seq < m.seq
           /\ n.seq <= m.seq
<1>1. last_sequence[m.from] \in Nat
  <2>1. m.from \in Members
    BY MessageIs DEF Sent
  <2> QED BY <2>1 DEF RelayTypes
<1>2. (m.kind = "move" <=> n.kind = "move") /\ m.seq \in Nat /\ n.seq \in Nat
  BY MoveAlone
<1>3. m.seq > last_sequence[m.from] \/ (m.kind = "move" /\ m.seq = last_sequence[m.from])
  BY DEF Fresh
<1> QED BY <1>1, <1>2, <1>3

\* A delivery keeps the order if its message is later than what its
\* recipients have.
LEMMA OrderKept ==
    ASSUME RelayTypes, Ordered, NEW m \in Messages, m.from \in Members, NEW to \in SUBSET Members, Deliver(m, to),
           \A r \in to : \A j \in DOMAIN inbox[r][m.from] :
               LET n == inbox[r][m.from][j]
               IN  n.seq < m.seq \/ (n.kind = "move" /\ n.seq = m.seq)
    PROVE  Ordered'
<1> SUFFICES ASSUME NEW r \in Members, NEW u \in Members,
                    NEW i \in DOMAIN inbox'[r][u], NEW j \in DOMAIN inbox'[r][u], i < j
             PROVE  LET n == inbox'[r][u][i]  later == inbox'[r][u][j]
                    IN  n.seq < later.seq \/ (n.kind = "move" /\ n.seq = later.seq)
  BY DEF Ordered
<1>1. inbox'[r][u] = IF r \in to /\ u = m.from THEN Append(inbox[r][u], m) ELSE inbox[r][u]
  BY Delivered
<1>2. CASE ~(r \in to /\ u = m.from)
  BY <1>1, <1>2 DEF Ordered
<1>3. CASE r \in to /\ u = m.from
  <2> DEFINE s == inbox[r][u]
  <2>1. s \in Seq(Messages)
    BY DEF RelayTypes
  <2>2. inbox'[r][u] = Append(s, m)
    BY <1>1, <1>3
  <2>3. \A k, l \in DOMAIN s : k < l => s[k].seq < s[l].seq \/ (s[k].kind = "move" /\ s[k].seq = s[l].seq)
    BY DEF Ordered
  <2>4. \A k \in DOMAIN s : s[k].seq < m.seq \/ (s[k].kind = "move" /\ s[k].seq = m.seq)
    BY <1>3
  <2> HIDE DEF s
  <2>5. /\ DOMAIN Append(s, m) = 1 .. Len(s) + 1 /\ Len(s) \in Nat /\ DOMAIN s = 1 .. Len(s)
        /\ \A k \in DOMAIN Append(s, m) : Append(s, m)[k] = IF k = Len(s) + 1 THEN m ELSE s[k]
    BY <2>1, Appended
  <2>6. i \in DOMAIN s /\ inbox'[r][u][i] = s[i]
    BY <2>2, <2>5
  <2>7. CASE j = Len(s) + 1
    BY <2>2, <2>4, <2>5, <2>6, <2>7
  <2>8. CASE j # Len(s) + 1
    BY <2>2, <2>3, <2>5, <2>6, <2>8
  <2> QED BY <2>7, <2>8
<1> QED BY <1>2, <1>3

\* What a member has heard after a delivery.
LEMMA HeardNow ==
    ASSUME RelayTypes, NEW m \in Messages, m.from \in Members, NEW to \in SUBSET Members, Deliver(m, to)
    PROVE  \A r, u \in Members :
               /\ \A i \in DOMAIN inbox'[r][u] :
                      \/ i \in DOMAIN inbox[r][u] /\ inbox'[r][u][i] = inbox[r][u][i]
                      \/ r \in to /\ u = m.from /\ inbox'[r][u][i] = m
               /\ \A i \in DOMAIN inbox[r][u] : i \in DOMAIN inbox'[r][u] /\ inbox'[r][u][i] = inbox[r][u][i]
               /\ r \in to /\ u = m.from => \E i \in DOMAIN inbox'[r][u] : inbox'[r][u][i] = m
<1> TAKE r, u \in Members
<1> DEFINE s == inbox[r][u]
<1>1. s \in Seq(Messages)
  BY DEF RelayTypes
<1>2. inbox'[r][u] = IF r \in to /\ u = m.from THEN Append(s, m) ELSE s
  BY Delivered
<1>3. /\ DOMAIN Append(s, m) = DOMAIN s \cup {Len(s) + 1} /\ Len(s) + 1 \notin DOMAIN s
      /\ \A k \in DOMAIN Append(s, m) : Append(s, m)[k] = IF k = Len(s) + 1 THEN m ELSE s[k]
  <2> HIDE DEF s
  <2> QED BY <1>1, Appended
<1> QED
  <2> HIDE DEF s
  <2>1. CASE r \in to /\ u = m.from
    <3>1. inbox'[r][u] = Append(s, m)
      BY <1>2, <2>1
    <3> QED BY <1>3, <2>1, <3>1 DEF s
  <2>2. CASE ~(r \in to /\ u = m.from)
    BY <1>2, <2>2 DEF s
  <2> QED BY <2>1, <2>2

\* What has been executed after one event more.
LEMMA LoggedNow ==
    ASSUME RelayTypes, NEW m \in Messages, m.from \in Members, log' = [log EXCEPT ![m.from] = Append(@, m)]
    PROVE  \A u \in Members :
               /\ \A i \in DOMAIN log'[u] :
                      \/ i \in DOMAIN log[u] /\ log'[u][i] = log[u][i]
                      \/ u = m.from /\ log'[u][i] = m /\ i = Len(log[u]) + 1
               /\ \A i \in DOMAIN log[u] : i \in DOMAIN log'[u] /\ log'[u][i] = log[u][i]
               /\ u = m.from => \E i \in DOMAIN log'[u] : log'[u][i] = m
               /\ u = m.from => Last(log'[u]) = m /\ Len(log'[u]) > Len(log[u])
               /\ u # m.from => log'[u] = log[u]
<1> TAKE u \in Members
<1> DEFINE s == log[u]
<1>1. s \in Seq(Messages) /\ Len(s) \in Nat
  BY DEF RelayTypes
<1>2. log'[u] = IF u = m.from THEN Append(s, m) ELSE s
  BY DEF RelayTypes
<1>3. /\ DOMAIN Append(s, m) = DOMAIN s \cup {Len(s) + 1} /\ Len(s) + 1 \notin DOMAIN s
      /\ Last(Append(s, m)) = m /\ Len(Append(s, m)) = Len(s) + 1
      /\ \A k \in DOMAIN Append(s, m) : Append(s, m)[k] = IF k = Len(s) + 1 THEN m ELSE s[k]
  <2> HIDE DEF s
  <2> QED BY <1>1, Appended
<1> QED
  <2> HIDE DEF s
  <2>1. CASE u = m.from
    <3>1. log'[u] = Append(s, m)
      BY <1>2, <2>1
    <3>2. Len(s) + 1 > Len(s)
      BY <1>1
    <3> QED BY <1>3, <2>1, <3>1, <3>2 DEF s
  <2>2. CASE u # m.from
    BY <1>2, <2>2 DEF s
  <2> QED BY <2>1, <2>2

\* An event that is executed keeps what orders the delivery.
LEMMA RememberingExecuted ==
    ASSUME RelayTypes, RelayTypes', Remembering, family' = family, family \in Families,
           NEW m \in Traffic[family], NEW targets \in Recipients(m.from), Execute(m, targets)
    PROVE  Remembering'
<1> DEFINE to == targets \cap Outputs(m)
           e == [message |-> m, left |-> Outputs(m) \ to]
<1>1. Reached /\ Numbering /\ Ordered
  BY DEF Remembering
<1>2. m \in Messages /\ m.from \in Members /\ m.seq \in Nat /\ Sent(m, m.from)
  BY MessageIs DEF Sent
<1>3. to \in SUBSET Members /\ e \in Entries
  BY <1>2, OutputsAre DEF Entries
<1>4. /\ Fresh(m) /\ last_sequence' = [last_sequence EXCEPT ![m.from] = m.seq]
      /\ cache' = Newest(Append(cache, e))
      /\ log' = [log EXCEPT ![m.from] = Append(@, m)]
      /\ Deliver(m, to)
  BY DEF Execute
<1>5. e.message = m /\ \A r \in e.left : r \in Members /\ r \notin to
  BY <1>2, OutputsAre
<1> HIDE DEF to, e
<1>6. last_sequence[m.from] \in Nat /\ m.seq >= last_sequence[m.from]
  BY <1>2, <1>4 DEF RelayTypes, Fresh
<1>7. /\ last_sequence'[m.from] = m.seq
      /\ \A u \in Members : /\ last_sequence[u] \in Nat /\ last_sequence'[u] \in Nat
                            /\ last_sequence'[u] >= last_sequence[u]
  <2>1. last_sequence \in [Members -> Nat]
    BY DEF RelayTypes
  <2> QED BY <1>2, <1>4, <1>6, <2>1
<1>8. \A n : Sent(n, m.from) /\ n.seq <= last_sequence[m.from] =>
             /\ n.seq < m.seq \/ (n.kind = "move" /\ n.seq = m.seq)
             /\ n.kind # "move" => n.seq < m.seq
             /\ n.seq \in Nat
  BY <1>1, <1>2, <1>4, FreshIsLast, MoveAlone
<1>9. \A n : Sent(n, m.from) => (m.kind = "move" <=> n.kind = "move")
  BY <1>2, MoveAlone
<1>10. \A n, u : Sent(n, u) => n.seq \in Nat
  BY MoveAlone
<1>11. Some(cache', cache, e) /\ Once(cache', cache, e)
  BY <1>3, <1>4, Cached
<1>12. \A r, u \in Members :
          \A i \in DOMAIN inbox'[r][u] :
                      \/ i \in DOMAIN inbox[r][u] /\ inbox'[r][u][i] = inbox[r][u][i]
                      \/ r \in to /\ u = m.from /\ inbox'[r][u][i] = m
  BY <1>2, <1>3, <1>4, HeardNow
<1>13. \A u \in Members :
               /\ \A i \in DOMAIN log'[u] :
                      \/ i \in DOMAIN log[u] /\ log'[u][i] = log[u][i]
                      \/ u = m.from /\ log'[u][i] = m /\ i = Len(log[u]) + 1
               /\ \A i \in DOMAIN log[u] : i \in DOMAIN log'[u] /\ log'[u][i] = log[u][i]
               /\ u = m.from => \E i \in DOMAIN log'[u] : log'[u][i] = m
               /\ u = m.from => Last(log'[u]) = m /\ Len(log'[u]) > Len(log[u])
               /\ u # m.from => log'[u] = log[u]
  BY <1>2, <1>4, LoggedNow
<1>14. Ordered'
  <2>1. \A r \in to : \A j \in DOMAIN inbox[r][m.from] :
            LET n == inbox[r][m.from][j]
            IN  n.seq < m.seq \/ (n.kind = "move" /\ n.seq = m.seq)
    BY <1>1, <1>2, <1>3, <1>8 DEF Reached
  <2> QED BY <1>1, <1>2, <1>3, <1>4, <2>1, OrderKept
<1>15. Reached'
  <2>1. ASSUME NEW r \in Members, NEW u \in Members, NEW i \in DOMAIN inbox'[r][u]
        PROVE  Sent(inbox'[r][u][i], u) /\ inbox'[r][u][i].seq <= last_sequence'[u]
    <3>1. CASE i \in DOMAIN inbox[r][u] /\ inbox'[r][u][i] = inbox[r][u][i]
      <4>1. Sent(inbox[r][u][i], u) /\ inbox[r][u][i].seq <= last_sequence[u]
        BY <1>1, <3>1 DEF Reached
      <4>2. Sent(inbox[r][u][i], u) /\ inbox[r][u][i].seq \in Nat
        BY <1>10, <3>1, <4>1
      <4> QED BY <1>7, <3>1, <4>1, <4>2
    <3>2. CASE u = m.from /\ inbox'[r][u][i] = m
      BY <1>2, <1>7, <3>2
    <3> QED BY <1>12, <3>1, <3>2
  <2>2. ASSUME NEW u \in Members, NEW i \in DOMAIN log'[u]
        PROVE  Sent(log'[u][i], u) /\ log'[u][i].seq <= last_sequence'[u]
    <3>1. CASE i \in DOMAIN log[u] /\ log'[u][i] = log[u][i]
      <4>1. Sent(log[u][i], u) /\ log[u][i].seq <= last_sequence[u]
        BY <1>1, <3>1 DEF Reached
      <4>2. log[u][i].seq \in Nat
        BY <1>10, <4>1
      <4> QED BY <1>7, <3>1, <4>1, <4>2
    <3>2. CASE u = m.from /\ log'[u][i] = m
      BY <1>2, <1>7, <3>2
    <3> QED BY <1>13, <3>1, <3>2
  <2>3. ASSUME NEW i \in DOMAIN cache'
        PROVE  LET n == cache'[i].message
               IN  Sent(n, n.from) /\ n.seq <= last_sequence'[n.from] /\ \E j \in DOMAIN log'[n.from] : log'[n.from][j] = n
    <3>1. CASE cache'[i] = e
      BY <1>2, <1>5, <1>7, <1>13, <3>1
    <3>2. ASSUME NEW j \in DOMAIN cache, cache'[i] = cache[j]
          PROVE  LET n == cache'[i].message
                 IN  Sent(n, n.from) /\ n.seq <= last_sequence'[n.from] /\ \E l \in DOMAIN log'[n.from] : log'[n.from][l] = n
      <4> DEFINE n == cache[j].message
      <4>1. Sent(n, n.from) /\ n.seq <= last_sequence[n.from] /\ \E l \in DOMAIN log[n.from] : log[n.from][l] = n
        BY <1>1 DEF Reached
      <4> HIDE DEF n
      <4>2. n.seq \in Nat /\ n.from \in Members
        BY <4>1, MessageIs DEF Sent
      <4>3. Sent(n, n.from) /\ n.seq <= last_sequence'[n.from] /\ \E l \in DOMAIN log'[n.from] : log'[n.from][l] = n
        BY <1>7, <1>13, <4>1, <4>2
      <4> QED BY <3>2, <4>3 DEF n
    <3> QED BY <1>11, <3>1, <3>2 DEF Some
  <2> QED BY <2>1, <2>2, <2>3 DEF Reached, Sent
<1>16. Numbering'
  <2>1. ASSUME NEW u \in Members, NEW i \in DOMAIN log'[u], NEW j \in DOMAIN log'[u],
               log'[u][i].kind # "move", log'[u][i].seq = log'[u][j].seq
        PROVE  i = j
    <3>1. \A k \in DOMAIN log[u] : Sent(log[u][k], u) /\ log[u][k].seq <= last_sequence[u] /\ log[u][k].seq \in Nat
      BY <1>1, <1>10 DEF Reached
    <3>2. CASE i \in DOMAIN log[u] /\ j \in DOMAIN log[u]
      BY <1>1, <1>13, <2>1, <3>2 DEF Numbering
    <3>3. CASE u = m.from /\ i = Len(log[u]) + 1 /\ j = Len(log[u]) + 1
      BY <3>3
    <3>4. ASSUME u = m.from, NEW k \in DOMAIN log[u], log[u][k].seq = m.seq, m.kind # "move" \/ log[u][k].kind # "move"
          PROVE  FALSE
      BY <1>2, <1>8, <1>9, <3>1, <3>4
    <3> QED BY <1>13, <2>1, <3>2, <3>3, <3>4
  <2>2. ASSUME NEW i \in DOMAIN cache', NEW j \in DOMAIN cache',
               LET n == cache'[i].message
               IN  n.kind # "move" /\ n.from = cache'[j].message.from /\ n.seq = cache'[j].message.seq
        PROVE  i = j
    <3>1. \A k \in DOMAIN cache : LET n == cache[k].message IN Sent(n, n.from) /\ n.seq <= last_sequence[n.from]
      BY <1>1 DEF Reached
    <3>2. ASSUME NEW k \in DOMAIN cache, cache[k].message.from = m.from, cache[k].message.seq = m.seq,
                 m.kind # "move" \/ cache[k].message.kind # "move"
          PROVE  FALSE
      BY <1>2, <1>8, <1>9, <3>1, <3>2
    <3>3. ASSUME NEW k \in DOMAIN cache, NEW l \in DOMAIN cache, k # l, cache'[i] = cache[k], cache'[j] = cache[l]
          PROVE  FALSE
      BY <1>1, <2>2, <3>3 DEF Numbering
    <3> QED BY <1>5, <1>11, <2>2, <3>2, <3>3 DEF Once
  <2>3. ASSUME NEW i \in DOMAIN cache', cache'[i].message.kind # "move", NEW r \in cache'[i].left,
               NEW j \in DOMAIN inbox'[r][cache'[i].message.from]
        PROVE  inbox'[r][cache'[i].message.from][j].seq # cache'[i].message.seq
    <3>0. \A v, u \in Members : \A k \in DOMAIN inbox[v][u] :
              Sent(inbox[v][u][k], u) /\ inbox[v][u][k].seq <= last_sequence[u]
      BY <1>1 DEF Reached
    <3>1. CASE cache'[i] = e
      <4>1. r \in Members /\ r \notin to /\ cache'[i].message = m
        BY <1>5, <2>3, <3>1
      <4>2. j \in DOMAIN inbox[r][m.from] /\ inbox'[r][m.from][j] = inbox[r][m.from][j]
        BY <1>2, <1>12, <2>3, <4>1
      <4> QED BY <1>2, <1>8, <1>9, <2>3, <3>0, <4>1, <4>2
    <3>2. ASSUME NEW k \in DOMAIN cache, cache'[i] = cache[k]
          PROVE  inbox'[r][cache[k].message.from][j].seq # cache[k].message.seq
      <4> DEFINE n == cache[k].message
      <4>1. n.kind # "move" /\ Sent(n, n.from) /\ n.seq <= last_sequence[n.from] /\ n.from \in Members
            /\ r \in cache[k].left /\ j \in DOMAIN inbox'[r][n.from]
        BY <1>1, <2>3, <3>2, MessageIs DEF Reached, Sent
      <4>2. r \in Members
        <5>1. cache \in Seq(Entries)
          BY DEF RelayTypes, Entries
        <5>2. cache[k] \in Entries
          BY <5>1
        <5> QED BY <4>1, <5>2 DEF Entries
      <4>3. CASE j \in DOMAIN inbox[r][n.from] /\ inbox'[r][n.from][j] = inbox[r][n.from][j]
        BY <1>1, <4>1, <4>3 DEF Numbering
      <4>4. CASE n.from = m.from /\ inbox'[r][n.from][j] = m
        <5> HIDE DEF n
        <5>1. n.seq < m.seq /\ n.seq \in Nat
          BY <1>8, <4>1, <4>4
        <5> QED BY <1>2, <4>4, <5>1 DEF n
      <4> QED BY <1>12, <4>1, <4>2, <4>3, <4>4
    <3> QED BY <1>11, <3>1, <3>2 DEF Some
  <2> QED BY <2>1, <2>2, <2>3 DEF Numbering
<1> QED BY <1>14, <1>15, <1>16 DEF Remembering

\* A copy that is delivered is of its sender's last event, and of none that
\* its recipients have had.
LEMMA CopyIsLast ==
    ASSUME RelayTypes, Reached, Numbering, NEW m, ~Superseded(m), NEW i \in DOMAIN cache, cache[i].message = m
    PROVE  /\ m \in Messages /\ m.from \in Members /\ Sent(m, m.from)
           /\ m.seq = last_sequence[m.from] /\ m.seq \in Nat
           /\ cache[i].left \in SUBSET Members
           /\ \A r \in cache[i].left : \A j \in DOMAIN inbox[r][m.from] :
                  LET n == inbox[r][m.from][j]
                  IN  n.seq < m.seq \/ (n.kind = "move" /\ n.seq = m.seq)
<1>1. Sent(m, m.from) /\ m.seq <= last_sequence[m.from]
  BY DEF Reached
<1>2. m \in Messages /\ m.from \in Members /\ m.seq \in Nat
  BY <1>1, MessageIs DEF Sent
<1>3. last_sequence[m.from] \in Nat
  BY <1>2 DEF RelayTypes
<1>4. m.seq = last_sequence[m.from]
  BY <1>1, <1>2, <1>3 DEF Superseded
<1>5. cache[i].left \in SUBSET Members
  <2>1. cache \in Seq(Entries)
    BY DEF RelayTypes, Entries
  <2>2. cache[i] \in Entries
    BY <2>1
  <2> QED BY <2>2 DEF Entries
<1>6. ASSUME NEW r \in cache[i].left, NEW j \in DOMAIN inbox[r][m.from]
      PROVE  LET n == inbox[r][m.from][j]
             IN  n.seq < m.seq \/ (n.kind = "move" /\ n.seq = m.seq)
  <2> DEFINE n == inbox[r][m.from][j]
  <2>1. r \in Members
    BY <1>5
  <2>2. Sent(n, m.from) /\ n.seq <= last_sequence[m.from]
    BY <1>2, <2>1 DEF Reached
  <2>3. m.kind # "move" => n.seq # m.seq
    BY DEF Numbering
  <2> HIDE DEF n
  <2>4. (m.kind = "move" <=> n.kind = "move") /\ n.seq \in Nat
    BY <1>1, <2>2, MoveAlone
  <2>5. n.seq < m.seq \/ (n.kind = "move" /\ n.seq = m.seq)
    BY <1>2, <1>4, <2>2, <2>3, <2>4
  <2> QED BY <2>5 DEF n
<1> QED BY <1>1, <1>2, <1>4, <1>5, <1>6

\* So does a copy that is delivered.
LEMMA RememberingRepeated ==
    ASSUME RelayTypes, RelayTypes', Remembering, family' = family,
           NEW m \in Messages, NEW targets \in Recipients(m.from), Repeat(m, targets)
    PROVE  Remembering'
<1>1. Reached /\ Numbering /\ Ordered
  BY DEF Remembering
<1>2. PICK e \in DOMAIN cache :
          LET to == targets \cap cache[e].left
          IN  /\ cache[e].message = m /\ ~Superseded(m)
              /\ cache' = [cache EXCEPT ![e].left = @ \ to]
              /\ Deliver(m, to)
              /\ UNCHANGED <<last_sequence, log>>
  BY DEF Repeat
<1> DEFINE to == targets \cap cache[e].left
<1>3. /\ m \in Messages /\ m.from \in Members /\ Sent(m, m.from)
      /\ m.seq = last_sequence[m.from] /\ m.seq \in Nat
      /\ cache[e].left \in SUBSET Members
      /\ \A r \in cache[e].left : \A j \in DOMAIN inbox[r][m.from] :
                  LET n == inbox[r][m.from][j]
                  IN  n.seq < m.seq \/ (n.kind = "move" /\ n.seq = m.seq)
  BY <1>1, <1>2, CopyIsLast
<1>4. to \in SUBSET Members /\ to \subseteq cache[e].left
  BY <1>3
<1>5. /\ cache' = [cache EXCEPT ![e].left = cache[e].left \ to]
      /\ Deliver(m, to) /\ last_sequence' = last_sequence /\ log' = log
  BY <1>2
<1> HIDE DEF to
<1>6. DOMAIN cache' = DOMAIN cache /\ \A i \in DOMAIN cache :
          /\ cache'[i].message = cache[i].message
          /\ cache'[i].left = IF i = e THEN cache[i].left \ to ELSE cache[i].left
  <2>1. cache \in Seq(Entries)
    BY DEF RelayTypes, Entries
  <2>2. cache[e] \in Entries
    BY <2>1
  <2>3. DOMAIN cache' = DOMAIN cache /\ \A i \in DOMAIN cache :
            cache'[i] = IF i = e THEN [cache[e] EXCEPT !.left = cache[e].left \ to] ELSE cache[i]
    BY <1>5, <2>1
  <2>4. /\ [cache[e] EXCEPT !.left = cache[e].left \ to].message = cache[e].message
        /\ [cache[e] EXCEPT !.left = cache[e].left \ to].left = cache[e].left \ to
    BY <2>2 DEF Entries
  <2> QED BY <2>3, <2>4
<1>7. \A r, u \in Members :
          \A i \in DOMAIN inbox'[r][u] :
                      \/ i \in DOMAIN inbox[r][u] /\ inbox'[r][u][i] = inbox[r][u][i]
                      \/ r \in to /\ u = m.from /\ inbox'[r][u][i] = m
  BY <1>3, <1>4, <1>5, HeardNow
<1>8. Ordered'
  <2>1. \A r \in to : \A j \in DOMAIN inbox[r][m.from] :
            LET n == inbox[r][m.from][j]
            IN  n.seq < m.seq \/ (n.kind = "move" /\ n.seq = m.seq)
    BY <1>3, <1>4
  <2> QED BY <1>1, <1>3, <1>4, <1>5, <2>1, OrderKept
<1>9. Reached'
  <2>1. ASSUME NEW r \in Members, NEW u \in Members, NEW i \in DOMAIN inbox'[r][u]
        PROVE  Sent(inbox'[r][u][i], u) /\ inbox'[r][u][i].seq <= last_sequence[u]
    <3>1. CASE i \in DOMAIN inbox[r][u] /\ inbox'[r][u][i] = inbox[r][u][i]
      BY <1>1, <3>1 DEF Reached
    <3>2. CASE u = m.from /\ inbox'[r][u][i] = m
      BY <1>3, <3>2
    <3> QED BY <1>7, <3>1, <3>2
  <2>2. \A u \in Members : \A i \in DOMAIN log[u] : Sent(log[u][i], u) /\ log[u][i].seq <= last_sequence[u]
    BY <1>1 DEF Reached
  <2>3. \A i \in DOMAIN cache' :
            LET n == cache'[i].message
            IN  Sent(n, n.from) /\ n.seq <= last_sequence[n.from] /\ \E j \in DOMAIN log[n.from] : log[n.from][j] = n
    BY <1>1, <1>6 DEF Reached
  <2> QED BY <1>5, <2>1, <2>2, <2>3 DEF Reached, Sent
<1>10. Numbering'
  <2>1. \A u \in Members : \A i, j \in DOMAIN log[u] :
           log[u][i].kind # "move" /\ log[u][i].seq = log[u][j].seq => i = j
    BY <1>1 DEF Numbering
  <2>2. \A i, j \in DOMAIN cache' :
           LET n == cache'[i].message
           IN  n.kind # "move" /\ n.from = cache'[j].message.from /\ n.seq = cache'[j].message.seq => i = j
    BY ZenonT(60), <1>1, <1>6 DEF Numbering
  <2>3. ASSUME NEW i \in DOMAIN cache, cache[i].message.kind # "move", NEW r \in cache'[i].left,
               NEW j \in DOMAIN inbox'[r][cache[i].message.from]
        PROVE  inbox'[r][cache[i].message.from][j].seq # cache[i].message.seq
    <3> DEFINE n == cache[i].message
    <3>1. n.from \in Members
      BY <1>1, MessageIs DEF Reached, Sent
    <3>2. r \in cache[i].left /\ (i = e => r \notin to)
      BY <1>6, <2>3
    <3>3. r \in Members
      <4>1. cache \in Seq(Entries)
        BY DEF RelayTypes, Entries
      <4>2. cache[i] \in Entries
        BY <4>1
      <4> QED BY <3>2, <4>2 DEF Entries
    <3>4. CASE j \in DOMAIN inbox[r][n.from] /\ inbox'[r][n.from][j] = inbox[r][n.from][j]
      BY <1>1, <2>3, <3>2, <3>4 DEF Numbering
    <3>5. CASE r \in to /\ n.from = m.from /\ inbox'[r][n.from][j] = m
      <4>1. i # e
        BY <3>2, <3>5
      <4>2. n.seq # m.seq
        BY <1>1, <1>2, <2>3, <3>5, <4>1 DEF Numbering
      <4> QED BY <3>5, <4>2
    <3> QED BY <1>7, <2>3, <3>1, <3>3, <3>4, <3>5
  <2>4. \A i \in DOMAIN cache' :
           LET n == cache'[i].message
           IN  n.kind # "move" => \A r \in cache'[i].left : \A j \in DOMAIN inbox'[r][n.from] :
                                      inbox'[r][n.from][j].seq # n.seq
    <3> SUFFICES ASSUME NEW i \in DOMAIN cache', cache'[i].message.kind # "move", NEW r \in cache'[i].left,
                        NEW j \in DOMAIN inbox'[r][cache'[i].message.from]
                 PROVE  inbox'[r][cache'[i].message.from][j].seq # cache'[i].message.seq
      OBVIOUS
    <3>1. i \in DOMAIN cache /\ cache'[i].message = cache[i].message
      BY <1>6
    <3> QED BY <2>3, <3>1
  <2>5. \A u \in Members : \A i, j \in DOMAIN log'[u] :
           log'[u][i].kind # "move" /\ log'[u][i].seq = log'[u][j].seq => i = j
    BY <1>5, <2>1
  <2> QED BY <2>2, <2>4, <2>5 DEF Numbering
<1> QED BY <1>8, <1>9, <1>10 DEF Remembering

\* In every state of a battle the types and the order hold.
LEMMA RememberingInvariant == BattleSpec => [](BattleTypes /\ Remembering)
<1>1. BattleInit => Remembering
  BY DEF BattleInit, RelayInit, Remembering, Reached, Numbering, Ordered
<1>2. BattleTypes /\ Remembering /\ BattleTypes' /\ [BattleNext]_allVars => Remembering'
  <2> SUFFICES ASSUME RelayTypes, RelayTypes', Remembering, [BattleNext]_allVars
               PROVE  Remembering'
    BY DEF BattleTypes
  <2>1. family' = family /\ (Executing \/ Repeating \/ Expiring \/ Aside)
    BY StepKinds
  <2>2. CASE Executing
    BY <2>1, <2>2, RememberingExecuted DEF Executing
  <2>3. CASE Repeating
    <3>1. PICK m \in Traffic[family] : \E targets \in Recipients(m.from) : Repeat(m, targets)
      BY <2>3 DEF Repeating
    <3>2. m \in Messages
      BY <2>3, MessageIs DEF Repeating
    <3> QED BY <2>1, <3>1, <3>2, RememberingRepeated
  <2>4. CASE Expiring \/ Aside
    <3>1. UNCHANGED <<cache, log, inbox>>
      BY <2>4 DEF Expiring, ExpirePair, Aside
    <3>2. \A u \in Members : last_sequence[u] \in Nat /\ last_sequence'[u] \in Nat /\ last_sequence'[u] >= last_sequence[u]
      BY <2>4 DEF Expiring, ExpirePair, Aside, RelayTypes
    <3>3. \A n, u : Sent(n, u) => n.seq \in Nat /\ u \in Members
      BY MessageIs DEF Sent
    <3>4. \A n, u : Sent(n, u) /\ n.seq <= last_sequence[u] => n.seq <= last_sequence'[u]
      BY <3>2, <3>3
    <3>5. Reached'
      <4>1. /\ \A r, u \in Members : \A i \in DOMAIN inbox[r][u] :
                   Sent(inbox[r][u][i], u) /\ inbox[r][u][i].seq <= last_sequence'[u]
            /\ \A u \in Members : \A i \in DOMAIN log[u] : Sent(log[u][i], u) /\ log[u][i].seq <= last_sequence'[u]
        BY <3>4 DEF Remembering, Reached
      <4>2. \A i \in DOMAIN cache :
                LET m == cache[i].message
                IN  Sent(m, m.from) /\ m.seq <= last_sequence'[m.from] /\ \E j \in DOMAIN log[m.from] : log[m.from][j] = m
        BY <3>4 DEF Remembering, Reached
      <4> QED BY <2>1, <3>1, <4>1, <4>2 DEF Reached, Sent
    <3>6. Numbering' /\ Ordered'
      BY <3>1 DEF Remembering, Numbering, Ordered
    <3> QED BY <3>5, <3>6 DEF Remembering
  <2> QED BY <2>1, <2>2, <2>3, <2>4
<1> QED BY <1>1, <1>2, TypesInvariant, PTL DEF BattleSpec

\* Nobody gets an event of a sender twice or after a later one, over both
\* transports and however the cache was cut (Superseded and left in
\* dispatch_public); and every attribute keeps its type and its limit.
THEOREM DeliveredInOrder == BattleSpec => []InOrder
<1>1. BattleTypes /\ Remembering => InOrder
  BY DEF BattleTypes, LedgerTypes, RelayTypes, Remembering, Ordered, InOrder, TypeOK
<1> QED BY <1>1, RememberingInvariant, PTL

-----------------------------------------------------------------------------
(* What a step tells, promises and lets happen                             *)

\* The one that grows in a delivery, and in an execution.
LEMMA OneHears ==
    ASSUME RelayTypes, NEW m \in Messages, m.from \in Members, NEW to \in SUBSET Members, Deliver(m, to),
           NEW r \in Members, NEW u \in Members, Len(inbox'[r][u]) > Len(inbox[r][u])
    PROVE  Last(inbox'[r][u]) = m
<1>1. inbox'[r][u] = IF r \in to /\ u = m.from THEN Append(inbox[r][u], m) ELSE inbox[r][u]
  BY Delivered
<1> DEFINE s == inbox[r][u]
<1>2. s \in Seq(Messages)
  BY DEF RelayTypes
<1>3. Len(s) \in Nat /\ Last(Append(s, m)) = m
  <2> HIDE DEF s
  <2> QED BY <1>2, Appended
<1>4. inbox'[r][u] # s
  <2>1. ~(Len(s) > Len(s))
    BY <1>3
  <2> QED BY <2>1
<1> QED BY <1>1, <1>3, <1>4

LEMMA OneActs ==
    ASSUME RelayTypes, NEW m \in Messages, m.from \in Members, log' = [log EXCEPT ![m.from] = Append(@, m)],
           NEW u \in Members, Len(log'[u]) > Len(log[u])
    PROVE  u = m.from /\ Last(log'[u]) = m
<1>1. Len(log[u]) \in Nat
  BY DEF RelayTypes
<1>2. log'[u] # log[u]
  <2>1. ~(Len(log[u]) > Len(log[u]))
    BY <1>1
  <2> QED BY <2>1
<1>3. u = m.from
  BY <1>2, LoggedNow
<1>4. u = m.from => Last(log'[u]) = m
  BY LoggedNow
<1> QED BY <1>3, <1>4

\* What is executed, or told once more, is so.
LEMMA ExecutedHolds ==
    ASSUME LedgerTypes, NEW f \in Families, NEW m \in Traffic[f], Handle(m)
    PROVE  Holding(m)
<1>1. CASE m.kind \in {"apply", "cancel"}
  <2>1. State(m)
    BY <1>1, Handled
  <2> QED BY <1>1, <2>1 DEF State, Holding
<1>2. CASE m.kind \in {"create", "hit", "result"}
  <2>1. Projectile(m)
    BY <1>2, Handled
  <2>2. m.key \in Keys /\ DOMAIN projectiles = Keys /\ m.from \in Members
    BY <1>2, MessageIs DEF LedgerTypes
  <2> DEFINE k == m.key
  <2>3. Flies(k) => projectiles[k] \in [owner : Members, alive : BOOLEAN, reporters : SUBSET Members] /\ projectiles[k].alive
    BY <2>2 DEF Flies, LedgerTypes
  <2>4. CASE m.kind = "create"
    BY <2>1, <2>2, <2>4 DEF Projectile, Holding
  <2>5. CASE m.kind = "hit"
    BY <2>1, <2>2, <2>3, <2>5 DEF Projectile, Holding
  <2>6. CASE m.kind = "result"
    <3>1. Flies(k) /\ (UNCHANGED projectiles \/ \E rs : projectiles' = [projectiles EXCEPT ![k].reporters = rs])
      BY <2>1, <2>6 DEF Projectile
    <3>2. projectiles'[k].alive
      BY <2>2, <2>3, <3>1
    <3> QED BY <2>6, <3>2 DEF Holding
  <2> QED BY <1>2, <2>4, <2>5, <2>6
<1>3. CASE m.kind \notin {"apply", "cancel", "create", "hit", "result"}
  BY <1>3 DEF Holding
<1> QED BY <1>1, <1>2, <1>3

\* A delayed copy tells nobody what is no longer so (the guards of the copies
\* in dispatch_public), whatever happened since the event.
THEOREM NothingStaleTold == BattleSpec => NothingStale
<1> DEFINE A == \A r, u \in Members :
                    Len(inbox'[r][u]) > Len(inbox[r][u]) => Holding(Last(inbox'[r][u]))
<1>1. BattleTypes /\ Remembering /\ [BattleNext]_allVars => A
  <2> SUFFICES ASSUME LedgerTypes, RelayTypes, Remembering, [BattleNext]_allVars,
                      NEW r \in Members, NEW u \in Members, Len(inbox'[r][u]) > Len(inbox[r][u])
               PROVE  Holding(Last(inbox'[r][u]))
    BY DEF BattleTypes
  <2>1. ASSUME family \in Families, NEW m \in Traffic[family], NEW targets \in Recipients(m.from), Execute(m, targets)
        PROVE  Holding(Last(inbox'[r][u]))
    <3>1. m \in Messages /\ m.from \in Members /\ Outputs(m) \subseteq Members
      BY <2>1, MessageIs, OutputsAre
    <3> DEFINE to == targets \cap Outputs(m)
    <3>2. to \in SUBSET Members /\ Deliver(m, to) /\ Handle(m)
      BY <2>1, <3>1 DEF Execute
    <3> HIDE DEF to
    <3>3. Last(inbox'[r][u]) = m
      BY <3>1, <3>2, OneHears
    <3>4. Holding(m)
      BY <2>1, <3>2, ExecutedHolds
    <3> QED BY <3>3, <3>4
  <2>2. ASSUME family \in Families, NEW m \in Traffic[family], NEW targets \in Recipients(m.from), Repeat(m, targets)
        PROVE  Holding(Last(inbox'[r][u]))
    <3>1. m \in Messages /\ m.from \in Members
      BY <2>2, MessageIs
    <3>2. PICK i \in DOMAIN cache : cache[i].message = m /\ Deliver(m, targets \cap cache[i].left)
      BY <2>2 DEF Repeat
    <3>3. ~Superseded(m) /\ UNCHANGED ledgers
      BY <2>2 DEF Repeat
    <3> DEFINE to == targets \cap cache[i].left
    <3>4. to \in SUBSET Members
      BY <3>2, <3>3, CopyIsLast DEF Remembering
    <3>5. Deliver(m, to)
      BY <3>2
    <3> HIDE DEF to
    <3>6. Last(inbox'[r][u]) = m
      BY <3>1, <3>4, <3>5, OneHears
    <3>7. Holding(m)
      BY <3>3 DEF Superseded, Holding, Flies, ledgers
    <3> QED BY <3>6, <3>7
  <2>3. CASE Expiring \/ Aside
    <3>1. inbox' = inbox
      BY <2>3 DEF Expiring, ExpirePair, Aside
    <3>2. Len(inbox[r][u]) \in Nat
      BY DEF RelayTypes
    <3>3. ~(Len(inbox[r][u]) > Len(inbox[r][u]))
      BY <3>2
    <3> QED BY <3>1, <3>3
  <2> QED BY <2>1, <2>2, <2>3, StepKinds DEF Executing, Repeating
<1>2. BattleTypes /\ Remembering /\ [BattleNext]_allVars => [A]_vars
  BY <1>1
<1> QED BY <1>2, RememberingInvariant, PTL DEF BattleSpec, NothingStale

-----------------------------------------------------------------------------
(* Items and pairs                                                         *)

\* An event that is executed promises an item once.
LEMMA PromiseKept ==
    ASSUME LedgerTypes, OnePromise, NEW f \in Families, NEW m \in Traffic[f], Handle(m)
    PROVE  /\ OnePromise'
           /\ m.kind \in {"approve", "complete"} => ~Reserved(m.key, Members \ {Target(m)})
           /\ m.kind = "complete" /\ m.from # Host => Holds(m.from, m.key, "approved")
<1>1. CASE m.kind \in {"request", "withdraw", "approve", "refuse", "complete"}
  <2> DEFINE u == Target(m)
             k == m.key
  <2>1. Pickup(m)
    BY <1>1, Handled
  <2>2. u \in Members /\ k \in Keys /\ (m.kind = "complete" => u = m.from)
    BY <1>1, MessageIs DEF Target
  <2>3. DOMAIN pickup_requests = Members
    BY DEF LedgerTypes
  <2>4. CASE m.kind = "approve"
    <3>1. Grantable(u, k) /\ pickup_requests' = [pickup_requests EXCEPT ![u] = [key |-> k, status |-> "approved"]]
      BY <2>1, <2>4 DEF Pickup
    <3>2. ~Reserved(k, Members \ {u})
      BY <3>1 DEF Grantable
    <3>3. ASSUME NEW v \in Members, NEW w \in Members, NEW j \in Keys,
                 pickup_requests'[v] = [key |-> j, status |-> "approved"],
                 pickup_requests'[w] = [key |-> j, status |-> "approved"]
          PROVE  v = w
      <4> HIDE DEF u, k
      <4>1. [key |-> k, status |-> "approved"] = [key |-> j, status |-> "approved"] => k = j
        OBVIOUS
      <4>2. \A x \in Members \ {u} : pickup_requests'[x] = pickup_requests[x] /\ ~Holds(x, k, "approved")
        BY <2>3, <3>1, <3>2 DEF Reserved
      <4>3. pickup_requests'[u] = [key |-> k, status |-> "approved"]
        BY <2>2, <2>3, <3>1
      <4>4. CASE v # u /\ w # u
        BY <3>3, <4>2, <4>4 DEF OnePromise, Holds
      <4>5. CASE v = u /\ w # u
        BY <3>3, <4>1, <4>2, <4>3, <4>5 DEF Holds
      <4>6. CASE v # u /\ w = u
        BY <3>3, <4>1, <4>2, <4>3, <4>6 DEF Holds
      <4> QED BY <4>4, <4>5, <4>6
    <3> QED BY <2>4, <3>2, <3>3 DEF OnePromise, Holds
  <2>5. CASE m.kind \in {"request", "withdraw", "refuse", "complete"}
    <3>1. \/ pickup_requests' = [pickup_requests EXCEPT ![u] = None]
          \/ pickup_requests' = [pickup_requests EXCEPT ![u] = [key |-> k, status |-> "pending"]]
      BY <2>1, <2>5 DEF Pickup
    <3>2. \A v \in Members : v # u => pickup_requests'[v] = pickup_requests[v]
      BY <2>3, <3>1
    <3>3. pickup_requests'[u] = None \/ pickup_requests'[u] = [key |-> k, status |-> "pending"]
      BY <2>2, <2>3, <3>1
    <3>4. m.kind = "complete" => /\ ~Reserved(k, Members \ {u})
                                 /\ m.from # Host => Holds(m.from, k, "approved")
      <4>1. m.kind = "complete" => IF u = Host THEN ~Reserved(k, Members) ELSE Holds(u, k, "approved")
        BY <2>1 DEF Pickup
      <4> QED BY <2>2, <4>1 DEF OnePromise, Reserved
    <3>5. OnePromise'
      <4> SUFFICES ASSUME NEW v \in Members, NEW w \in Members, NEW j \in Keys,
                          pickup_requests'[v] = [key |-> j, status |-> "approved"],
                          pickup_requests'[w] = [key |-> j, status |-> "approved"]
                   PROVE  v = w
        BY DEF OnePromise, Holds
      <4>0. pickup_requests'[u] # [key |-> j, status |-> "approved"]
        <5>1. [key |-> k, status |-> "pending"] # [key |-> j, status |-> "approved"]
          OBVIOUS
        <5>2. None # [key |-> j, status |-> "approved"]
          BY RelayAssumption DEF RelayAssumption
        <5> QED BY <3>3, <5>1, <5>2
      <4> QED BY <3>2, <4>0 DEF OnePromise, Holds
    <3> QED BY <2>5, <3>4, <3>5
  <2> QED BY <1>1, <2>4, <2>5
<1>2. CASE m.kind \notin {"request", "withdraw", "approve", "refuse", "complete"}
  <2>1. UNCHANGED pickup_requests
    BY <1>2, Handled DEF State, Projectile, Receipt, Pair, OwnReport, OwnedSlip, DeathNotice,
                         SpawnCollectible, Move, ledgers
  <2> QED BY <1>2, <2>1 DEF OnePromise, Holds
<1> QED BY <1>1, <1>2

\* An item is promised to one member at a time, and taken by whom it is
\* promised to (9000 to 9002), however requests, approvals and withdrawals
\* cross.
THEOREM PickupsHonoured == BattleSpec => ReservationHonoured
<1> DEFINE A == \A u \in Members :
                    LET m == Last(log'[u])
                    IN  Len(log'[u]) > Len(log[u]) =>
                            /\ m.kind \in {"approve", "complete"} =>
                                   ~Reserved(m.key, Members \ {Target(m)})
                            /\ m.kind = "complete" /\ u # Host => Holds(u, m.key, "approved")
<1>1. BattleInit => OnePromise
  <2>1. \A k \in Keys : None # [key |-> k, status |-> "approved"]
    BY RelayAssumption DEF RelayAssumption
  <2> QED BY <2>1 DEF BattleInit, RelayInit, OnePromise, Holds
<1>2. BattleTypes /\ OnePromise /\ [BattleNext]_allVars => OnePromise' /\ A
  <2> SUFFICES ASSUME LedgerTypes, RelayTypes, OnePromise, [BattleNext]_allVars
               PROVE  OnePromise' /\ A
    BY DEF BattleTypes
  <2>1. ASSUME family \in Families, NEW m \in Traffic[family], NEW targets \in Recipients(m.from), Execute(m, targets)
        PROVE  OnePromise' /\ A
    <3>1. m \in Messages /\ m.from \in Members
      BY <2>1, MessageIs
    <3>2. Handle(m) /\ log' = [log EXCEPT ![m.from] = Append(@, m)]
      BY <2>1 DEF Execute
    <3>3. /\ OnePromise'
          /\ m.kind \in {"approve", "complete"} => ~Reserved(m.key, Members \ {Target(m)})
          /\ m.kind = "complete" /\ m.from # Host => Holds(m.from, m.key, "approved")
      BY <2>1, <3>2, PromiseKept
    <3>4. \A u \in Members : Len(log'[u]) > Len(log[u]) => u = m.from /\ Last(log'[u]) = m
      BY <3>1, <3>2, OneActs
    <3> QED BY <3>3, <3>4
  <2>2. CASE Repeating \/ Expiring \/ Aside
    <3>1. log' = log /\ pickup_requests' = pickup_requests
      BY <2>2 DEF Repeating, Repeat, Expiring, ExpirePair, Aside, ledgers
    <3>2. \A u \in Members : ~(Len(log[u]) > Len(log[u]))
      <4>1. \A u \in Members : Len(log[u]) \in Nat
        BY DEF RelayTypes
      <4> QED BY <4>1
    <3> QED BY <3>1, <3>2 DEF OnePromise, Holds
  <2> QED BY <2>1, <2>2, StepKinds DEF Executing
<1>3. BattleTypes /\ OnePromise /\ [BattleNext]_allVars => OnePromise' /\ [A]_vars
  BY <1>2
<1> QED BY <1>1, <1>3, TypesInvariant, PTL DEF BattleSpec, ReservationHonoured

\* The choice of u, its three parts.
Versioned(u) == pair_versions[u] <= last_sequence[u]
Heard(u) ==
    pair_selections[u] # None =>
        \E i \in DOMAIN inbox[pair_selections[u]][u] :
            LET m == inbox[pair_selections[u]][u][i]
            IN  m.kind = "select" /\ m.on = pair_selections[u] /\ m.seq = pair_versions[u]
Unreplaced(u) ==
    \A j \in DOMAIN log[u] :
        LET m == log[u][j]
        IN  m.seq > pair_versions[u] =>
                /\ m.kind # "unselect"
                /\ m.kind = "select" => \A i \in DOMAIN inbox[m.on][u] : inbox[m.on][u][i] # m

LEMMA ChoiceParts == ChoiceHeard <=> \A u \in Members : Versioned(u) /\ Heard(u) /\ Unreplaced(u)
BY DEF ChoiceHeard, Versioned, Heard, Unreplaced

\* A delivery of m, executed or told once more, keeps what was heard of
\* choices: m is then of its sender's last number.
LEMMA ChoiceDelivered ==
    ASSUME RelayTypes, RelayTypes', Remembering, Remembering', ChoiceHeard, family \in Families,
           NEW m \in Traffic[family], NEW to \in SUBSET Members, Deliver(m, to), Observe(m, to),
           last_sequence'[m.from] = m.seq, \A u \in Members : last_sequence'[u] >= last_sequence[u],
           \/ log' = log
           \/ log' = [log EXCEPT ![m.from] = Append(@, m)] /\ (m.kind # "move" => m.seq > last_sequence[m.from])
    PROVE  ChoiceHeard'
<1>1. /\ m \in Messages /\ m.from \in Members /\ m.seq \in Nat /\ m.on \in Members \cup {None}
      /\ m.kind = "select" => m.on \in Members
      /\ m.kind = "unselect" => m.on = None
  BY MessageIs
<1>2. \A r, u \in Members :
          /\ \A i \in DOMAIN inbox'[r][u] :
                 \/ i \in DOMAIN inbox[r][u] /\ inbox'[r][u][i] = inbox[r][u][i]
                 \/ r \in to /\ u = m.from /\ inbox'[r][u][i] = m
          /\ \A i \in DOMAIN inbox[r][u] : i \in DOMAIN inbox'[r][u] /\ inbox'[r][u][i] = inbox[r][u][i]
          /\ r \in to /\ u = m.from => \E i \in DOMAIN inbox'[r][u] : inbox'[r][u][i] = m
  BY <1>1, HeardNow
<1>3. \A u \in Members : \A i \in DOMAIN log'[u] :
          \/ i \in DOMAIN log[u] /\ log'[u][i] = log[u][i]
          \/ u = m.from /\ log'[u][i] = m /\ log' # log
  <2>1. CASE log' = log
    BY <2>1
  <2>2. CASE log' # log
    <3>1. log' = [log EXCEPT ![m.from] = Append(@, m)]
      BY <2>2
    <3>2. \A u \in Members : \A i \in DOMAIN log'[u] :
                      \/ i \in DOMAIN log[u] /\ log'[u][i] = log[u][i]
                      \/ u = m.from /\ log'[u][i] = m /\ i = Len(log[u]) + 1
      BY <1>1, <3>1, LoggedNow
    <3> QED BY <2>2, <3>2
  <2> QED BY <2>1, <2>2
<1>4. \A u \in Members : /\ last_sequence[u] \in Nat /\ last_sequence'[u] \in Nat /\ pair_versions[u] \in Nat
                         /\ pair_versions[u] <= last_sequence[u]
  BY DEF RelayTypes, ChoiceHeard
<1>5. \A u \in Members : \A i \in DOMAIN log'[u] : log'[u][i].seq <= last_sequence'[u] /\ log'[u][i].seq \in Nat
  <2>1. \A u \in Members : \A i \in DOMAIN log'[u] : log'[u][i].seq <= last_sequence'[u]
    BY DEF Remembering, Reached
  <2>2. \A u \in Members : \A i \in DOMAIN log[u] : log[u][i].seq \in Nat
    BY MessageIs DEF Remembering, Reached, Sent
  <2> QED BY <1>1, <1>3, <2>1, <2>2
<1>6. CASE Noticed(m, to)
  <2>1. /\ pair_versions' = [pair_versions EXCEPT ![m.from] = m.seq]
        /\ pair_selections' = [pair_selections EXCEPT ![m.from] = m.on]
    BY <1>6 DEF Observe
  <2>2. m.kind = "unselect" \/ (m.kind = "select" /\ m.on \in to)
    BY <1>6 DEF Noticed
  <2>3. /\ pair_versions \in [Members -> Nat] /\ pair_selections \in [Members -> Members \cup {None}]
    BY DEF RelayTypes
  <2>4. ASSUME NEW u \in Members, u = m.from
        PROVE  Versioned(u)' /\ Heard(u)' /\ Unreplaced(u)'
    <3>1. pair_versions'[u] = m.seq /\ pair_selections'[u] = m.on /\ last_sequence'[u] = m.seq
      BY <1>1, <2>1, <2>3, <2>4
    <3>2. Versioned(u)'
      BY <1>1, <3>1 DEF Versioned
    <3>3. Heard(u)'
      <4>1. CASE m.kind = "unselect"
        BY <1>1, <3>1, <4>1 DEF Heard
      <4>2. CASE m.kind = "select" /\ m.on \in to
        <5>1. \E i \in DOMAIN inbox'[m.on][u] : inbox'[m.on][u][i] = m
          BY <1>1, <1>2, <2>4, <4>2
        <5> QED BY <3>1, <4>2, <5>1 DEF Heard
      <4> QED BY <2>2, <4>1, <4>2
    <3>4. Unreplaced(u)'
      <4>1. \A i \in DOMAIN log'[u] : ~(log'[u][i].seq > pair_versions'[u])
        BY <1>1, <1>5, <3>1
      <4> QED BY <4>1 DEF Unreplaced
    <3> QED BY <3>2, <3>3, <3>4
  <2>5. ASSUME NEW u \in Members, u # m.from
        PROVE  Versioned(u)' /\ Heard(u)' /\ Unreplaced(u)'
    <3>1. pair_versions'[u] = pair_versions[u] /\ pair_selections'[u] = pair_selections[u]
      BY <1>1, <2>1, <2>3, <2>5
    <3>2. Versioned(u) /\ Heard(u) /\ Unreplaced(u) /\ pair_selections[u] \in Members \cup {None}
      BY <2>3, ChoiceParts
    <3>3. Versioned(u)'
      BY <1>4, <3>1 DEF Versioned
    <3>4. Heard(u)'
      BY <1>2, <3>1, <3>2 DEF Heard
    <3>5. Unreplaced(u)'
      <4>1. \A r \in Members : \A i \in DOMAIN inbox'[r][u] : i \in DOMAIN inbox[r][u] /\ inbox'[r][u][i] = inbox[r][u][i]
        BY <1>2, <2>5
      <4>2. \A j \in DOMAIN log'[u] : j \in DOMAIN log[u] /\ log'[u][j] = log[u][j]
        BY <1>3, <2>5
      <4>3. \A j \in DOMAIN log[u] : log[u][j].kind = "select" => log[u][j].on \in Members
        BY MessageIs DEF Remembering, Reached, Sent
      <4> QED BY <3>1, <3>2, <4>1, <4>2, <4>3 DEF Unreplaced
    <3> QED BY <3>3, <3>4, <3>5
  <2> QED BY <2>4, <2>5 DEF ChoiceHeard, Versioned, Heard, Unreplaced
<1>7. CASE ~Noticed(m, to)
  <2>1. pair_versions' = pair_versions /\ pair_selections' = pair_selections
    BY <1>7 DEF Observe, pairs
  <2>2. ASSUME NEW u \in Members
        PROVE  Versioned(u)' /\ Heard(u)' /\ Unreplaced(u)'
    <3>1. Versioned(u) /\ Heard(u) /\ Unreplaced(u) /\ pair_selections[u] \in Members \cup {None}
      BY ChoiceParts DEF RelayTypes
    <3>2. Versioned(u)'
      BY <1>4, <2>1 DEF Versioned
    <3>3. Heard(u)'
      BY <1>2, <2>1, <3>1 DEF Heard
    <3>4. ASSUME NEW j \in DOMAIN log'[u], log'[u][j].seq > pair_versions[u]
          PROVE  /\ log'[u][j].kind # "unselect"
                 /\ log'[u][j].kind = "select" =>
                        \A i \in DOMAIN inbox'[log'[u][j].on][u] : inbox'[log'[u][j].on][u][i] # log'[u][j]
      <4>1. CASE j \in DOMAIN log[u] /\ log'[u][j] = log[u][j]
        <5> DEFINE n == log[u][j]
        <5>1. /\ n.kind # "unselect"
              /\ n.kind = "select" => \A i \in DOMAIN inbox[n.on][u] : inbox[n.on][u][i] # n
          BY <3>1, <3>4, <4>1 DEF Unreplaced
        <5>2. n.kind = "select" => n.on \in Members
          BY <4>1, MessageIs DEF Remembering, Reached, Sent
        <5>3. n.seq <= last_sequence[u] /\ n.seq \in Nat
          BY <4>1, MessageIs DEF Remembering, Reached, Sent
        <5>4. ASSUME n.kind = "select", u = m.from, n.on \in to, m = n
              PROVE  FALSE
          <6>1. m.seq > pair_versions[m.from] /\ m.kind = "select" /\ m.on \in to
            BY <3>4, <4>1, <5>4
          <6> QED BY <1>7, <6>1 DEF Noticed
        <5> HIDE DEF n
        <5>5. n.kind = "select" => \A i \in DOMAIN inbox'[n.on][u] : inbox'[n.on][u][i] # n
          BY <1>2, <5>1, <5>2, <5>4
        <5> QED BY <4>1, <5>1, <5>5 DEF n
      <4>2. CASE u = m.from /\ log'[u][j] = m /\ log' # log
        <5>1. m.kind # "unselect" /\ (m.kind = "select" => m.on \notin to)
          BY <1>7, <3>4, <4>2 DEF Noticed
        <5>2. m.kind = "select" => m.seq > last_sequence[u]
          BY <4>2
        <5>3. \A r \in Members : \A i \in DOMAIN inbox[r][u] : inbox[r][u][i].seq <= last_sequence[u]
          BY DEF Remembering, Reached
        <5>4. ASSUME m.kind = "select", NEW i \in DOMAIN inbox'[m.on][u], inbox'[m.on][u][i] = m
              PROVE  FALSE
          <6>1. i \in DOMAIN inbox[m.on][u] /\ inbox[m.on][u][i] = m
            BY <1>1, <1>2, <5>1, <5>4
          <6>2. m.seq <= last_sequence[u]
            BY <1>1, <5>3, <5>4, <6>1
          <6> QED BY <1>1, <1>4, <5>2, <5>4, <6>2
        <5> QED BY <4>2, <5>1, <5>4
      <4> QED BY <1>3, <4>1, <4>2
    <3> QED BY <2>1, <3>2, <3>3, <3>4 DEF Unreplaced
  <2> QED BY <2>2 DEF ChoiceHeard, Versioned, Heard, Unreplaced
<1> QED BY <1>6, <1>7

LEMMA ChoiceKept ==
    ASSUME RelayTypes, RelayTypes', Remembering, Remembering', ChoiceHeard, [BattleNext]_allVars
    PROVE  ChoiceHeard'
<1>1. \A u \in Members : last_sequence[u] \in Nat /\ pair_versions[u] \in Nat /\ last_sequence'[u] \in Nat
  BY DEF RelayTypes
<1>2. ASSUME family \in Families, NEW m \in Traffic[family], NEW targets \in Recipients(m.from), Execute(m, targets)
      PROVE  ChoiceHeard'
  <2>1. m.from \in Members /\ m.seq \in Nat /\ Outputs(m) \subseteq Members
    BY <1>2, MessageIs, OutputsAre
  <2> DEFINE to == targets \cap Outputs(m)
  <2>2. /\ to \in SUBSET Members /\ Deliver(m, to) /\ Observe(m, to) /\ Fresh(m)
        /\ last_sequence' = [last_sequence EXCEPT ![m.from] = m.seq]
        /\ log' = [log EXCEPT ![m.from] = Append(@, m)]
    BY <1>2, <2>1 DEF Execute
  <2> HIDE DEF to
  <2>3. m.kind # "move" => m.seq > last_sequence[m.from]
    BY <2>2 DEF Fresh
  <2>4. m.seq >= last_sequence[m.from]
    BY <1>1, <2>1, <2>2 DEF Fresh
  <2>5. last_sequence'[m.from] = m.seq /\ \A u \in Members : last_sequence'[u] >= last_sequence[u]
    <3>1. last_sequence \in [Members -> Nat]
      BY DEF RelayTypes
    <3> QED BY <1>1, <2>1, <2>2, <2>4, <3>1
  <2> QED BY <1>2, <2>2, <2>3, <2>5, ChoiceDelivered
<1>3. ASSUME family \in Families, NEW m \in Traffic[family], NEW targets \in Recipients(m.from), Repeat(m, targets)
      PROVE  ChoiceHeard'
  <2>1. PICK i \in DOMAIN cache : /\ cache[i].message = m /\ ~Superseded(m)
                                  /\ Deliver(m, targets \cap cache[i].left) /\ Observe(m, targets \cap cache[i].left)
    BY <1>3 DEF Repeat
  <2>2. last_sequence' = last_sequence /\ log' = log
    BY <1>3 DEF Repeat
  <2> DEFINE to == targets \cap cache[i].left
  <2>3. m.seq = last_sequence[m.from] /\ to \in SUBSET Members
    BY <2>1, CopyIsLast DEF Remembering
  <2>4. Deliver(m, to) /\ Observe(m, to)
    BY <2>1
  <2> HIDE DEF to
  <2>5. last_sequence'[m.from] = m.seq /\ \A u \in Members : last_sequence'[u] >= last_sequence[u]
    BY <1>1, <2>2, <2>3
  <2> QED BY <1>3, <2>2, <2>3, <2>4, <2>5, ChoiceDelivered
<1>4. CASE Expiring \/ Aside
  <2>1. /\ UNCHANGED <<inbox, log, pair_versions>>
        /\ \A u \in Members : last_sequence'[u] >= last_sequence[u]
    BY <1>1, <1>4 DEF Expiring, ExpirePair, Aside, pairs
  <2>2. \A u \in Members : pair_selections'[u] = pair_selections[u] \/ pair_selections'[u] = None
    BY <1>4 DEF Expiring, ExpirePair, Aside, pairs, RelayTypes
  <2>3. ASSUME NEW u \in Members
        PROVE  Versioned(u)' /\ Heard(u)' /\ Unreplaced(u)'
    <3>1. Versioned(u) /\ Heard(u) /\ Unreplaced(u)
      BY ChoiceParts
    <3>2. Versioned(u)'
      BY <1>1, <2>1, <3>1 DEF Versioned
    <3>3. Heard(u)'
      BY <2>1, <2>2, <3>1 DEF Heard
    <3>4. Unreplaced(u)'
      BY <2>1, <3>1 DEF Unreplaced
    <3> QED BY <3>2, <3>3, <3>4
  <2> QED BY <2>3 DEF ChoiceHeard, Versioned, Heard, Unreplaced
<1> QED BY <1>2, <1>3, <1>4, StepKinds DEF Executing, Repeating

\* A paired move (8144) is made with a player who chose the mover and whose
\* choice the mover has heard, and that nobody has heard to be replaced:
\* pair_selections follows what was delivered, not what was sent
\* (observe_pair_selection).
THEOREM PairsAgreed == BattleSpec => PairsConsented
<1> DEFINE A == \A u \in Members :
                    LET m == Last(log'[u])
                    IN  Len(log'[u]) > Len(log[u]) /\ m.kind = "transform" =>
                            \E i \in DOMAIN inbox[u][m.on] :
                                LET choice == inbox[u][m.on][i]
                                IN  /\ choice.kind = "select" /\ choice.on = u
                                    /\ \A j \in DOMAIN log[m.on] :
                                           LET later == log[m.on][j]
                                           IN  later.seq > choice.seq =>
                                                   /\ later.kind # "unselect"
                                                   /\ later.kind = "select" =>
                                                          ~Contains(inbox[later.on][m.on], later)
<1>1. BattleInit => ChoiceHeard
  BY DEF BattleInit, RelayInit, ChoiceHeard
<1>2. BattleTypes /\ Remembering /\ BattleTypes' /\ Remembering' /\ ChoiceHeard /\ [BattleNext]_allVars => ChoiceHeard'
  BY ChoiceKept DEF BattleTypes
<1>3. BattleTypes /\ Remembering /\ ChoiceHeard /\ [BattleNext]_allVars => A
  <2> SUFFICES ASSUME RelayTypes, Remembering, ChoiceHeard, [BattleNext]_allVars
               PROVE  A
    BY DEF BattleTypes
  <2>1. ASSUME family \in Families, NEW m \in Traffic[family], NEW targets \in Recipients(m.from), Execute(m, targets),
               m.kind = "transform"
        PROVE  \E i \in DOMAIN inbox[m.from][m.on] :
                   LET choice == inbox[m.from][m.on][i]
                   IN  /\ choice.kind = "select" /\ choice.on = m.from
                       /\ \A j \in DOMAIN log[m.on] :
                              LET later == log[m.on][j]
                              IN  later.seq > choice.seq =>
                                      /\ later.kind # "unselect"
                                      /\ later.kind = "select" => ~Contains(inbox[later.on][m.on], later)
    <3>1. m.from \in Members /\ m.on \in Members /\ m.from # None
      BY <2>1, MessageIs, RelayAssumption DEF RelayAssumption
    <3>2. pair_selections[m.on] = m.from
      <4>1. Handle(m)
        BY <2>1 DEF Execute
      <4>2. Pair(m)
        BY <2>1, <4>1, Handled
      <4> QED BY <2>1, <4>2 DEF Pair
    <3>3. Heard(m.on) /\ Unreplaced(m.on)
      BY <3>1, ChoiceParts
    <3>4. PICK i \in DOMAIN inbox[m.from][m.on] :
              LET choice == inbox[m.from][m.on][i]
              IN  choice.kind = "select" /\ choice.on = m.from /\ choice.seq = pair_versions[m.on]
      BY <3>1, <3>2, <3>3 DEF Heard
    <3>5. ASSUME NEW j \in DOMAIN log[m.on], log[m.on][j].seq > pair_versions[m.on]
          PROVE  /\ log[m.on][j].kind # "unselect"
                 /\ log[m.on][j].kind = "select" => ~Contains(inbox[log[m.on][j].on][m.on], log[m.on][j])
      <4> DEFINE n == log[m.on][j]
      <4>1. /\ n.kind # "unselect"
            /\ n.kind = "select" => \A k \in DOMAIN inbox[n.on][m.on] : inbox[n.on][m.on][k] # n
        BY <3>3, <3>5 DEF Unreplaced
      <4>2. n.kind = "select" => n.on \in Members
        BY <3>1, MessageIs DEF Remembering, Reached, Sent
      <4>3. n.kind = "select" => DOMAIN inbox[n.on][m.on] = 1 .. Len(inbox[n.on][m.on])
        <5>1. ASSUME NEW r \in Members
              PROVE  inbox[r][m.on] \in Seq(Messages)
          BY <3>1 DEF RelayTypes
        <5>2. \A r \in Members : DOMAIN inbox[r][m.on] = 1 .. Len(inbox[r][m.on])
          BY <5>1
        <5> QED BY <4>2, <5>2
      <4> HIDE DEF n
      <4>4. n.kind = "select" => ~Contains(inbox[n.on][m.on], n)
        BY <4>1, <4>3 DEF Contains
      <4> QED BY <4>1, <4>4 DEF n
    <3> QED BY <3>4, <3>5
  <2>2. ASSUME family \in Families, NEW m \in Traffic[family], NEW targets \in Recipients(m.from), Execute(m, targets)
        PROVE  A
    <3>1. m \in Messages /\ m.from \in Members /\ log' = [log EXCEPT ![m.from] = Append(@, m)]
      BY <2>2, MessageIs DEF Execute
    <3>2. \A u \in Members : Len(log'[u]) > Len(log[u]) => u = m.from /\ Last(log'[u]) = m
      BY <3>1, OneActs
    <3> QED BY <2>1, <2>2, <3>2
  <2>3. CASE Repeating \/ Expiring \/ Aside
    <3>1. log' = log
      BY <2>3 DEF Repeating, Repeat, Expiring, ExpirePair, Aside
    <3>2. \A u \in Members : ~(Len(log[u]) > Len(log[u]))
      <4>1. \A u \in Members : Len(log[u]) \in Nat
        BY DEF RelayTypes
      <4> QED BY <4>1
    <3> QED BY <3>1, <3>2
  <2> QED BY <2>2, <2>3, StepKinds DEF Executing
<1>4. BattleTypes /\ Remembering /\ ChoiceHeard /\ [BattleNext]_allVars => [A]_vars
  BY <1>3
<1> QED BY <1>1, <1>2, <1>4, RememberingInvariant, PTL DEF BattleSpec, PairsConsented

-----------------------------------------------------------------------------
(* Series of rounds                                                        *)

Pairs == [1 .. 2 -> Nat]
SeriesRecords ==
    [scores : Pairs, phase : {"playing", "interval", "finishing", "result"},
     ready : SUBSET Members, viewing : SUBSET Members, versions : [Members -> Nat],
     report : {None} \cup Pairs]
Decisions == [seq : Nat, phase : {"interval", "playing", "finishing"}, scores : Pairs]

SeriesTypes == series \in SeriesRecords /\ rounds \in Seq(Decisions)

\* The rounds that were played and gave nobody the series.
IntervalsOf(rs) == {i \in DOMAIN rs : rs[i].phase = "interval"}

\* What came of the decision before.
Follows(before, now) ==
    /\ now.seq > before.seq
    /\ before.phase # "finishing" /\ now.phase # before.phase
    /\ now.scores \in Steps(before.scores)
    /\ now.phase # "interval" => now.scores = before.scores

\* The series is where the Host's last decision that counted has left it: its
\* number, its scores and, until there is a result, its phase; each point is
\* of a round that was played.
SeriesFollows ==
    /\ Top(series.scores) <= Half
    /\ series.scores[1] + series.scores[2] <= Cardinality(IntervalsOf(rounds))
    /\ rounds = <<>> => series.phase = "playing"
    /\ rounds # <<>> => LET last == rounds[Len(rounds)]
                        IN  /\ last.seq = series.versions[Host] /\ last.scores = series.scores
                            /\ last.phase = IF series.phase = "result" THEN "finishing" ELSE series.phase
    /\ \A i \in DOMAIN rounds : Top(rounds[i].scores) <= Half
    /\ \A i \in DOMAIN rounds \ {1} : Follows(rounds[i - 1], rounds[i])
    /\ series.phase = "result" => stage # "battle"
    /\ series.report # None => /\ series.phase = "result"
                               /\ Top(series.report) = Half + 1
                               /\ series.report[1] + series.report[2] <= 1 + Cardinality(IntervalsOf(rounds))

SeriesInv == SeriesTypes /\ SeriesFollows

\* One decision more: an interval counts as one.
LEMMA IntervalCount ==
    ASSUME NEW rs \in Seq(Decisions), NEW d \in Decisions
    PROVE  /\ Cardinality(IntervalsOf(rs)) \in Nat
           /\ Cardinality(IntervalsOf(Append(rs, d))) =
                  Cardinality(IntervalsOf(rs)) + IF d.phase = "interval" THEN 1 ELSE 0
<1> DEFINE n == Len(rs)
           old == IntervalsOf(rs)
           new == IntervalsOf(Append(rs, d))
<1>1. n \in Nat /\ DOMAIN rs = 1 .. n
  OBVIOUS
<1>2. IsFiniteSet(old) /\ Cardinality(old) \in Nat
  <2>1. IsFiniteSet(1 .. n)
    BY <1>1, FS_Interval
  <2>2. old \subseteq 1 .. n
    BY <1>1 DEF IntervalsOf
  <2> QED BY <2>1, <2>2, FS_Subset, FS_CardinalityType
<1>3. n + 1 \notin old
  BY <1>1 DEF IntervalsOf
<1>4. new = IF d.phase = "interval" THEN old \cup {n + 1} ELSE old
  <2>1. /\ DOMAIN Append(rs, d) = DOMAIN rs \cup {n + 1} /\ n + 1 \notin DOMAIN rs
        /\ \A i \in DOMAIN Append(rs, d) : Append(rs, d)[i] = IF i = n + 1 THEN d ELSE rs[i]
    <3> HIDE DEF IntervalsOf
    <3> QED BY Appended
  <2> DEFINE s == Append(rs, d)
  <2> HIDE DEF s, n
  <2> QED BY <2>1 DEF IntervalsOf, s
<1> HIDE DEF old, new, n
<1>5. Cardinality(old \cup {n + 1}) = Cardinality(old) + 1
  BY <1>2, <1>3, FS_AddElement
<1>6. Cardinality(old) + 0 = Cardinality(old)
  BY <1>2
<1>7. Cardinality(new) = Cardinality(old) + IF d.phase = "interval" THEN 1 ELSE 0
  BY <1>4, <1>5, <1>6
<1> QED BY <1>2, <1>7 DEF old, new

\* A step of the scores adds a point at most.
LEMMA PointByPoint ==
    ASSUME NEW before \in Pairs, NEW now \in Steps(before)
    PROVE  /\ now \in Pairs
           /\ now[1] + now[2] <= before[1] + before[2] + 1
BY DEF Steps, Plus, Pairs

\* What a decision changes.
LEMMA DecisionVersions ==
    ASSUME NEW u \in Members, NEW seq \in Nat, NEW tcp, NEW next \in SeriesRecords, Decided(u, seq, tcp, next)
    PROVE  /\ series' \in SeriesRecords
           /\ series'.scores = next.scores /\ series'.phase = next.phase /\ series'.report = next.report
           /\ series'.versions = [next.versions EXCEPT ![u] = seq]
<1> DEFINE vs == [next.versions EXCEPT ![u] = seq]
<1>1. vs \in [Members -> Nat]
  BY DEF SeriesRecords
<1>2. series' = [next EXCEPT !.versions = vs]
  BY DEF Decided
<1> HIDE DEF vs
<1>3. series' \in SeriesRecords /\ series'.versions = vs
      /\ series'.scores = next.scores /\ series'.phase = next.phase /\ series'.report = next.report
  BY <1>1, <1>2 DEF SeriesRecords
<1> QED BY <1>3 DEF vs

LEMMA DecisionIs ==
    ASSUME SeriesTypes, NEW u \in Members, NEW seq \in Nat, NEW tcp, NEW next \in SeriesRecords,
           Decided(u, seq, tcp, next)
    PROVE  /\ series' \in SeriesRecords
           /\ series'.scores = next.scores /\ series'.phase = next.phase /\ series'.report = next.report
           /\ series'.versions[u] = seq
           /\ seq > series.versions[u] /\ stage = "battle" /\ stage' = stage
           /\ rounds' = IF u = Host THEN Append(rounds, [seq |-> seq, phase |-> next.phase, scores |-> next.scores])
                        ELSE rounds
<1>1. /\ series' \in SeriesRecords
      /\ series'.scores = next.scores /\ series'.phase = next.phase /\ series'.report = next.report
      /\ series'.versions = [next.versions EXCEPT ![u] = seq]
  BY DecisionVersions
<1>2. next.versions \in [Members -> Nat]
  BY DEF SeriesRecords
<1>3. series'.versions[u] = seq
  BY <1>1, <1>2
<1>4. /\ seq > series.versions[u] /\ stage = "battle" /\ stage' = stage
      /\ rounds' = IF u = Host THEN Append(rounds, [seq |-> seq, phase |-> next.phase, scores |-> next.scores])
                   ELSE rounds
  BY DEF Decided, Counts, Played
<1> QED BY <1>1, <1>3, <1>4

\* A decision of the Host that may follow the last one keeps the series where
\* the decisions have left it.
LEMMA HostDecides ==
    ASSUME SeriesInv, NEW seq \in Nat, NEW tcp, NEW next \in SeriesRecords, Decided(Host, seq, tcp, next),
           series.phase \in {"playing", "interval"},
           next.phase \in {"playing", "interval", "finishing"}, next.phase # series.phase,
           next.scores \in Steps(series.scores), Top(next.scores) <= Half,
           next.phase # "interval" => next.scores = series.scores,
           next.report = series.report
    PROVE  SeriesInv'
<1> DEFINE d == [seq |-> seq, phase |-> next.phase, scores |-> next.scores]
<1>1. Host \in Members /\ series.report = None /\ series.scores \in Pairs /\ next.scores \in Pairs
  BY RelayAssumption DEF RelayAssumption, SeriesInv, SeriesFollows, SeriesTypes, SeriesRecords
<1>2. /\ series' \in SeriesRecords
      /\ series'.scores = next.scores /\ series'.phase = next.phase /\ series'.report = None
      /\ series'.versions[Host] = seq /\ seq > series.versions[Host]
      /\ rounds' = Append(rounds, d)
  <2>1. SeriesTypes
    BY DEF SeriesInv
  <2> QED BY <1>1, <2>1, DecisionIs
<1>3. d \in Decisions /\ d.seq = seq /\ d.phase = next.phase /\ d.scores = next.scores
  BY <1>1 DEF Decisions
<1> HIDE DEF d
<1>4. rounds \in Seq(Decisions) /\ Len(rounds) \in Nat /\ (rounds # <<>> => Len(rounds) > 0)
  BY DEF SeriesInv, SeriesTypes
<1>5. SeriesTypes'
  BY <1>2, <1>3, <1>4 DEF SeriesTypes
<1>6. /\ Cardinality(IntervalsOf(rounds)) \in Nat
      /\ Cardinality(IntervalsOf(rounds')) = Cardinality(IntervalsOf(rounds)) + IF d.phase = "interval" THEN 1 ELSE 0
  BY <1>2, <1>3, <1>4, IntervalCount
<1>7. next.scores[1] + next.scores[2] <= Cardinality(IntervalsOf(rounds'))
  <2>1. series.scores[1] + series.scores[2] <= Cardinality(IntervalsOf(rounds))
    BY DEF SeriesInv, SeriesFollows
  <2>2. next.scores[1] + next.scores[2] <= series.scores[1] + series.scores[2] + 1
    BY <1>1, PointByPoint
  <2>3. series.scores[1] \in Nat /\ series.scores[2] \in Nat /\ next.scores[1] \in Nat /\ next.scores[2] \in Nat
    BY <1>1 DEF Pairs
  <2>4. CASE d.phase = "interval"
    BY <1>6, <2>1, <2>2, <2>3, <2>4
  <2>5. CASE d.phase # "interval"
    BY <1>3, <1>6, <2>1, <2>3, <2>5
  <2> QED BY <2>4, <2>5
<1>8. /\ Len(rounds') = Len(rounds) + 1 /\ rounds'[Len(rounds')] = d /\ rounds' # <<>>
      /\ DOMAIN rounds' = DOMAIN rounds \cup {Len(rounds) + 1} /\ Len(rounds) + 1 \notin DOMAIN rounds
      /\ \A i \in DOMAIN rounds : rounds'[i] = rounds[i]
      /\ DOMAIN rounds = 1 .. Len(rounds)
  BY <1>2, <1>3, <1>4
<1>9. \A i \in DOMAIN rounds' \ {1} : Follows(rounds'[i - 1], rounds'[i])
  <2>1. ASSUME NEW i \in DOMAIN rounds \ {1}
        PROVE  Follows(rounds'[i - 1], rounds'[i])
    <3>1. i - 1 \in DOMAIN rounds
      BY <1>4, <1>8
    <3>2. rounds'[i - 1] = rounds[i - 1] /\ rounds'[i] = rounds[i]
      BY <1>8, <3>1
    <3> QED BY <3>2 DEF SeriesInv, SeriesFollows
  <2>2. CASE rounds # <<>>
    <3> DEFINE last == rounds[Len(rounds)]
    <3>1. Len(rounds) \in DOMAIN rounds /\ (Len(rounds) + 1) - 1 = Len(rounds)
      BY <1>4, <1>8, <2>2
    <3>2. last.seq = series.versions[Host] /\ last.scores = series.scores /\ last.phase = series.phase
      BY <2>2 DEF SeriesInv, SeriesFollows
    <3>3. Follows(last, d)
      BY <1>2, <1>3, <3>2 DEF Follows
    <3>4. Follows(rounds'[Len(rounds)], rounds'[Len(rounds) + 1])
      BY <1>8, <3>1, <3>3
    <3> QED BY <1>8, <2>1, <3>1, <3>4
  <2>3. CASE rounds = <<>>
    <3>1. Len(rounds) = 0
      BY <2>3
    <3> QED BY <1>8, <2>1, <3>1
  <2> QED BY <2>2, <2>3
<1>10. \A i \in DOMAIN rounds' : Top(rounds'[i].scores) <= Half
  <2>1. \A i \in DOMAIN rounds : Top(rounds[i].scores) <= Half
    BY DEF SeriesInv, SeriesFollows
  <2>2. Top(rounds'[Len(rounds) + 1].scores) <= Half
    BY <1>3, <1>8
  <2> QED BY <1>8, <2>1, <2>2
<1>11. SeriesFollows'
  BY <1>2, <1>3, <1>7, <1>8, <1>9, <1>10 DEF SeriesFollows
<1> QED BY <1>5, <1>11 DEF SeriesInv

\* What another member decides leaves them alone.
LEMMA GuestDecides ==
    ASSUME SeriesInv, NEW u \in Members \ {Host}, NEW seq \in Nat, NEW tcp, NEW next \in SeriesRecords,
           Decided(u, seq, tcp, next), next.scores = series.scores, next.phase = series.phase,
           next.report = series.report, next.versions = series.versions
    PROVE  SeriesInv'
<1>1. SeriesTypes
  BY DEF SeriesInv
<1>2. /\ series' \in SeriesRecords
      /\ series'.scores = series.scores /\ series'.phase = series.phase /\ series'.report = series.report
      /\ series'.versions[Host] = series.versions[Host] /\ stage' = stage /\ rounds' = rounds
  <2>1. rounds' = rounds /\ stage' = stage
    BY DEF Decided
  <2>2. u \in Members
    OBVIOUS
  <2>3. series' \in SeriesRecords
    BY <1>1, <2>2, DecisionIs
  <2>4. series'.scores = series.scores /\ series'.phase = series.phase /\ series'.report = series.report
    BY ZenonT(60), <1>1, <2>2, DecisionIs
  <2>5. series'.versions[Host] = series.versions[Host]
    <3>1. series'.versions = [next.versions EXCEPT ![u] = seq]
      BY <2>2, DecisionVersions
    <3>2. next.versions \in [Members -> Nat] /\ Host \in Members
      BY RelayAssumption DEF RelayAssumption, SeriesRecords
    <3> QED BY <3>1, <3>2
  <2> QED BY <2>1, <2>3, <2>4, <2>5
<1> QED BY <1>1, <1>2 DEF SeriesInv, SeriesTypes, SeriesFollows

\* Every step of a series keeps it where its decisions have left it.
LEMMA SeriesStep ==
    ASSUME SeriesInv, SeriesNext
    PROVE  SeriesInv'
<1>1. /\ series \in SeriesRecords /\ rounds \in Seq(Decisions) /\ Host \in Members
      /\ series.scores \in Pairs /\ series.scores \in Steps(series.scores) /\ Top(series.scores) <= Half
  BY RelayAssumption DEF RelayAssumption, SeriesInv, SeriesTypes, SeriesFollows, SeriesRecords, Steps
<1>2. ASSUME NEW seq \in Nat, NEW tcp, NEW scores, Interval(seq, tcp, scores)
      PROVE  SeriesInv'
  <2> DEFINE next == [series EXCEPT !.scores = scores, !.phase = "interval", !.ready = {Host}]
  <2>1. /\ series.phase = "playing" /\ scores \in Steps(series.scores) /\ Top(scores) <= Half
        /\ Decided(Host, seq, tcp, next)
    BY <1>2 DEF Interval
  <2>2. scores \in Pairs
    BY <1>1, <2>1, PointByPoint
  <2>3. next \in SeriesRecords /\ next.scores = scores /\ next.phase = "interval" /\ next.report = series.report
    BY <1>1, <2>2 DEF SeriesRecords
  <2> HIDE DEF next
  <2> QED BY <2>1, <2>3, HostDecides
<1>3. ASSUME NEW seq \in Nat, NEW tcp, Continue(seq, tcp)
      PROVE  SeriesInv'
  <2> DEFINE next == [series EXCEPT !.phase = "playing", !.ready = {}]
  <2>1. series.phase = "interval" /\ Decided(Host, seq, tcp, next)
    BY <1>3 DEF Continue
  <2>2. next \in SeriesRecords /\ next.scores = series.scores /\ next.phase = "playing" /\ next.report = series.report
    BY <1>1 DEF SeriesRecords
  <2> HIDE DEF next
  <2> QED BY <1>1, <2>1, <2>2, HostDecides
<1>4. ASSUME NEW seq \in Nat, NEW tcp, Finishing(seq, tcp)
      PROVE  SeriesInv'
  <2> DEFINE next == [series EXCEPT !.phase = "finishing"]
  <2>1. series.phase = "playing" /\ Decided(Host, seq, tcp, next)
    BY <1>4 DEF Finishing
  <2>2. next \in SeriesRecords /\ next.scores = series.scores /\ next.phase = "finishing" /\ next.report = series.report
    BY <1>1 DEF SeriesRecords
  <2> HIDE DEF next
  <2> QED BY <1>1, <2>1, <2>2, HostDecides
<1>5. ASSUME NEW seq \in Nat, NEW tcp, NEW u \in Members, Ready(u, seq, tcp)
      PROVE  SeriesInv'
  <2> DEFINE next == [series EXCEPT !.ready = series.ready \cup {u}]
  <2>1. u \in Members \ {Host} /\ Decided(u, seq, tcp, next)
    BY <1>5 DEF Ready
  <2>2. /\ next \in SeriesRecords /\ next.scores = series.scores /\ next.phase = series.phase
        /\ next.report = series.report /\ next.versions = series.versions
    BY <1>1 DEF SeriesRecords
  <2> HIDE DEF next
  <2> QED BY <2>1, <2>2, GuestDecides
<1>6. ASSUME NEW scores \in Scores, SeriesResult(scores)
      PROVE  SeriesInv'
  <2>1. /\ stage = "battle" /\ stage' = "result" /\ rounds' = rounds
        /\ series.phase = "finishing" /\ scores \in Steps(series.scores) /\ Top(scores) = Half + 1
        /\ series' = [series EXCEPT !.report = scores, !.phase = "result"]
    BY <1>6 DEF SeriesResult, Played, AcceptsFinal
  <2>2. scores \in Pairs /\ scores[1] + scores[2] <= series.scores[1] + series.scores[2] + 1
    BY <1>1, <2>1, PointByPoint
  <2>3. /\ series' \in SeriesRecords /\ series'.report = scores /\ series'.phase = "result"
        /\ series'.scores = series.scores /\ series'.versions = series.versions
    BY <1>1, <2>1, <2>2 DEF SeriesRecords
  <2>4. scores[1] + scores[2] <= 1 + Cardinality(IntervalsOf(rounds))
    <3>1. Cardinality(IntervalsOf(rounds)) \in Nat
      <4>1. [seq |-> 0, phase |-> "playing", scores |-> series.scores] \in Decisions
        BY <1>1 DEF Decisions
      <4> QED BY <1>1, <4>1, IntervalCount
    <3>2. series.scores[1] + series.scores[2] <= Cardinality(IntervalsOf(rounds))
      BY DEF SeriesInv, SeriesFollows
    <3>3. scores[1] \in Nat /\ scores[2] \in Nat /\ series.scores[1] \in Nat /\ series.scores[2] \in Nat
      BY <1>1, <2>2 DEF Pairs
    <3> QED BY <2>2, <3>1, <3>2, <3>3
  <2>5. rounds # <<>> => LET last == rounds[Len(rounds)]
                         IN  last.seq = series.versions[Host] /\ last.scores = series.scores /\ last.phase = "finishing"
    BY <2>1 DEF SeriesInv, SeriesFollows
  <2>6. SeriesFollows'
    <3>1. /\ Top(series.scores) <= Half
          /\ series.scores[1] + series.scores[2] <= Cardinality(IntervalsOf(rounds))
          /\ rounds # <<>>
          /\ \A i \in DOMAIN rounds : Top(rounds[i].scores) <= Half
          /\ \A i \in DOMAIN rounds \ {1} : Follows(rounds[i - 1], rounds[i])
      BY <2>1 DEF SeriesInv, SeriesFollows
    <3> QED BY <2>1, <2>3, <2>4, <2>5, <3>1 DEF SeriesFollows
  <2> QED BY <1>1, <2>1, <2>3, <2>6 DEF SeriesInv, SeriesTypes
<1>7. ASSUME NEW u \in Members, View(u) \/ Return(u)
      PROVE  SeriesInv'
  <2>1. /\ series' = series \/ series' = [series EXCEPT !.viewing = series.viewing \cup {u}]
        /\ rounds' = rounds /\ stage # "battle" /\ stage' # "battle"
    BY <1>7 DEF View, Return
  <2>2. /\ series' \in SeriesRecords /\ series'.report = series.report /\ series'.phase = series.phase
        /\ series'.scores = series.scores /\ series'.versions = series.versions
    BY <1>1, <2>1 DEF SeriesRecords
  <2> QED BY <1>1, <2>1, <2>2 DEF SeriesInv, SeriesTypes, SeriesFollows
<1>8. \A seq \in 1 .. MaxDecisions : seq \in Nat
  BY HostModesAssumption DEF HostModesAssumption
<1> QED BY <1>2, <1>3, <1>4, <1>5, <1>6, <1>7, <1>8 DEF SeriesNext

\* A pair of zeros has no majority.
LEMMA NoPointYet == <<0, 0>> \in Pairs /\ Top(<<0, 0>>) <= Half
<1>1. <<0, 0>> \in Pairs
  BY DEF Pairs
<1>2. Top(<<0, 0>>) = 0
  <2>1. \A x \in {0, 0} : x = 0
    OBVIOUS
  <2>2. 0 \in {0, 0} /\ \A y \in {0, 0} : 0 >= y
    OBVIOUS
  <2>3. Max({0, 0}) = 0
    BY <2>1, <2>2 DEF Max
  <2> QED BY <2>3 DEF Top
<1>3. Half >= 0
  BY HostModesAssumption DEF HostModesAssumption, Half
<1> QED BY <1>1, <1>2, <1>3

\* The Host's decisions about a series (team_series.py, battle_results.py)
\* count once each and in its order, over both transports; rounds and
\* intervals alternate, and the series ends when a side first has the
\* majority of the rounds that were played.
THEOREM SeriesAlwaysDecided == BattleSpec => []SeriesDecided
<1>1. BattleInit => SeriesInv
  <2> SUFFICES ASSUME BattleInit PROVE SeriesInv
    OBVIOUS
  <2>1. /\ series = [scores |-> <<0, 0>>, phase |-> "playing", ready |-> {}, viewing |-> {},
                     versions |-> [u \in Members |-> 0], report |-> None]
        /\ rounds = <<>>
    BY DEF BattleInit, HostInit
  <2>2. SeriesTypes
    BY <2>1, NoPointYet DEF SeriesTypes, SeriesRecords
  <2>3. Cardinality(IntervalsOf(rounds)) = 0
    <3>1. IntervalsOf(rounds) = {}
      BY <2>1 DEF IntervalsOf
    <3> QED BY <3>1, FS_EmptySet
  <2>4. series.scores = <<0, 0>> /\ series.phase = "playing" /\ series.report = None
    BY <2>1
  <2>5. series.scores[1] + series.scores[2] = 0
    BY <2>4
  <2>6. DOMAIN rounds = {}
    BY <2>1
  <2>7. SeriesFollows
    BY <2>1, <2>3, <2>4, <2>5, <2>6, NoPointYet DEF SeriesFollows
  <2> QED BY <2>2, <2>7 DEF SeriesInv
<1>2. SeriesInv /\ [BattleNext]_allVars => SeriesInv'
  <2> SUFFICES ASSUME SeriesInv, [BattleNext]_allVars PROVE SeriesInv'
    OBVIOUS
  <2>1. CASE SeriesNext
    BY <2>1, SeriesStep
  <2>2. CASE UNCHANGED <<series, rounds>> /\ (stage' = stage \/ stage' # "battle")
    BY <2>2 DEF SeriesInv, SeriesTypes, SeriesFollows
  <2>3. SeriesNext \/ (UNCHANGED <<series, rounds>> /\ (stage' = stage \/ stage' # "battle"))
    BY DEF BattleNext, allVars, hostVars, Result, Acknowledge
  <2> QED BY <2>1, <2>2, <2>3
<1>3. SeriesInv => SeriesDecided
  <2> SUFFICES ASSUME SeriesInv PROVE SeriesDecided
    OBVIOUS
  <2>1. series.report # None => Last(rounds).phase = "finishing"
    BY DEF SeriesInv, SeriesFollows, Last
  <2> QED BY <2>1 DEF SeriesInv, SeriesFollows, SeriesDecided, Follows, IntervalsOf
<1> QED BY <1>1, <1>2, <1>3, PTL DEF BattleSpec

-----------------------------------------------------------------------------
(* Receipts and results                                                    *)

\* The open witnesses about on under a status, and the events of one kind
\* among the first i.
RowsOf(rows, on, key) == {i \in DOMAIN rows : rows[i].source = on /\ rows[i].status = key}
Told(s, i, kind, on, key) == {j \in 1 .. i : s[j].kind = kind /\ s[j].on = on /\ s[j].key = key}

\* What was said before is not touched by one event more.
LEMMA ToldBefore ==
    ASSUME NEW S, NEW s \in Seq(S), NEW m \in S, NEW i \in 1 .. Len(s), NEW kind, NEW on, NEW key
    PROVE  Told(Append(s, m), i, kind, on, key) = Told(s, i, kind, on, key)
<1>1. \A j \in 1 .. i : Append(s, m)[j] = s[j]
  OBVIOUS
<1> QED BY <1>1 DEF Told

\* One event more, counted.
LEMMA ToldNow ==
    ASSUME NEW S, NEW s \in Seq(S), NEW m \in S, NEW kind, NEW on, NEW key
    PROVE  /\ Cardinality(Told(s, Len(s), kind, on, key)) \in Nat
           /\ Cardinality(Told(Append(s, m), Len(s) + 1, kind, on, key)) =
                  Cardinality(Told(s, Len(s), kind, on, key)) +
                      IF m.kind = kind /\ m.on = on /\ m.key = key THEN 1 ELSE 0
<1> DEFINE n == Len(s)
           old == Told(s, n, kind, on, key)
           new == Told(Append(s, m), n + 1, kind, on, key)
<1>1. n \in Nat
  OBVIOUS
<1>2. \A i \in 1 .. n + 1 : Append(s, m)[i] = IF i = n + 1 THEN m ELSE s[i]
  OBVIOUS
<1>3. IsFiniteSet(old) /\ Cardinality(old) \in Nat /\ n + 1 \notin old
  <2>1. IsFiniteSet(1 .. n)
    BY <1>1, FS_Interval
  <2>2. old \subseteq 1 .. n
    BY DEF Told
  <2> QED BY <1>1, <2>1, <2>2, FS_Subset, FS_CardinalityType
<1>4. new = IF m.kind = kind /\ m.on = on /\ m.key = key THEN old \cup {n + 1} ELSE old
  <2> DEFINE t == Append(s, m)
  <2>1. \A i \in 1 .. n + 1 : t[i] = IF i = n + 1 THEN m ELSE s[i]
    BY <1>2
  <2> HIDE DEF t, n
  <2>2. 1 .. n + 1 = (1 .. n) \cup {n + 1} /\ n + 1 \notin 1 .. n
    BY <1>1
  <2> QED BY <2>1, <2>2 DEF Told, t
<1> HIDE DEF old, new, n
<1>6. Cardinality(old \cup {n + 1}) = Cardinality(old) + 1 /\ Cardinality(old) + 0 = Cardinality(old)
  <2>1. Cardinality(old \cup {n + 1}) = Cardinality(old) + 1
    BY <1>3, FS_AddElement
  <2> QED BY <1>3, <2>1
<1>7. Cardinality(new) = Cardinality(old) + IF m.kind = kind /\ m.on = on /\ m.key = key THEN 1 ELSE 0
  BY <1>4, <1>6
<1> QED BY <1>3, <1>7 DEF old, new, n

\* The witnesses of a ledger are finitely many.
LEMMA RowsCount ==
    ASSUME NEW rows \in Seq(Witnesses), NEW on, NEW key
    PROVE  /\ IsFiniteSet(RowsOf(rows, on, key))
           /\ Cardinality(RowsOf(rows, on, key)) \in Nat
<1>1. IsFiniteSet(1 .. Len(rows)) /\ RowsOf(rows, on, key) \subseteq 1 .. Len(rows)
  BY FS_Interval DEF RowsOf
<1> QED BY <1>1, FS_Subset, FS_CardinalityType

\* A row more is one witness more at most, of what it says.
LEMMA RowRecorded ==
    ASSUME NEW rows \in Seq(Witnesses), NEW row \in Witnesses, NEW on, NEW key
    PROVE  Cardinality(RowsOf(Capped(Append(rows, row)), on, key)) <=
               Cardinality(RowsOf(rows, on, key)) + IF row.source = on /\ row.status = key THEN 1 ELSE 0
<1> DEFINE s == Append(rows, row)
           t == LastOf(s, WitnessLimit)
           d == Len(s) - Len(t)
           old == RowsOf(rows, on, key)
           all == RowsOf(s, on, key)
           new == RowsOf(t, on, key)
<1>1. s \in Seq(Witnesses) /\ WitnessLimit \in Nat \ {0}
  BY RelayAssumption DEF RelayAssumption
<1>2. /\ DOMAIN s = DOMAIN rows \cup {Len(rows) + 1} /\ Len(rows) + 1 \notin DOMAIN rows
      /\ \A i \in DOMAIN s : s[i] = IF i = Len(rows) + 1 THEN row ELSE rows[i]
  BY Appended
<1>3. all = IF row.source = on /\ row.status = key THEN old \cup {Len(rows) + 1} ELSE old
  <2> HIDE DEF s
  <2> QED BY <1>2 DEF RowsOf
<1>4. IsFiniteSet(old) /\ Cardinality(old) \in Nat /\ Len(rows) + 1 \notin old
  <2>1. Len(rows) + 1 \notin old
    BY <1>2 DEF RowsOf
  <2> QED BY <2>1, RowsCount
<1>5. IsFiniteSet(all) /\ Cardinality(all) \in Nat
  <2> HIDE DEF s
  <2> QED BY <1>1, RowsCount
<1>6. Cardinality(all) = Cardinality(old) + IF row.source = on /\ row.status = key THEN 1 ELSE 0
  <2> HIDE DEF all, old
  <2>1. Cardinality(old \cup {Len(rows) + 1}) = Cardinality(old) + 1 /\ Cardinality(old) + 0 = Cardinality(old)
    <3>1. Cardinality(old \cup {Len(rows) + 1}) = Cardinality(old) + 1
      BY <1>4, FS_AddElement
    <3> QED BY <1>4, <3>1
  <2> QED BY <1>3, <2>1
<1> HIDE DEF s
<1>7. /\ t \in Seq(Witnesses) /\ Len(t) <= Len(s)
      /\ \A i \in 1 .. Len(t) : i + (Len(s) - Len(t)) \in 1 .. Len(s) /\ t[i] = s[i + (Len(s) - Len(t))]
  BY <1>1, LastOnes
<1> HIDE DEF t
<1>8. /\ d \in Nat /\ DOMAIN t = 1 .. Len(t) /\ DOMAIN s = 1 .. Len(s)
      /\ \A i \in DOMAIN t : i \in Nat /\ i + d \in DOMAIN s /\ t[i] = s[i + d]
  <2>1. Len(s) \in Nat /\ Len(t) \in Nat /\ DOMAIN t = 1 .. Len(t) /\ DOMAIN s = 1 .. Len(s)
    BY <1>1, <1>7
  <2>2. d \in Nat
    BY <1>7, <2>1
  <2> QED BY <1>7, <2>1, <2>2
<1> HIDE DEF d
<1>9. Cardinality(new) <= Cardinality(all)
  <2> DEFINE f == [i \in new |-> i + d]
  <2>1. f \in Injection(new, all)
    <3>1. \A i \in new : i \in Nat /\ i + d \in all
      BY <1>8 DEF RowsOf
    <3>2. \A i, j \in new : i + d = j + d => i = j
      BY <1>8, <3>1
    <3> HIDE DEF new, all
    <3> QED BY <3>1, <3>2 DEF Injection, IsInjective
  <2> HIDE DEF f, new, all
  <2> QED BY <1>5, <2>1, FS_Injection
<1>10. Capped(Append(rows, row)) = t
  BY DEF Capped, LastOf, s, t
<1>11. IsFiniteSet(new) /\ Cardinality(new) \in Nat
  BY <1>7, RowsCount
<1> QED
  <2> HIDE DEF new, all, old
  <2>1. Cardinality(new) <= Cardinality(old) + IF row.source = on /\ row.status = key THEN 1 ELSE 0
    BY <1>4, <1>6, <1>9, <1>11
  <2> QED BY <1>10, <2>1 DEF new, old

\* A witness that is used is one less.
LEMMA RowUsed ==
    ASSUME NEW rows \in Seq(Witnesses), NEW k \in DOMAIN rows, NEW on, NEW key
    PROVE  Cardinality(RowsOf(RemoveAt(rows, k), on, key)) <=
               Cardinality(RowsOf(rows, on, key)) - IF rows[k].source = on /\ rows[k].status = key THEN 1 ELSE 0
<1> DEFINE n == Len(rows)
           a == SubSeq(rows, 1, k - 1)
           b == SubSeq(rows, k + 1, n)
           t == RemoveAt(rows, k)
           old == RowsOf(rows, on, key)
           new == RowsOf(t, on, key)
<1>1. n \in Nat /\ DOMAIN rows = 1 .. n /\ k \in 1 .. n
  OBVIOUS
<1>2. a \in Seq(Witnesses) /\ Len(a) = k - 1 /\ \A i \in 1 .. k - 1 : a[i] = rows[i]
  <2>1. \A i \in 1 .. k - 1 : 1 + i - 1 = i
    BY <1>1
  <2>2. a \in Seq(Witnesses) /\ Len(a) = k - 1
    BY <1>1
  <2>3. \A i \in 1 .. k - 1 : a[i] = rows[1 + i - 1]
    BY <1>1
  <2> QED BY <2>1, <2>2, <2>3
<1>3. b \in Seq(Witnesses) /\ Len(b) = n - k /\ \A i \in 1 .. n - k : b[i] = rows[i + k]
  <2>1. k + 1 \in Nat /\ 1 <= k + 1 /\ k + 1 <= n + 1 /\ (k + 1) - 1 = k
    BY <1>1
  <2>2. /\ SubSeq(rows, k + 1, Len(rows)) \in Seq(Witnesses)
        /\ Len(SubSeq(rows, k + 1, Len(rows))) = Len(rows) - ((k + 1) - 1)
        /\ \A i \in 1 .. Len(rows) - ((k + 1) - 1) : SubSeq(rows, k + 1, Len(rows))[i] = rows[i + ((k + 1) - 1)]
    BY <2>1, Suffix
  <2> QED BY <2>1, <2>2
<1>4. t = a \o b
  BY DEF RemoveAt
<1> HIDE DEF a, b, t, n
<1>5. t \in Seq(Witnesses) /\ DOMAIN t = 1 .. n - 1
      /\ \A i \in 1 .. n - 1 : t[i] = IF i < k THEN rows[i] ELSE rows[i + 1]
  <2>1. t \in Seq(Witnesses) /\ Len(t) = n - 1
    <3>1. a \in Seq(Witnesses) /\ b \in Seq(Witnesses)
      BY <1>2, <1>3
    <3>2. a \o b \in Seq(Witnesses) /\ Len(a \o b) = Len(a) + Len(b)
      BY <3>1
    <3> QED BY <1>1, <1>2, <1>3, <1>4, <3>2
  <2>2. \A i \in 1 .. n - 1 : t[i] = IF i <= k - 1 THEN a[i] ELSE b[i - (k - 1)]
    BY SMTT(30), <1>1, <1>2, <1>3, <1>4
  <2>3. ASSUME NEW i \in 1 .. n - 1
        PROVE  t[i] = IF i < k THEN rows[i] ELSE rows[i + 1]
    <3>1. CASE i < k
      BY <1>1, <1>2, <2>2, <3>1
    <3>2. CASE ~(i < k)
      <4>1. i - (k - 1) \in 1 .. n - k /\ (i - (k - 1)) + k = i + 1
        BY <1>1, <3>2
      <4>2. b[i - (k - 1)] = rows[i + 1]
        BY <1>3, <4>1
      <4>3. t[i] = b[i - (k - 1)]
        BY <1>1, <2>2, <3>2
      <4> QED BY <3>2, <4>2, <4>3
    <3> QED BY <3>1, <3>2
  <2> QED BY <1>1, <2>1, <2>3
<1>6. IsFiniteSet(old) /\ Cardinality(old) \in Nat
  BY RowsCount
<1>7. /\ IsFiniteSet(old \ {k})
      /\ Cardinality(old \ {k}) = IF k \in old THEN Cardinality(old) - 1 ELSE Cardinality(old)
  <2> HIDE DEF old
  <2> QED BY <1>6, FS_RemoveElement
<1>8. IsFiniteSet(new) /\ Cardinality(new) \in Nat
  BY <1>5, RowsCount
<1>9. Cardinality(new) <= Cardinality(old \ {k})
  <2> DEFINE f == [i \in new |-> IF i < k THEN i ELSE i + 1]
  <2>1. \A i \in new : i \in Nat /\ (IF i < k THEN i ELSE i + 1) \in old \ {k}
    <3> TAKE i \in new
    <3>1. i \in 1 .. n - 1 /\ t[i].source = on /\ t[i].status = key
      BY <1>5 DEF RowsOf
    <3>2. CASE i < k
      BY <1>1, <1>5, <3>1, <3>2 DEF RowsOf
    <3>3. CASE ~(i < k)
      <4>1. i + 1 \in DOMAIN rows /\ i + 1 # k /\ rows[i + 1] = t[i]
        BY <1>1, <1>5, <3>1, <3>3
      <4> QED BY <3>1, <3>3, <4>1 DEF RowsOf
    <3> QED BY <3>2, <3>3
  <2>2. f \in Injection(new, old \ {k})
    <3>1. \A i, j \in new : (IF i < k THEN i ELSE i + 1) = (IF j < k THEN j ELSE j + 1) => i = j
      BY <1>1, <2>1
    <3> HIDE DEF new, old
    <3> QED BY <2>1, <3>1 DEF Injection, IsInjective
  <2> HIDE DEF f, new, old
  <2> QED BY <1>7, <2>2, FS_Injection
<1>10. k \in old <=> rows[k].source = on /\ rows[k].status = key
  BY DEF RowsOf
<1>11. Cardinality(new) <= Cardinality(old) - IF rows[k].source = on /\ rows[k].status = key THEN 1 ELSE 0
  <2> HIDE DEF new, old
  <2> QED BY <1>6, <1>7, <1>8, <1>9, <1>10
<1> QED BY <1>11 DEF t

\* What a reporter has said about on so far, and its open witnesses.
Said(u, kind, on, key) == Cardinality(Told(log[u], Len(log[u]), kind, on, key))
Hits(u, on, key) == Cardinality(RowsOf(hit_receipts[u], on, key))
Deaths(u, on) == Cardinality(RowsOf(death_receipts[u], on, "terminal"))

\* Open witnesses and paid receipts together are no more than what there is
\* to pay with.
Paid ==
    \A u, on \in Members :
        /\ Said(u, "receipt", on, "lethal") + Hits(u, on, "lethal") <= Said(u, "damage", on, "lethal")
        /\ Said(u, "receipt", on, "terminal") + Hits(u, on, "terminal") + Deaths(u, on)
               <= Said(u, "damage", on, "terminal") + Said(u, "receipt", on, "lethal")

One(condition) == IF condition THEN 1 ELSE 0

\* What a report or a receipt does to the open witnesses of its sender.
LEMMA ReceiptRows ==
    ASSUME LedgerTypes, NEW f \in Families, NEW m \in Traffic[f], m.kind \in {"damage", "receipt"}, Receipt(m),
           NEW on \in Members
    PROVE  \/ /\ m.kind = "damage"
              /\ \A key \in Statuses : Hits(m.from, on, key)' <= Hits(m.from, on, key) + One(m.on = on /\ m.key = key)
              /\ Deaths(m.from, on)' = Deaths(m.from, on)
           \/ /\ m.kind = "receipt"
              /\ \A key \in Statuses : Hits(m.from, on, key)' <= Hits(m.from, on, key) - One(m.on = on /\ m.key = key)
              /\ Deaths(m.from, on)' <= Deaths(m.from, on) + One(m.on = on /\ m.key = "lethal")
           \/ /\ m.kind = "receipt" /\ m.key = "terminal"
              /\ \A key \in Statuses : Hits(m.from, on, key)' = Hits(m.from, on, key)
              /\ Deaths(m.from, on)' <= Deaths(m.from, on) - One(m.on = on)
<1> DEFINE u == m.from
           Row(status) == [source |-> m.on, status |-> status, seq |-> m.seq]
           hit == FirstWitness(hit_receipts[u], m)
           death == FirstWitness(death_receipts[u], m)
           h == CHOOSE i \in hit : TRUE
           d == CHOOSE i \in death : TRUE
<1>1. m.from \in Members /\ m.key \in Statuses /\ m.on \in Members /\ m.seq \in 1 .. MaxReports
  BY MessageIs, RelayAssumption DEF RelayAssumption
<1>2. hit_receipts[u] \in Seq(Witnesses) /\ death_receipts[u] \in Seq(Witnesses)
      /\ DOMAIN hit_receipts = Members /\ DOMAIN death_receipts = Members
  BY <1>1 DEF LedgerTypes
<1>3. \A status \in Statuses : Row(status) \in Witnesses /\ Row(status).source = m.on /\ Row(status).status = status
  BY <1>1 DEF Witnesses
<1>4. /\ hit # {} => h \in DOMAIN hit_receipts[u] /\ hit_receipts[u][h].source = m.on /\ hit_receipts[u][h].status = m.key
      /\ death # {} => d \in DOMAIN death_receipts[u] /\ death_receipts[u][d].source = m.on /\ death_receipts[u][d].status = m.key
  BY DEF FirstWitness
<1>5. \/ /\ m.kind = "damage"
         /\ hit_receipts' = [hit_receipts EXCEPT ![u] = Capped(Append(@, Row(m.key)))]
         /\ death_receipts' = death_receipts
      \/ /\ m.kind = "receipt" /\ hit # {}
         /\ hit_receipts' = [hit_receipts EXCEPT ![u] = RemoveAt(@, h)]
         /\ death_receipts' = IF m.key = "lethal"
                              THEN [death_receipts EXCEPT ![u] = Capped(Append(@, Row("terminal")))]
                              ELSE death_receipts
      \/ /\ m.kind = "receipt" /\ m.key = "terminal" /\ death # {}
         /\ death_receipts' = [death_receipts EXCEPT ![u] = RemoveAt(@, d)]
         /\ hit_receipts' = hit_receipts
  BY DEF Receipt
<1> HIDE DEF hit, death, h, d, Row
<1>6. ASSUME m.kind = "damage",
             hit_receipts' = [hit_receipts EXCEPT ![u] = Capped(Append(@, Row(m.key)))], death_receipts' = death_receipts
      PROVE  /\ \A key \in Statuses : Hits(m.from, on, key)' <= Hits(m.from, on, key) + One(m.on = on /\ m.key = key)
             /\ Deaths(m.from, on)' = Deaths(m.from, on)
  <2>1. hit_receipts'[u] = Capped(Append(hit_receipts[u], Row(m.key)))
    BY <1>1, <1>2, <1>6
  <2>2. ASSUME NEW key \in Statuses
        PROVE  Cardinality(RowsOf(Capped(Append(hit_receipts[u], Row(m.key))), on, key)) <=
                   Cardinality(RowsOf(hit_receipts[u], on, key)) + One(m.on = on /\ m.key = key)
    <3>1. Cardinality(RowsOf(Capped(Append(hit_receipts[u], Row(m.key))), on, key)) <=
               Cardinality(RowsOf(hit_receipts[u], on, key)) + IF Row(m.key).source = on /\ Row(m.key).status = key THEN 1 ELSE 0
      BY <1>1, <1>2, <1>3, RowRecorded
    <3> QED BY <1>1, <1>3, <3>1 DEF One
  <2> QED BY <1>6, <2>1, <2>2 DEF Hits, Deaths
<1>7. ASSUME m.kind = "receipt", hit # {}, hit_receipts' = [hit_receipts EXCEPT ![u] = RemoveAt(@, h)],
             death_receipts' = IF m.key = "lethal"
                               THEN [death_receipts EXCEPT ![u] = Capped(Append(@, Row("terminal")))]
                               ELSE death_receipts
      PROVE  /\ \A key \in Statuses : Hits(m.from, on, key)' <= Hits(m.from, on, key) - One(m.on = on /\ m.key = key)
             /\ Deaths(m.from, on)' <= Deaths(m.from, on) + One(m.on = on /\ m.key = "lethal")
  <2>1. hit_receipts'[u] = RemoveAt(hit_receipts[u], h)
    BY <1>1, <1>2, <1>7
  <2>2. death_receipts'[u] = IF m.key = "lethal" THEN Capped(Append(death_receipts[u], Row("terminal"))) ELSE death_receipts[u]
    BY <1>1, <1>2, <1>7
  <2>3. ASSUME NEW key \in Statuses
        PROVE  Cardinality(RowsOf(RemoveAt(hit_receipts[u], h), on, key)) <=
                   Cardinality(RowsOf(hit_receipts[u], on, key)) - One(m.on = on /\ m.key = key)
    <3>1. Cardinality(RowsOf(RemoveAt(hit_receipts[u], h), on, key)) <=
               Cardinality(RowsOf(hit_receipts[u], on, key))
                   - IF hit_receipts[u][h].source = on /\ hit_receipts[u][h].status = key THEN 1 ELSE 0
      BY <1>2, <1>4, <1>7, RowUsed
    <3> QED BY <1>4, <1>7, <3>1 DEF One
  <2>4. Cardinality(RowsOf(Capped(Append(death_receipts[u], Row("terminal"))), on, "terminal")) <=
            Cardinality(RowsOf(death_receipts[u], on, "terminal")) + One(m.on = on)
    <3>1. Cardinality(RowsOf(Capped(Append(death_receipts[u], Row("terminal"))), on, "terminal")) <=
               Cardinality(RowsOf(death_receipts[u], on, "terminal"))
                   + IF Row("terminal").source = on /\ Row("terminal").status = "terminal" THEN 1 ELSE 0
      BY <1>2, <1>3, RowRecorded DEF Statuses
    <3> QED BY <1>3, <3>1 DEF One, Statuses
  <2>5. Cardinality(RowsOf(death_receipts[u], on, "terminal")) \in Nat
    BY <1>2, RowsCount
  <2>6. Cardinality(RowsOf(death_receipts'[u], on, "terminal")) <=
            Cardinality(RowsOf(death_receipts[u], on, "terminal")) + One(m.on = on /\ m.key = "lethal")
    <3>1. CASE m.key = "lethal"
      BY <2>2, <2>4, <3>1 DEF One
    <3>2. CASE m.key # "lethal"
      BY <2>2, <2>5, <3>2 DEF One
    <3> QED BY <3>1, <3>2
  <2>7. Deaths(m.from, on)' <= Deaths(m.from, on) + One(m.on = on /\ m.key = "lethal")
    BY <2>6 DEF Deaths
  <2>8. \A key \in Statuses : Hits(m.from, on, key)' <= Hits(m.from, on, key) - One(m.on = on /\ m.key = key)
    BY <2>1, <2>3 DEF Hits
  <2> QED BY <2>7, <2>8
<1>8. ASSUME m.kind = "receipt", m.key = "terminal", death # {},
             death_receipts' = [death_receipts EXCEPT ![u] = RemoveAt(@, d)], hit_receipts' = hit_receipts
      PROVE  /\ \A key \in Statuses : Hits(m.from, on, key)' = Hits(m.from, on, key)
             /\ Deaths(m.from, on)' <= Deaths(m.from, on) - One(m.on = on)
  <2>1. death_receipts'[u] = RemoveAt(death_receipts[u], d)
    BY <1>1, <1>2, <1>8
  <2>2. Cardinality(RowsOf(RemoveAt(death_receipts[u], d), on, "terminal")) <=
            Cardinality(RowsOf(death_receipts[u], on, "terminal"))
                - IF death_receipts[u][d].source = on /\ death_receipts[u][d].status = "terminal" THEN 1 ELSE 0
    BY <1>2, <1>4, <1>8, RowUsed
  <2>3. Cardinality(RowsOf(RemoveAt(death_receipts[u], d), on, "terminal")) <=
            Cardinality(RowsOf(death_receipts[u], on, "terminal")) - One(m.on = on)
    BY <1>4, <1>8, <2>2 DEF One
  <2> QED BY <1>8, <2>1, <2>3 DEF Hits, Deaths
<1> QED BY <1>5, <1>6, <1>7, <1>8

\* Nobody else's witnesses change, and these only by reports and receipts.
LEMMA RowsAlone ==
    ASSUME LedgerTypes, NEW f \in Families, NEW m \in Traffic[f], Handle(m)
    PROVE  /\ \A u \in Members \ {m.from} : hit_receipts'[u] = hit_receipts[u] /\ death_receipts'[u] = death_receipts[u]
           /\ m.kind \notin {"damage", "receipt"} => hit_receipts' = hit_receipts /\ death_receipts' = death_receipts
<1>1. CASE m.kind \notin {"damage", "receipt"}
  BY <1>1, Handled DEF State, Projectile, Pickup, Pair, OwnReport, OwnedSlip, DeathNotice,
                       SpawnCollectible, Move, ledgers, receipts
<1>2. CASE m.kind \in {"damage", "receipt"}
  <2>1. Receipt(m)
    BY <1>2, Handled
  <2>2. DOMAIN hit_receipts = Members /\ DOMAIN death_receipts = Members
    BY DEF LedgerTypes
  <2>3. /\ UNCHANGED hit_receipts \/ \E rows : hit_receipts' = [hit_receipts EXCEPT ![m.from] = rows]
        /\ UNCHANGED death_receipts \/ \E rows : death_receipts' = [death_receipts EXCEPT ![m.from] = rows]
    BY <2>1 DEF Receipt
  <2> QED BY <1>2, <2>2, <2>3
<1> QED BY <1>1, <1>2

\* A receipt is one for which there was something to pay with, at the time.
Covered(s, i) ==
    LET m == s[i]
        Reports(kind) == Cardinality(Told(s, i, kind, m.on, m.key))
    IN  m.kind = "receipt" =>
            Reports("receipt") <= Reports("damage") +
                (IF m.key = "terminal" THEN Cardinality(Told(s, i, "receipt", m.on, "lethal")) ELSE 0)
ReceiptsCovered == \A u \in Members : \A i \in DOMAIN log[u] : Covered(log[u], i)

\* A report more pays for a witness more.
LEMMA PaidByReport ==
    ASSUME NEW rl \in Nat, NEW rt \in Nat, NEW dl \in Nat, NEW dt \in Nat,
           NEW hl \in Nat, NEW ht \in Nat, NEW de \in Nat, NEW hl1 \in Nat, NEW ht1 \in Nat,
           NEW ql \in {0, 1}, NEW qt \in {0, 1},
           rl + hl <= dl, rt + ht + de <= dt + rl, hl1 <= hl + ql, ht1 <= ht + qt
    PROVE  rl + hl1 <= dl + ql /\ rt + ht1 + de <= (dt + qt) + rl
OBVIOUS

\* A receipt more takes one away, and may leave one of a death.
LEMMA PaidByReceipt ==
    ASSUME NEW rl \in Nat, NEW rt \in Nat, NEW dl \in Nat, NEW dt \in Nat,
           NEW hl \in Nat, NEW ht \in Nat, NEW de \in Nat,
           NEW hl1 \in Nat, NEW ht1 \in Nat, NEW de1 \in Nat,
           NEW pl \in {0, 1}, NEW pt \in {0, 1},
           rl + hl <= dl, rt + ht + de <= dt + rl, hl1 <= hl - pl, ht1 <= ht - pt, de1 <= de + pl
    PROVE  (rl + pl) + hl1 <= dl /\ (rt + pt) + ht1 + de1 <= dt + (rl + pl)
OBVIOUS

LEMMA PaidExecuted ==
    ASSUME LedgerTypes, RelayTypes, Paid, ReceiptsCovered, NEW f \in Families, NEW m \in Traffic[f], Handle(m),
           LedgerTypes', RelayTypes', log' = [log EXCEPT ![m.from] = Append(@, m)]
    PROVE  Paid' /\ ReceiptsCovered'
<1>1. /\ m \in Messages /\ m.from \in Members
      /\ m.kind \in {"damage", "receipt"} => m.on \in Members /\ m.key \in Statuses
  <2>1. f \in Battles
    BY RelayAssumption DEF RelayAssumption, Battles
  <2> QED BY <2>1, MessageIs DEF Battles
<1>2. /\ \A u \in Members : log[u] \in Seq(Messages) /\ log'[u] \in Seq(Messages)
      /\ log'[m.from] = Append(log[m.from], m)
      /\ \A u \in Members \ {m.from} : log'[u] = log[u]
  BY <1>1 DEF RelayTypes
<1>3. ASSUME NEW u \in Members, NEW on \in Members, NEW key \in Statuses
      PROVE  /\ Hits(u, on, key) \in Nat /\ Hits(u, on, key)' \in Nat
             /\ Deaths(u, on) \in Nat /\ Deaths(u, on)' \in Nat
  <2>1. /\ hit_receipts[u] \in Seq(Witnesses) /\ hit_receipts'[u] \in Seq(Witnesses)
        /\ death_receipts[u] \in Seq(Witnesses) /\ death_receipts'[u] \in Seq(Witnesses)
    BY DEF LedgerTypes
  <2> QED BY <2>1, RowsCount DEF Hits, Deaths
<1>4. ASSUME NEW kind, NEW on \in Members, NEW key \in Statuses
      PROVE  /\ Said(m.from, kind, on, key) \in Nat
             /\ Said(m.from, kind, on, key)' = Said(m.from, kind, on, key) + One(m.kind = kind /\ m.on = on /\ m.key = key)
  <2> DEFINE s == log[m.from]
  <2>1. s \in Seq(Messages) /\ m \in Messages
    BY <1>1, <1>2
  <2> HIDE DEF s
  <2>2. /\ Cardinality(Told(s, Len(s), kind, on, key)) \in Nat
        /\ Cardinality(Told(Append(s, m), Len(s) + 1, kind, on, key)) =
                  Cardinality(Told(s, Len(s), kind, on, key)) +
                      IF m.kind = kind /\ m.on = on /\ m.key = key THEN 1 ELSE 0
    BY <2>1, ToldNow
  <2>3. Len(Append(s, m)) = Len(s) + 1
    BY <2>1
  <2> QED BY <1>2, <2>2, <2>3 DEF Said, One, s
<1>5. ASSUME NEW u \in Members, u # m.from, NEW on \in Members
      PROVE  /\ Said(u, "receipt", on, "lethal")' + Hits(u, on, "lethal")' <= Said(u, "damage", on, "lethal")'
             /\ Said(u, "receipt", on, "terminal")' + Hits(u, on, "terminal")' + Deaths(u, on)'
                    <= Said(u, "damage", on, "terminal")' + Said(u, "receipt", on, "lethal")'
  <2>1. hit_receipts'[u] = hit_receipts[u] /\ death_receipts'[u] = death_receipts[u] /\ log'[u] = log[u]
    BY <1>2, <1>5, RowsAlone
  <2>2. /\ \A kind, key : Said(u, kind, on, key)' = Said(u, kind, on, key)
        /\ \A key : Hits(u, on, key)' = Hits(u, on, key)
        /\ Deaths(u, on)' = Deaths(u, on)
    BY <2>1 DEF Said, Hits, Deaths
  <2> QED BY <2>2 DEF Paid
<1>6. ASSUME NEW on \in Members
      PROVE  LET u == m.from
             IN  /\ Said(u, "receipt", on, "lethal")' + Hits(u, on, "lethal")' <= Said(u, "damage", on, "lethal")'
                 /\ Said(u, "receipt", on, "terminal")' + Hits(u, on, "terminal")' + Deaths(u, on)'
                        <= Said(u, "damage", on, "terminal")' + Said(u, "receipt", on, "lethal")'
  <2> DEFINE u == m.from
  <2>1. "lethal" \in Statuses /\ "terminal" \in Statuses
    BY DEF Statuses
  <2>2. /\ Said(u, "receipt", on, "lethal") + Hits(u, on, "lethal") <= Said(u, "damage", on, "lethal")
        /\ Said(u, "receipt", on, "terminal") + Hits(u, on, "terminal") + Deaths(u, on)
               <= Said(u, "damage", on, "terminal") + Said(u, "receipt", on, "lethal")
    BY <1>1 DEF Paid
  <2>3. /\ Hits(u, on, "lethal") \in Nat /\ Hits(u, on, "terminal") \in Nat /\ Deaths(u, on) \in Nat
        /\ Hits(u, on, "lethal")' \in Nat /\ Hits(u, on, "terminal")' \in Nat /\ Deaths(u, on)' \in Nat
    BY <1>1, <1>3, <2>1
  <2>4. /\ Said(u, "receipt", on, "lethal") \in Nat /\ Said(u, "receipt", on, "terminal") \in Nat
        /\ Said(u, "damage", on, "lethal") \in Nat /\ Said(u, "damage", on, "terminal") \in Nat
    BY <1>4, <2>1
  <2>5. /\ Said(u, "receipt", on, "lethal")' =
               Said(u, "receipt", on, "lethal") + One(m.kind = "receipt" /\ m.on = on /\ m.key = "lethal")
        /\ Said(u, "receipt", on, "terminal")' =
               Said(u, "receipt", on, "terminal") + One(m.kind = "receipt" /\ m.on = on /\ m.key = "terminal")
        /\ Said(u, "damage", on, "lethal")' =
               Said(u, "damage", on, "lethal") + One(m.kind = "damage" /\ m.on = on /\ m.key = "lethal")
        /\ Said(u, "damage", on, "terminal")' =
               Said(u, "damage", on, "terminal") + One(m.kind = "damage" /\ m.on = on /\ m.key = "terminal")
    BY <1>4, <2>1
  <2>6. CASE m.kind \notin {"damage", "receipt"}
    <3>1. hit_receipts' = hit_receipts /\ death_receipts' = death_receipts
      BY <2>6, RowsAlone
    <3>2. /\ \A key : Hits(u, on, key)' = Hits(u, on, key)
          /\ Deaths(u, on)' = Deaths(u, on)
      BY <3>1 DEF Hits, Deaths
    <3>3. m.kind # "damage" /\ m.kind # "receipt"
      BY <2>6
    <3> HIDE DEF u
    <3> QED BY <2>2, <2>3, <2>4, <2>5, <3>2, <3>3 DEF One, u
  <2>7. CASE m.kind \in {"damage", "receipt"}
    <3>1. Receipt(m) /\ m.key \in {"lethal", "terminal"}
      BY <1>1, <2>7, Handled DEF Statuses
    <3>2. \/ /\ m.kind = "damage"
             /\ \A key \in Statuses : Hits(m.from, on, key)' <= Hits(m.from, on, key) + One(m.on = on /\ m.key = key)
             /\ Deaths(m.from, on)' = Deaths(m.from, on)
          \/ /\ m.kind = "receipt"
             /\ \A key \in Statuses : Hits(m.from, on, key)' <= Hits(m.from, on, key) - One(m.on = on /\ m.key = key)
             /\ Deaths(m.from, on)' <= Deaths(m.from, on) + One(m.on = on /\ m.key = "lethal")
          \/ /\ m.kind = "receipt" /\ m.key = "terminal"
             /\ \A key \in Statuses : Hits(m.from, on, key)' = Hits(m.from, on, key)
             /\ Deaths(m.from, on)' <= Deaths(m.from, on) - One(m.on = on)
      BY <2>7, <3>1, ReceiptRows
    <3>3. \/ /\ m.kind = "damage"
             /\ Hits(u, on, "lethal")' <= Hits(u, on, "lethal") + One(m.on = on /\ m.key = "lethal")
             /\ Hits(u, on, "terminal")' <= Hits(u, on, "terminal") + One(m.on = on /\ m.key = "terminal")
             /\ Deaths(u, on)' = Deaths(u, on)
          \/ /\ m.kind = "receipt"
             /\ Hits(u, on, "lethal")' <= Hits(u, on, "lethal") - One(m.on = on /\ m.key = "lethal")
             /\ Hits(u, on, "terminal")' <= Hits(u, on, "terminal") - One(m.on = on /\ m.key = "terminal")
             /\ Deaths(u, on)' <= Deaths(u, on) + One(m.on = on /\ m.key = "lethal")
          \/ /\ m.kind = "receipt" /\ m.key = "terminal"
             /\ Hits(u, on, "lethal")' = Hits(u, on, "lethal")
             /\ Hits(u, on, "terminal")' = Hits(u, on, "terminal")
             /\ Deaths(u, on)' <= Deaths(u, on) - One(m.on = on)
      BY <2>1, <3>2
    <3> DEFINE pl == One(m.kind = "receipt" /\ m.on = on /\ m.key = "lethal")
               pt == One(m.kind = "receipt" /\ m.on = on /\ m.key = "terminal")
               ql == One(m.kind = "damage" /\ m.on = on /\ m.key = "lethal")
               qt == One(m.kind = "damage" /\ m.on = on /\ m.key = "terminal")
    <3>4. /\ pl \in {0, 1} /\ pt \in {0, 1} /\ ql \in {0, 1} /\ qt \in {0, 1}
          /\ m.kind = "damage" => /\ pl = 0 /\ pt = 0
                                  /\ ql = One(m.on = on /\ m.key = "lethal") /\ qt = One(m.on = on /\ m.key = "terminal")
          /\ m.kind = "receipt" => /\ ql = 0 /\ qt = 0
                                   /\ pl = One(m.on = on /\ m.key = "lethal") /\ pt = One(m.on = on /\ m.key = "terminal")
          /\ m.kind = "receipt" /\ m.key = "terminal" => pl = 0 /\ pt = One(m.on = on)
      BY DEF One
    <3>5. /\ Said(u, "receipt", on, "lethal")' = Said(u, "receipt", on, "lethal") + pl
          /\ Said(u, "receipt", on, "terminal")' = Said(u, "receipt", on, "terminal") + pt
          /\ Said(u, "damage", on, "lethal")' = Said(u, "damage", on, "lethal") + ql
          /\ Said(u, "damage", on, "terminal")' = Said(u, "damage", on, "terminal") + qt
      BY <2>5
    <3> HIDE DEF pl, pt, ql, qt
    <3>6. CASE /\ pl = 0 /\ pt = 0
               /\ Hits(u, on, "lethal")' <= Hits(u, on, "lethal") + ql
               /\ Hits(u, on, "terminal")' <= Hits(u, on, "terminal") + qt
               /\ Deaths(u, on)' = Deaths(u, on)
      <4>1. /\ Said(u, "receipt", on, "lethal")' = Said(u, "receipt", on, "lethal")
            /\ Said(u, "receipt", on, "terminal")' = Said(u, "receipt", on, "terminal")
        BY <2>4, <3>5, <3>6
      <4> DEFINE rl == Said(u, "receipt", on, "lethal")
                 rt == Said(u, "receipt", on, "terminal")
                 dl == Said(u, "damage", on, "lethal")
                 dt == Said(u, "damage", on, "terminal")
                 hl == Hits(u, on, "lethal")
                 ht == Hits(u, on, "terminal")
                 de == Deaths(u, on)
                 hl1 == Hits(u, on, "lethal")'
                 ht1 == Hits(u, on, "terminal")'
      <4>3. /\ rl \in Nat /\ rt \in Nat /\ dl \in Nat /\ dt \in Nat /\ hl \in Nat /\ ht \in Nat /\ de \in Nat
            /\ hl1 \in Nat /\ ht1 \in Nat
        BY <2>3, <2>4
      <4>4. rl + hl <= dl /\ rt + ht + de <= dt + rl /\ hl1 <= hl + ql /\ ht1 <= ht + qt
        BY <2>2, <3>6
      <4>2. /\ Said(u, "receipt", on, "lethal") + Hits(u, on, "lethal")' <= Said(u, "damage", on, "lethal") + ql
            /\ Said(u, "receipt", on, "terminal") + Hits(u, on, "terminal")' + Deaths(u, on)
                   <= (Said(u, "damage", on, "terminal") + qt) + Said(u, "receipt", on, "lethal")
        <5> HIDE DEF rl, rt, dl, dt, hl, ht, de, hl1, ht1
        <5>1. rl + hl1 <= dl + ql /\ rt + ht1 + de <= (dt + qt) + rl
          BY <3>4, <4>3, <4>4, PaidByReport
        <5> QED BY <5>1 DEF rl, rt, dl, dt, hl, ht, de, hl1, ht1
      <4> QED BY <3>5, <3>6, <4>1, <4>2
    <3>7. CASE /\ ql = 0 /\ qt = 0
               /\ Hits(u, on, "lethal")' <= Hits(u, on, "lethal") - pl
               /\ Hits(u, on, "terminal")' <= Hits(u, on, "terminal") - pt
               /\ Deaths(u, on)' <= Deaths(u, on) + pl
      <4>1. /\ Said(u, "damage", on, "lethal")' = Said(u, "damage", on, "lethal")
            /\ Said(u, "damage", on, "terminal")' = Said(u, "damage", on, "terminal")
        BY <2>4, <3>5, <3>7
      <4> DEFINE rl == Said(u, "receipt", on, "lethal")
                 rt == Said(u, "receipt", on, "terminal")
                 dl == Said(u, "damage", on, "lethal")
                 dt == Said(u, "damage", on, "terminal")
                 hl == Hits(u, on, "lethal")
                 ht == Hits(u, on, "terminal")
                 de == Deaths(u, on)
                 hl1 == Hits(u, on, "lethal")'
                 ht1 == Hits(u, on, "terminal")'
                 de1 == Deaths(u, on)'
      <4>3. /\ rl \in Nat /\ rt \in Nat /\ dl \in Nat /\ dt \in Nat /\ hl \in Nat /\ ht \in Nat /\ de \in Nat
            /\ hl1 \in Nat /\ ht1 \in Nat /\ de1 \in Nat
        BY <2>3, <2>4
      <4>4. rl + hl <= dl /\ rt + ht + de <= dt + rl /\ hl1 <= hl - pl /\ ht1 <= ht - pt /\ de1 <= de + pl
        BY <2>2, <3>7
      <4>2. /\ (Said(u, "receipt", on, "lethal") + pl) + Hits(u, on, "lethal")' <= Said(u, "damage", on, "lethal")
            /\ (Said(u, "receipt", on, "terminal") + pt) + Hits(u, on, "terminal")' + Deaths(u, on)'
                   <= Said(u, "damage", on, "terminal") + (Said(u, "receipt", on, "lethal") + pl)
        <5> HIDE DEF rl, rt, dl, dt, hl, ht, de, hl1, ht1, de1
        <5>1. (rl + pl) + hl1 <= dl /\ (rt + pt) + ht1 + de1 <= dt + (rl + pl)
          BY <3>4, <4>3, <4>4, PaidByReceipt
        <5> QED BY <5>1 DEF rl, rt, dl, dt, hl, ht, de, hl1, ht1, de1
      <4> QED BY <3>5, <4>1, <4>2
    <3>8. CASE /\ ql = 0 /\ qt = 0 /\ pl = 0
               /\ Hits(u, on, "lethal")' = Hits(u, on, "lethal")
               /\ Hits(u, on, "terminal")' = Hits(u, on, "terminal")
               /\ Deaths(u, on)' <= Deaths(u, on) - pt
      BY SMTT(30), <2>2, <2>3, <2>4, <3>4, <3>5, <3>8
    <3> QED BY <3>3, <3>4, <3>6, <3>7, <3>8
  <2> QED BY <2>6, <2>7
<1>7. Paid'
  BY <1>5, <1>6 DEF Paid
<1>8. ReceiptsCovered'
  <2>1. ASSUME NEW u \in Members, u # m.from, NEW i \in DOMAIN log'[u]
        PROVE  Covered(log'[u], i)
    BY <1>2, <2>1 DEF ReceiptsCovered
  <2>2. ASSUME NEW i \in DOMAIN log'[m.from]
        PROVE  Covered(log'[m.from], i)
    <3> DEFINE s == log[m.from]
               n == Len(s)
    <3>1. s \in Seq(Messages) /\ n \in Nat /\ DOMAIN s = 1 .. n
      BY <1>1, <1>2
    <3>2. log'[m.from] = Append(s, m) /\ DOMAIN log'[m.from] = 1 .. n + 1
          /\ \A j \in 1 .. n + 1 : Append(s, m)[j] = IF j = n + 1 THEN m ELSE s[j]
      BY <1>1, <1>2, <3>1
    <3>3. CASE i \in 1 .. n
      <4>1. ASSUME NEW kind, NEW on, NEW key
            PROVE  Told(Append(s, m), i, kind, on, key) = Told(s, i, kind, on, key)
        <5> HIDE DEF s
        <5>1. i \in 1 .. Len(s)
          BY <3>3
        <5> QED BY <1>1, <3>1, <5>1, ToldBefore
      <4>2. Append(s, m)[i] = s[i]
        BY <3>1, <3>2, <3>3
      <4>3. Covered(s, i)
        BY <1>1, <3>1, <3>3 DEF ReceiptsCovered
      <4> DEFINE t == Append(s, m)
      <4>4. \A kind, on, key : Told(t, i, kind, on, key) = Told(s, i, kind, on, key)
        BY <4>1
      <4> HIDE DEF s, t
      <4>5. Covered(t, i)
        <5>1. t[i] = s[i]
          BY <4>2 DEF t
        <5> QED BY <4>3, <4>4, <5>1 DEF Covered
      <4> QED BY <3>2, <4>5 DEF t
    <3>4. CASE i = n + 1
      <4>1. log'[m.from][i] = m /\ Len(log'[m.from]) = i
        BY <1>1, <1>2, <3>1, <3>2, <3>4
      <4>2. CASE m.kind = "receipt"
        <5>1. m.on \in Members /\ m.key \in {"lethal", "terminal"}
          BY <1>1, <4>2 DEF Statuses
        <5>2. /\ Said(m.from, "receipt", m.on, "lethal")' + Hits(m.from, m.on, "lethal")' <= Said(m.from, "damage", m.on, "lethal")'
              /\ Said(m.from, "receipt", m.on, "terminal")' + Hits(m.from, m.on, "terminal")' + Deaths(m.from, m.on)'
                    <= Said(m.from, "damage", m.on, "terminal")' + Said(m.from, "receipt", m.on, "lethal")'
          BY <1>6, <5>1
        <5>3. Hits(m.from, m.on, "lethal")' \in Nat /\ Hits(m.from, m.on, "terminal")' \in Nat /\ Deaths(m.from, m.on)' \in Nat
          BY <1>1, <1>3, <5>1 DEF Statuses
        <5>4. ASSUME NEW kind, NEW key \in Statuses
              PROVE  Said(m.from, kind, m.on, key)' \in Nat
          BY <1>4, <5>1, <5>4 DEF One
        <5>5. /\ Said(m.from, "receipt", m.on, "lethal")' \in Nat /\ Said(m.from, "receipt", m.on, "terminal")' \in Nat
              /\ Said(m.from, "damage", m.on, "lethal")' \in Nat /\ Said(m.from, "damage", m.on, "terminal")' \in Nat
          BY <5>4 DEF Statuses
        <5>6. /\ Said(m.from, "receipt", m.on, "lethal")' <= Said(m.from, "damage", m.on, "lethal")'
              /\ Said(m.from, "receipt", m.on, "terminal")' <=
                     Said(m.from, "damage", m.on, "terminal")' + Said(m.from, "receipt", m.on, "lethal")'
          BY SMTT(30), <5>2, <5>3, <5>5
        <5>7. \A kind, key : Said(m.from, kind, m.on, key)' = Cardinality(Told(log'[m.from], i, kind, m.on, key))
          BY <4>1 DEF Said
        <5>8. LET Reports(kind) == Cardinality(Told(log'[m.from], i, kind, m.on, m.key))
              IN  Reports("receipt") <= Reports("damage") +
                      (IF m.key = "terminal" THEN Cardinality(Told(log'[m.from], i, "receipt", m.on, "lethal")) ELSE 0)
          <6>1. CASE m.key = "lethal"
            BY <5>5, <5>6, <5>7, <6>1
          <6>2. CASE m.key = "terminal"
            BY <5>6, <5>7, <6>2
          <6> QED BY <5>1, <6>1, <6>2
        <5> QED BY <4>1, <5>8 DEF Covered
      <4>3. CASE m.kind # "receipt"
        BY <4>1, <4>3 DEF Covered
      <4> QED BY <4>2, <4>3
    <3>5. i \in 1 .. n \/ i = n + 1
      BY <3>1, <3>2
    <3> QED BY <3>3, <3>4, <3>5
  <2> QED BY <2>1, <2>2 DEF ReceiptsCovered
<1> QED BY <1>7, <1>8

\* Among the first n events is a hit that no result of the key came after.
HitOpen(s, k, n) ==
    \E j \in 1 .. n :
        /\ s[j].kind = "hit" /\ s[j].key = k
        /\ \A i \in j .. n : ~(s[i].kind = "result" /\ s[i].key = k)

\* Who is on record as hit has said so since its last result; and what every
\* result stood on when it was announced.
Witnessing ==
    \A u \in Members : \A k \in Keys :
        projectiles[k] # None /\ u # projectiles[k].owner /\ u \in projectiles[k].reporters
            => HitOpen(log[u], k, Len(log[u]))
Standing(s, i, u) ==
    s[i].kind = "result" =>
        /\ s[i].key \in Keys /\ projectiles[s[i].key] # None
        /\ projectiles[s[i].key].owner # u => HitOpen(s, s[i].key, i - 1)
ResultsCovered == \A u \in Members : \A i \in DOMAIN log[u] : Standing(log[u], i, u)

\* A hit is open after one event more, unless that is the result.
LEMMA OpenKept ==
    ASSUME NEW S, NEW s \in Seq(S), NEW m \in S, NEW k
    PROVE  /\ \A i \in 0 .. Len(s) : HitOpen(Append(s, m), k, i) <=> HitOpen(s, k, i)
           /\ HitOpen(s, k, Len(s)) /\ ~(m.kind = "result" /\ m.key = k) => HitOpen(Append(s, m), k, Len(s) + 1)
           /\ m.kind = "hit" /\ m.key = k => HitOpen(Append(s, m), k, Len(s) + 1)
<1> DEFINE n == Len(s)
           t == Append(s, m)
<1>1. n \in Nat /\ \A i \in 1 .. n : t[i] = s[i]
  OBVIOUS
<1>2. t[n + 1] = m
  OBVIOUS
<1> HIDE DEF n, t
<1>3. ASSUME NEW i \in 0 .. n
      PROVE  HitOpen(t, k, i) <=> HitOpen(s, k, i)
  <2>1. \A j \in 1 .. i : t[j] = s[j] /\ \A l \in j .. i : t[l] = s[l]
    BY <1>1
  <2> QED BY <2>1 DEF HitOpen
<1>4. ASSUME HitOpen(s, k, n), ~(m.kind = "result" /\ m.key = k)
      PROVE  HitOpen(t, k, n + 1)
  <2>1. PICK j \in 1 .. n : /\ s[j].kind = "hit" /\ s[j].key = k
                            /\ \A i \in j .. n : ~(s[i].kind = "result" /\ s[i].key = k)
    BY <1>4 DEF HitOpen
  <2>2. ASSUME NEW i \in j .. n + 1
        PROVE  ~(t[i].kind = "result" /\ t[i].key = k)
    <3>1. CASE i = n + 1
      BY <1>2, <1>4, <3>1
    <3>2. CASE i # n + 1
      <4>1. i \in 1 .. n /\ i \in j .. n
        BY <1>1, <2>1, <3>2
      <4> QED BY <1>1, <2>1, <4>1
    <3> QED BY <3>1, <3>2
  <2>3. j \in 1 .. n + 1 /\ t[j].kind = "hit" /\ t[j].key = k
    BY <1>1, <2>1
  <2> QED BY <2>2, <2>3 DEF HitOpen
<1>5. ASSUME m.kind = "hit", m.key = k
      PROVE  HitOpen(t, k, n + 1)
  <2>1. n + 1 \in 1 .. n + 1 /\ \A i \in n + 1 .. n + 1 : i = n + 1
    BY <1>1
  <2> QED BY <1>2, <1>5, <2>1 DEF HitOpen
<1> QED BY <1>3, <1>4, <1>5 DEF n, t

\* What an event does to the projectiles: a key keeps its owner, the witness of
\* a hit comes with the hit and goes with the result.
LEMMA ProjectileStep ==
    ASSUME LedgerTypes, NEW f \in Families, NEW m \in Traffic[f], Handle(m), NEW k \in Keys
    PROVE  /\ projectiles[k] # None => projectiles'[k] # None /\ projectiles'[k].owner = projectiles[k].owner
           /\ projectiles[k] # None => \A v \in projectiles'[k].reporters :
                  v \in projectiles[k].reporters \/ (v = m.from /\ m.kind = "hit" /\ m.key = k)
           /\ m.kind = "result" /\ m.key = k =>
                  /\ projectiles[k] # None
                  /\ projectiles[k].owner # m.from =>
                         m.from \in projectiles[k].reporters /\ m.from \notin projectiles'[k].reporters
           /\ projectiles[k] = None => projectiles'[k] = None \/ projectiles'[k].reporters = {}
           /\ m.kind = "result" => m.key \in Keys
<1> DEFINE Rows == [owner : Members, alive : BOOLEAN, reporters : SUBSET Members]
<1>1. /\ m.from \in Members /\ DOMAIN projectiles = Keys
      /\ m.kind \in {"create", "hit", "result", "destroy"} => m.key \in Keys
  <2>1. f \in Battles
    BY RelayAssumption DEF RelayAssumption, Battles
  <2> QED BY <2>1, MessageIs DEF Battles, LedgerTypes
<1>2. None \notin Rows
  BY RelayAssumption DEF RelayAssumption
<1>3. projectiles[k] # None => projectiles[k] \in Rows
  BY DEF LedgerTypes
<1>4. CASE m.kind \notin {"create", "hit", "result", "destroy"}
  <2>1. projectiles' = projectiles
    BY <1>4, Handled DEF State, Pickup, Receipt, Pair, OwnReport, OwnedSlip, DeathNotice,
                         SpawnCollectible, Move, ledgers
  <2> QED BY <1>4, <2>1
<1>5. CASE m.kind \in {"create", "hit", "result", "destroy"}
  <2>1. Projectile(m) /\ m.key \in Keys
    BY <1>1, <1>5, Handled
  <2>2. CASE m.key # k
    <3>1. projectiles'[k] = projectiles[k]
      <4>1. projectiles' = projectiles \/ \E row : projectiles' = [projectiles EXCEPT ![m.key] = row]
        BY <2>1 DEF Projectile
      <4> QED BY <1>1, <2>1, <2>2, <4>1
    <3> QED BY <2>1, <2>2, <3>1
  <2>3. CASE m.key = k
    <3>1. CASE m.kind = "create"
      <4>1. projectiles[k] = None /\ projectiles'[k] = [owner |-> m.from, alive |-> TRUE, reporters |-> {}]
        BY <1>1, <2>1, <2>3, <3>1 DEF Projectile
      <4> QED BY <3>1, <4>1
    <3>2. CASE m.kind # "create"
      <4>1. Flies(k) /\ projectiles[k] \in Rows
        BY <1>3, <1>5, <2>1, <2>3, <3>2 DEF Projectile, Flies
      <4>2. CASE m.kind = "hit"
        <5>1. projectiles'[k] = [projectiles[k] EXCEPT !.reporters = projectiles[k].reporters \cup {m.from}]
          BY <1>1, <2>1, <2>3, <4>2 DEF Projectile
        <5>2. /\ projectiles'[k] \in Rows /\ projectiles'[k].owner = projectiles[k].owner
              /\ projectiles'[k].reporters = projectiles[k].reporters \cup {m.from}
          BY <1>1, <4>1, <5>1
        <5> QED BY <1>2, <2>3, <4>1, <4>2, <5>2 DEF Flies
      <4>3. CASE m.kind = "result" /\ m.from = projectiles[k].owner
        <5>1. projectiles' = projectiles
          BY <2>1, <2>3, <4>3 DEF Projectile
        <5> QED BY <1>2, <2>1, <2>3, <4>1, <4>3, <5>1 DEF Flies
      <4>4. CASE m.kind = "result" /\ m.from # projectiles[k].owner
        <5>1. projectiles'[k] = [projectiles[k] EXCEPT !.reporters = projectiles[k].reporters \ {m.from}]
          BY <1>1, <2>1, <2>3, <4>4 DEF Projectile, Witnessed
        <5>2. /\ projectiles'[k] \in Rows /\ projectiles'[k].owner = projectiles[k].owner
              /\ projectiles'[k].reporters = projectiles[k].reporters \ {m.from}
          BY <1>1, <4>1, <5>1
        <5>3. m.from \in projectiles[k].reporters
          BY <2>1, <2>3, <4>4 DEF Projectile
        <5> QED BY <1>2, <2>1, <2>3, <4>1, <4>4, <5>2, <5>3 DEF Flies
      <4>5. CASE m.kind = "destroy"
        <5>1. projectiles'[k] = [projectiles[k] EXCEPT !.alive = FALSE]
          BY <1>1, <2>1, <2>3, <4>5 DEF Projectile
        <5>2. /\ projectiles'[k] \in Rows /\ projectiles'[k].owner = projectiles[k].owner
              /\ projectiles'[k].reporters = projectiles[k].reporters
          BY <1>1, <4>1, <5>1
        <5> QED BY <1>2, <2>3, <4>1, <4>5, <5>2 DEF Flies
      <4> QED BY <1>5, <3>2, <4>2, <4>3, <4>4, <4>5
    <3> QED BY <3>1, <3>2
  <2> QED BY <2>2, <2>3
<1> QED BY <1>4, <1>5

LEMMA ResultsExecuted ==
    ASSUME LedgerTypes, RelayTypes, Witnessing, ResultsCovered, NEW f \in Families, NEW m \in Traffic[f], Handle(m),
           RelayTypes', log' = [log EXCEPT ![m.from] = Append(@, m)]
    PROVE  Witnessing' /\ ResultsCovered'
<1> DEFINE s == log[m.from]
           n == Len(s)
           t == Append(s, m)
<1>1. m \in Messages /\ m.from \in Members
  BY MessageIs
<1>2. /\ s \in Seq(Messages) /\ n \in Nat /\ log'[m.from] = t /\ Len(t) = n + 1
      /\ DOMAIN s = 1 .. n /\ DOMAIN t = 1 .. n + 1
      /\ \A u \in Members \ {m.from} : log'[u] = log[u]
  BY <1>1 DEF RelayTypes
<1>3. \A i \in 1 .. n + 1 : t[i] = IF i = n + 1 THEN m ELSE s[i]
  BY <1>1, <1>2
<1>4. ASSUME NEW k
      PROVE  /\ \A i \in 0 .. n : HitOpen(t, k, i) <=> HitOpen(s, k, i)
             /\ HitOpen(s, k, n) /\ ~(m.kind = "result" /\ m.key = k) => HitOpen(t, k, n + 1)
             /\ m.kind = "hit" /\ m.key = k => HitOpen(t, k, n + 1)
  <2> HIDE DEF s
  <2> QED BY <1>1, <1>2, OpenKept
<1>5. s = log[m.from] /\ n = Len(s)
  OBVIOUS
<1> HIDE DEF s, n, t
<1>6. ASSUME NEW u \in Members, NEW k \in Keys,
             projectiles'[k] # None, u # projectiles'[k].owner, u \in projectiles'[k].reporters
      PROVE  HitOpen(log'[u], k, Len(log'[u]))
  <2>1. projectiles[k] # None
    BY <1>6, ProjectileStep
  <2>2. u # projectiles[k].owner /\ (u \in projectiles[k].reporters \/ (u = m.from /\ m.kind = "hit" /\ m.key = k))
    BY <1>6, <2>1, ProjectileStep
  <2>3. CASE u = m.from /\ m.kind = "hit" /\ m.key = k
    BY <1>2, <1>4, <2>3
  <2>4. CASE u \in projectiles[k].reporters
    <3>1. HitOpen(log[u], k, Len(log[u]))
      BY <2>1, <2>2, <2>4 DEF Witnessing
    <3>2. CASE u # m.from
      BY <1>2, <3>1, <3>2
    <3>3. CASE u = m.from
      <4>1. ~(m.kind = "result" /\ m.key = k)
        BY <1>6, <2>1, <2>2, <3>3, ProjectileStep
      <4> QED BY <1>2, <1>4, <1>5, <3>1, <3>3, <4>1
    <3> QED BY <3>2, <3>3
  <2> QED BY <2>2, <2>3, <2>4
<1>7. ASSUME NEW k \in Keys, projectiles[k] # None
      PROVE  projectiles'[k] # None /\ projectiles'[k].owner = projectiles[k].owner
  BY <1>7, ProjectileStep
<1>8. ASSUME NEW u \in Members, NEW i \in DOMAIN log'[u], log'[u][i].kind = "result"
      PROVE  LET k == log'[u][i].key
             IN  /\ k \in Keys /\ projectiles'[k] # None
                 /\ projectiles'[k].owner # u => HitOpen(log'[u], k, i - 1)
  <2>1. CASE u # m.from
    BY <1>2, <1>7, <1>8, <2>1 DEF ResultsCovered, Standing
  <2>2. CASE u = m.from /\ i # n + 1
    <3>1. i \in 1 .. n /\ i \in DOMAIN s /\ t[i] = s[i] /\ i - 1 \in 0 .. n
      BY <1>2, <1>3, <1>8, <2>2
    <3>2. Standing(s, i, u)
      BY <1>5, <2>2, <3>1 DEF ResultsCovered
    <3> QED BY <1>2, <1>4, <1>7, <1>8, <2>2, <3>1, <3>2 DEF Standing
  <2>3. CASE u = m.from /\ i = n + 1
    <3>1. log'[u][i] = m /\ i - 1 = n /\ n \in 0 .. n
      BY <1>2, <1>3, <1>8, <2>3
    <3>2. m.kind = "result" /\ m.key \in Keys
      <4>1. m.kind = "result"
        BY <1>8, <3>1
      <4>2. f \in Battles
        BY RelayAssumption DEF RelayAssumption, Battles
      <4> QED BY <4>1, <4>2, MessageIs DEF Battles
    <3>3. projectiles[m.key] # None /\ (projectiles[m.key].owner # u => u \in projectiles[m.key].reporters)
      BY <2>3, <3>2, ProjectileStep
    <3>4. projectiles[m.key].owner # u => HitOpen(s, m.key, n)
      BY <1>1, <1>5, <2>3, <3>2, <3>3 DEF Witnessing
    <3> QED BY <1>2, <1>4, <1>7, <2>3, <3>1, <3>2, <3>3, <3>4
  <2> QED BY <2>1, <2>2, <2>3
<1>9. Witnessing'
  BY <1>6 DEF Witnessing
<1>10. ResultsCovered'
  BY <1>8 DEF ResultsCovered, Standing
<1> QED BY <1>9, <1>10

\* In every state of a battle there is a report for every open witness and
\* every receipt, and a hit for every result.
LEMMA WitnessesInvariant == BattleSpec => [](Paid /\ ReceiptsCovered /\ Witnessing /\ ResultsCovered)
<1> DEFINE Inv == Paid /\ ReceiptsCovered /\ Witnessing /\ ResultsCovered
<1>1. BattleInit => Inv
  <2> SUFFICES ASSUME BattleInit PROVE Inv
    OBVIOUS
  <2>1. \A u \in Members : log[u] = <<>> /\ hit_receipts[u] = <<>> /\ death_receipts[u] = <<>>
    BY DEF BattleInit, RelayInit
  <2>2. Cardinality({}) = 0
    BY FS_EmptySet
  <2>3. ASSUME NEW u \in Members, NEW kind, NEW on, NEW key
        PROVE  Said(u, kind, on, key) = 0 /\ Hits(u, on, key) = 0 /\ Deaths(u, on) = 0
    <3>1. Told(<<>>, Len(<<>>), kind, on, key) = {} /\ RowsOf(<<>>, on, key) = {} /\ RowsOf(<<>>, on, "terminal") = {}
      BY DEF Told, RowsOf
    <3> QED BY <2>1, <2>2, <3>1 DEF Said, Hits, Deaths
  <2>4. Paid
    BY <2>3 DEF Paid
  <2>5. ReceiptsCovered /\ ResultsCovered
    BY <2>1 DEF ReceiptsCovered, ResultsCovered
  <2>6. Witnessing
    BY DEF BattleInit, RelayInit, Witnessing
  <2> QED BY <2>4, <2>5, <2>6
<1>2. BattleTypes /\ BattleTypes' /\ Inv /\ [BattleNext]_allVars => Inv'
  <2> SUFFICES ASSUME LedgerTypes, RelayTypes, LedgerTypes', RelayTypes', Inv, [BattleNext]_allVars
               PROVE  Inv'
    BY DEF BattleTypes
  <2>1. CASE Executing
    <3>0. family \in Families
      BY <2>1 DEF Executing
    <3>1. PICK m \in Traffic[family] : \E targets \in Recipients(m.from) : Execute(m, targets)
      BY <2>1 DEF Executing
    <3>2. Handle(m) /\ log' = [log EXCEPT ![m.from] = Append(@, m)]
      BY <3>1 DEF Execute
    <3>3. Paid' /\ ReceiptsCovered'
      BY <3>0, <3>2, PaidExecuted
    <3>4. Witnessing' /\ ResultsCovered'
      BY <3>0, <3>2, ResultsExecuted
    <3> QED BY <3>3, <3>4
  <2>2. CASE Repeating \/ Expiring \/ Aside
    <3>1. log' = log /\ hit_receipts' = hit_receipts /\ death_receipts' = death_receipts /\ projectiles' = projectiles
      BY <2>2 DEF Repeating, Repeat, Expiring, ExpirePair, Aside, ledgers, receipts
    <3>2. Paid' /\ ReceiptsCovered'
      BY <3>1 DEF Paid, ReceiptsCovered, Said, Hits, Deaths
    <3>3. Witnessing' /\ ResultsCovered'
      BY <3>1 DEF Witnessing, ResultsCovered, Standing
    <3> QED BY <3>2, <3>3
  <2> QED BY <2>1, <2>2, StepKinds
<1> QED BY <1>1, <1>2, TypesInvariant, PTL DEF BattleSpec

\* A damage report pays for one receipt, a lethal receipt for one receipt of a
\* death (observe_hit_receipt and its ledgers, cut to their limit), a hit for
\* one result of its target (hit_reporters), in whatever order they are sent
\* and however often.
THEOREM WitnessesAlwaysSpentOnce == BattleSpec => []WitnessesSpentOnce
<1>1. ReceiptsCovered /\ ResultsCovered => WitnessesSpentOnce
  <2> SUFFICES ASSUME ReceiptsCovered, ResultsCovered, NEW u \in Members, NEW i \in DOMAIN log[u]
               PROVE  LET m == log[u][i]
                          Reports(kind) == Before(u, i, kind, m.on, m.key)
                      IN  /\ m.kind = "receipt" =>
                                 Reports("receipt") <= Reports("damage") +
                                     (IF m.key = "terminal" THEN Before(u, i, "receipt", m.on, "lethal") ELSE 0)
                          /\ m.kind = "result" /\ projectiles[m.key].owner # u =>
                                 \E j \in 1 .. i - 1 :
                                     /\ log[u][j].kind = "hit" /\ log[u][j].key = m.key
                                     /\ \A k \in j .. i - 1 : ~(log[u][k].kind = "result" /\ log[u][k].key = m.key)
    BY DEF WitnessesSpentOnce
  <2>1. \A kind, on, key : Before(u, i, kind, on, key) = Cardinality(Told(log[u], i, kind, on, key))
    BY DEF Before, Told
  <2>2. Covered(log[u], i) /\ Standing(log[u], i, u)
    BY DEF ReceiptsCovered, ResultsCovered
  <2> QED BY <2>1, <2>2 DEF Covered, Standing, HitOpen
<1> QED BY <1>1, WitnessesInvariant, PTL

-----------------------------------------------------------------------------
(* Monsters                                                                *)

Monsters == [active : BOOLEAN, sequence : Nat, group : Templates \cup GroupIds, hp : Int]
Mob(g) == {a \in Active : actors[a].group = g}

\* The books of the monsters: who is there came and did not go.
Mustered ==
    /\ actors \in [Actors -> Monsters \cup {None}]
    /\ spawned \in [Templates \cup GroupIds -> Nat]
    /\ retired \in [GroupIds -> Nat] /\ fled \in [GroupIds -> Nat] /\ triggered \subseteq GroupIds
    /\ born \in Nat /\ gone \in Nat
    /\ IsFiniteSet(Active) /\ Cardinality(Active) = born - gone

\* Assault: those of the waves before, which all went, and of this wave.
WavesCounted ==
    /\ index \in Nat /\ \A w \in 1 .. index : Quota(w) \in Nat
    /\ born = SpawnedNow + Through(index) /\ gone >= Through(index)
    /\ finished => index = Len(Waves) /\ SpawnedNow = 0
    /\ outcome = TRUE => gone = Through(Len(Waves))

\* Foster: those of a group are there, or died, or fled.
GroupsCounted ==
    /\ Cardinality(Active) <= GlobalLimit
    /\ \A g \in GroupIds :
           /\ spawned[g] = retired[g] + fled[g] + Cardinality(Mob(g))
           /\ spawned[g] <= Len(Groups[g].spawns)
           /\ outcome = TRUE => spawned[g] = Len(Groups[g].spawns) /\ fled[g] = 0

MonstersKept ==
    /\ Mustered
    /\ outcome = TRUE => stage # "battle"
    /\ family = "assault" => WavesCounted
    /\ family = "foster" => GroupsCounted

\* A monster of which one attribute changes.
LEMMA MonsterIs ==
    ASSUME NEW x \in Monsters
    PROVE  /\ x # None
           /\ x = [active |-> x.active, sequence |-> x.sequence, group |-> x.group, hp |-> x.hp]
BY HostModesAssumption DEF HostModesAssumption, Monsters, GroupIds

LEMMA Damaged ==
    ASSUME NEW x \in Monsters, NEW hp \in Int
    PROVE  LET y == [x EXCEPT !.hp = hp] IN y \in Monsters /\ y.active = x.active /\ y.group = x.group
BY DEF Monsters

Without(f, a, seq, no) == [f EXCEPT ![a].active = no, ![a].sequence = seq]

LEMMA Dismissed ==
    ASSUME NEW f \in [Actors -> Monsters \cup {None}], NEW a \in Actors, f[a] \in Monsters, NEW seq \in Nat,
           NEW no \in BOOLEAN, NEW e, e = Without(f, a, seq, no)
    PROVE  /\ e \in [Actors -> Monsters \cup {None}] /\ e[a] \in Monsters /\ e[a].active = no
           /\ \A b \in Actors : b # a => e[b] = f[b]
<1> DEFINE x == f[a]
<1>1. x = [active |-> x.active, sequence |-> x.sequence, group |-> x.group, hp |-> x.hp]
  BY MonsterIs
<1>2. e[a] = [active |-> no, sequence |-> seq, group |-> x.group, hp |-> x.hp]
  BY <1>1 DEF Without
<1>3. e[a] \in Monsters /\ e[a].active = no
  BY <1>2 DEF Monsters
<1>4. DOMAIN e = Actors /\ e = [b \in Actors |-> e[b]] /\ \A b \in Actors : b # a => e[b] = f[b]
  BY DEF Without
<1>5. e \in [Actors -> Monsters \cup {None}]
  BY <1>3, <1>4
<1> QED BY <1>3, <1>4, <1>5

\* Sums over the waves.
LEMMA QuotaIs ==
    ASSUME NEW w \in 1 .. Len(Waves)
    PROVE  Quota(w) \in Nat
<1> DEFINE f == [t \in Templates |-> Waves[w][t]]
<1>1. IsFiniteSet(Templates) /\ \A t \in Templates : f[t] \in Nat
  BY HostModesAssumption DEF HostModesAssumption
<1>2. DOMAIN f = Templates
  OBVIOUS
<1> HIDE DEF f
<1>3. SumFunction(f) \in Nat
  BY <1>1, <1>2, SumNat DEF SumFunction
<1> QED BY <1>3 DEF Quota, f
LEMMA ThroughNone ==
    Through(0) = 0
<1> DEFINE f == [w \in 1 .. 0 |-> Quota(w)]
<1>1. DOMAIN f = {}
  OBVIOUS
<1> HIDE DEF f
<1>2. SumFunction(f) = 0
  BY <1>1, SumEmpty DEF SumFunction
<1> QED BY <1>2 DEF Through, f

LEMMA ThroughGrows ==
    ASSUME NEW n \in Nat, \A w \in 1 .. n + 1 : Quota(w) \in Nat
    PROVE  Through(n + 1) = Through(n) + Quota(n + 1) /\ Through(n) \in Int
<1> DEFINE f == [w \in 1 .. n |-> Quota(w)]
           e == [w \in 1 .. n + 1 |-> Quota(w)]
<1>1. DOMAIN f = 1 .. n /\ DOMAIN e = 1 .. n + 1
  OBVIOUS
<1>2. 1 .. n + 1 = (1 .. n) \cup {n + 1} /\ n + 1 \notin 1 .. n
  OBVIOUS
<1>3. DOMAIN e = DOMAIN f \cup {n + 1} /\ n + 1 \notin DOMAIN f
  BY <1>1, <1>2
<1>4. \A w \in DOMAIN f : e[w] = f[w] /\ f[w] \in Int
  BY <1>2
<1>5. e[n + 1] \in Int /\ e[n + 1] = Quota(n + 1)
  OBVIOUS
<1>6. IsFiniteSet(DOMAIN f)
  BY <1>1, FS_Interval
<1> HIDE DEF e, f
<1>7. SumFunction(e) = SumFunction(f) + e[n + 1] /\ SumFunction(f) \in Int
  BY <1>3, <1>4, <1>5, <1>6, SumGrows
<1> QED BY <1>5, <1>7 DEF Through, e, f

LEMMA SpawnedNowIs ==
    ASSUME NEW f \in [Templates -> Nat]
    PROVE  /\ SumFunction(f) \in Nat
           /\ (\A t \in Templates : f[t] = 0) => SumFunction(f) = 0
           /\ \A w : (\A t \in Templates : f[t] = Waves[w][t]) => Quota(w) = SumFunction(f)
<1>1. IsFiniteSet(Templates) /\ DOMAIN f = Templates /\ \A t \in Templates : f[t] \in Nat
  BY HostModesAssumption DEF HostModesAssumption
<1>2. SumFunction(f) \in Nat
  BY <1>1, SumNat DEF SumFunction
<1>3. ASSUME \A t \in Templates : f[t] = 0
      PROVE  SumFunction(f) = 0
  <2> DEFINE N == {0}
  <2>1. 0 \in N /\ (\A a, b \in N : a + b \in N) /\ \A t \in Templates : f[t] \in N
    BY <1>3
  <2>2. N = {0}
    OBVIOUS
  <2> HIDE DEF N
  <2>3. SumFunction(f) \in N
    BY <1>1, <2>1, SumType DEF SumFunction
  <2> QED BY <2>2, <2>3
<1>4. ASSUME NEW w, \A t \in Templates : f[t] = Waves[w][t]
      PROVE  Quota(w) = SumFunction(f)
  <2> DEFINE e == [t \in Templates |-> Waves[w][t]]
  <2>1. DOMAIN e = Templates /\ \A t \in Templates : f[t] = e[t]
    BY <1>4
  <2> HIDE DEF e
  <2>2. SumFunctionOnSet(f, Templates) = SumFunctionOnSet(e, Templates)
    BY <1>1, <2>1, SumSame
  <2> QED BY <1>1, <2>1, <2>2 DEF SumFunction, Quota, e
<1> QED BY <1>2, <1>3, <1>4

\* One more of a template.
LEMMA SpawnedMore ==
    ASSUME NEW S, NEW f \in [S -> Nat], Templates \subseteq S, NEW x \in Templates
    PROVE  SumFunction([t \in Templates |-> [f EXCEPT ![x] = @ + 1][t]]) = SumFunction([t \in Templates |-> f[t]]) + 1
<1> DEFINE g == [t \in Templates |-> f[t]]
           e == [t \in Templates |-> [f EXCEPT ![x] = @ + 1][t]]
<1>1. DOMAIN g = Templates /\ DOMAIN e = Templates /\ g \in [Templates -> Nat]
  OBVIOUS
<1>2. \A y \in Templates : g[y] \in Int /\ e[y] \in Int /\ (y # x => e[y] = g[y])
  OBVIOUS
<1>3. e[x] = g[x] + 1 /\ g[x] \in Int
  OBVIOUS
<1>4. IsFiniteSet(Templates)
  BY HostModesAssumption DEF HostModesAssumption
<1> HIDE DEF g, e
<1>5. SumFunction(e) = SumFunction(g) - g[x] + e[x] /\ SumFunction(g) \in Int
  BY <1>1, <1>2, <1>4, SumChanges
<1>6. SumFunction(e) = SumFunction(g) + 1
  BY <1>3, <1>5
<1> QED BY <1>6 DEF e, g
LEMMA ThroughIs ==
    ASSUME NEW n \in Nat, \A w \in 1 .. n : Quota(w) \in Nat
    PROVE  Through(n) \in Nat
<1> DEFINE f == [w \in 1 .. n |-> Quota(w)]
<1>1. IsFiniteSet(1 .. n) /\ DOMAIN f = 1 .. n /\ \A w \in 1 .. n : f[w] \in Nat
  BY FS_Interval
<1> HIDE DEF f
<1>2. SumFunction(f) \in Nat
  BY <1>1, SumNat DEF SumFunction
<1> QED BY <1>2 DEF Through, f

-----------------------------------------------------------------------------
\* What the books are made of.
LEMMA BooksAre ==
    ASSUME Mustered
    PROVE  /\ DOMAIN actors = Actors /\ DOMAIN spawned = Templates \cup GroupIds
           /\ DOMAIN retired = GroupIds /\ DOMAIN fled = GroupIds
           /\ \A a \in Active : actors[a] \in Monsters
           /\ \A x \in Templates \cup GroupIds : spawned[x] \in Nat
           /\ \A g \in GroupIds : retired[g] \in Nat /\ fled[g] \in Nat
           /\ \A g : Mob(g) \subseteq Active /\ IsFiniteSet(Mob(g)) /\ Cardinality(Mob(g)) \in Nat
           /\ Cardinality(Active) \in Nat
<1>1. \A a \in Active : actors[a] \in Monsters
  BY DEF Active, Mustered
<1>2. ASSUME NEW g
      PROVE  Mob(g) \subseteq Active /\ IsFiniteSet(Mob(g)) /\ Cardinality(Mob(g)) \in Nat
  <2>1. Mob(g) \subseteq Active
    BY DEF Mob
  <2>2. IsFiniteSet(Mob(g))
    BY <2>1, FS_Subset DEF Mustered
  <2> QED BY <2>1, <2>2, FS_CardinalityType
<1>3. Cardinality(Active) \in Nat
  BY FS_CardinalityType DEF Mustered
<1> QED BY <1>1, <1>2, <1>3 DEF Mustered

LEMMA CompleteMeans ==
    ASSUME Mustered, GroupsCounted, NEW g \in GroupIds, GroupComplete(g)
    PROVE  spawned[g] = Len(Groups[g].spawns) /\ fled[g] = 0
<1>1. spawned[g] = Len(Groups[g].spawns) /\ retired[g] + Cardinality(Mob(g)) = spawned[g]
  BY DEF GroupComplete, Mob
<1>2. spawned[g] = retired[g] + fled[g] + Cardinality(Mob(g))
  BY DEF GroupsCounted
<1> QED BY <1>1, <1>2, BooksAre

\* Nothing of the books changes.
LEMMA BooksClosed ==
    ASSUME MonstersKept, UNCHANGED family, UNCHANGED npcVars,
           UNCHANGED <<stage, outcome>> \/ (stage' # "battle" /\ UNCHANGED outcome)
    PROVE  MonstersKept'
<1>1. /\ UNCHANGED <<family, actors, spawned, retired, triggered, index, finished, born, gone, fled>>
      /\ UNCHANGED outcome /\ (stage' = stage \/ stage' # "battle")
  BY DEF npcVars
<1>2. Active' = Active /\ SpawnedNow' = SpawnedNow /\ \A g : Mob(g)' = Mob(g)
  BY <1>1 DEF Active, SpawnedNow, Mob
<1>3. Mustered'
  BY <1>1, <1>2 DEF MonstersKept, Mustered
<1>4. family = "assault" => WavesCounted'
  BY <1>1, <1>2 DEF MonstersKept, WavesCounted
<1>5. family = "foster" => GroupsCounted'
  BY <1>1, <1>2 DEF MonstersKept, GroupsCounted
<1> QED BY <1>1, <1>3, <1>4, <1>5 DEF MonstersKept

\* The Host's result: TRUE only of what is cleared.
LEMMA ResultKeepsBooks ==
    ASSUME MonstersKept, UNCHANGED family, NEW clear \in BOOLEAN, Result(clear)
    PROVE  MonstersKept'
<1>1. /\ UNCHANGED <<family, actors, spawned, retired, triggered, index, finished, born, gone, fled>>
      /\ Fought /\ stage' = "result" /\ outcome' = clear /\ (clear => Cleared)
  BY DEF Result, npcVars
<1>2. Active' = Active /\ SpawnedNow' = SpawnedNow /\ \A g : Mob(g)' = Mob(g)
  BY <1>1 DEF Active, SpawnedNow, Mob
<1>3. Mustered /\ Mustered'
  BY <1>1, <1>2 DEF MonstersKept, Mustered
<1>4. ASSUME family = "assault" PROVE WavesCounted'
  <2>1. WavesCounted
    BY <1>4 DEF MonstersKept
  <2>2. clear => gone = Through(Len(Waves))
    <3>1. SUFFICES ASSUME clear PROVE gone = Through(Len(Waves))
      OBVIOUS
    <3>2. finished /\ Active = {}
      BY <1>1, <1>4, <3>1 DEF Cleared, Assault
    <3>3. Cardinality(Active) = 0
      BY <3>2, FS_EmptySet
    <3>4. born - gone = 0 /\ born \in Nat /\ gone \in Nat
      BY <1>3, <3>3 DEF Mustered
    <3>5. born = SpawnedNow + Through(index) /\ index = Len(Waves) /\ SpawnedNow = 0
      BY <2>1, <3>2 DEF WavesCounted
    <3>6. Through(index) \in Int
      BY <2>1, ThroughIs DEF WavesCounted
    <3> QED BY <3>4, <3>5, <3>6
  <2> QED BY <1>1, <1>2, <2>1, <2>2 DEF WavesCounted
<1>5. ASSUME family = "foster" PROVE GroupsCounted'
  <2>1. GroupsCounted
    BY <1>5 DEF MonstersKept
  <2>2. ASSUME clear, NEW g \in GroupIds
        PROVE  spawned[g] = Len(Groups[g].spawns) /\ fled[g] = 0
    <3>1. GroupComplete(g)
      BY <1>1, <1>5, <2>2 DEF Cleared, Assault
    <3> QED BY <1>3, <2>1, <3>1, CompleteMeans
  <2> QED BY <1>1, <1>2, <2>1, <2>2 DEF GroupsCounted
<1> QED BY <1>1, <1>3, <1>4, <1>5 DEF MonstersKept
LEMMA SpawnedNowTyped ==
    ASSUME Mustered
    PROVE  SpawnedNow \in Nat
<1> DEFINE f == [t \in Templates |-> spawned[t]]
<1>1. f \in [Templates -> Nat]
  BY DEF Mustered
<1> HIDE DEF f
<1>2. SumFunction(f) \in Nat
  BY <1>1, SpawnedNowIs
<1> QED BY <1>2 DEF SpawnedNow, f

-----------------------------------------------------------------------------
\* A monster more.
LEMMA SpawnKeepsBooks ==
    ASSUME MonstersKept, UNCHANGED <<family, stage, outcome>>, NEW a \in Actors, NEW seq \in Nat,
           NEW point \in Templates, Spawn(a, point, seq)
    PROVE  MonstersKept'
<1>1. /\ Fought /\ ~finished /\ a \notin Active /\ outcome # TRUE /\ born' = born + 1
      /\ UNCHANGED <<index, finished, retired, triggered, gone, fled>>
  BY DEF Spawn, Fought, MonstersKept
<1>2. PICK x \in Templates \cup GroupIds :
           /\ IF Assault THEN x = point /\ spawned[x] < Waves[index + 1][x]
              ELSE Cardinality(Active) < GlobalLimit /\ Matching(point) = {x}
           /\ spawned' = [spawned EXCEPT ![x] = @ + 1]
           /\ actors' = [actors EXCEPT ![a] = [active |-> TRUE, sequence |-> seq, group |-> x, hp |-> InitialHp]]
  BY DEF Spawn
<1> DEFINE row == [active |-> TRUE, sequence |-> seq, group |-> x, hp |-> InitialHp]
<1>3. row \in Monsters /\ row # None /\ row.active /\ row.group = x
  <2>1. row \in Monsters /\ row.active /\ row.group = x
    BY HostModesAssumption DEF HostModesAssumption, Monsters
  <2> QED BY <2>1, MonsterIs
<1>4. Mustered
  BY DEF MonstersKept
<1>5. actors' = [actors EXCEPT ![a] = row]
  BY <1>2
<1> HIDE DEF row
<1>6. /\ actors' \in [Actors -> Monsters \cup {None}] /\ actors'[a] = row
      /\ \A b \in Actors : b # a => actors'[b] = actors[b]
  BY <1>3, <1>4, <1>5, BooksAre DEF Mustered
<1>7. Active' = Active \cup {a} /\ \A g : Mob(g)' = IF g = x THEN Mob(g) \cup {a} ELSE Mob(g)
  <2>1. Active' = Active \cup {a}
    BY <1>3, <1>6 DEF Active
  <2>2. ASSUME NEW g
        PROVE  Mob(g)' = IF g = x THEN Mob(g) \cup {a} ELSE Mob(g)
    <3>1. Mob(g)' = {b \in Active \cup {a} : actors'[b].group = g}
      BY <2>1 DEF Mob
    <3>2. \A b \in Active : b # a /\ actors'[b] = actors[b]
      BY <1>1, <1>6 DEF Active
    <3> QED BY <1>3, <1>6, <3>1, <3>2 DEF Mob
  <2> QED BY <2>1, <2>2
<1>8. IsFiniteSet(Active') /\ Cardinality(Active') = Cardinality(Active) + 1
  BY <1>1, <1>4, <1>7, FS_AddElement DEF Mustered
<1>9. Cardinality(Active') = born' - gone'
  BY <1>1, <1>4, <1>8 DEF Mustered
<1>10. /\ spawned' \in [Templates \cup GroupIds -> Nat]
       /\ \A y \in Templates \cup GroupIds : spawned'[y] = IF y = x THEN spawned[y] + 1 ELSE spawned[y]
  BY <1>2, <1>4, BooksAre DEF Mustered
<1>11. Mustered'
  BY <1>1, <1>4, <1>6, <1>8, <1>9, <1>10 DEF Mustered
<1>12. ASSUME family = "assault" PROVE WavesCounted'
  <2>1. WavesCounted
    BY <1>12 DEF MonstersKept
  <2>2. x \in Templates
    BY <1>2, <1>12 DEF Assault
  <2>3. SpawnedNow' = SpawnedNow + 1
    <3>1. spawned \in [Templates \cup GroupIds -> Nat] /\ Templates \subseteq Templates \cup GroupIds
      BY <1>4 DEF Mustered
    <3>2. SumFunction([t \in Templates |-> [spawned EXCEPT ![x] = @ + 1][t]]) = SumFunction([t \in Templates |-> spawned[t]]) + 1
      BY <2>2, <3>1, SpawnedMore
    <3> QED BY <1>2, <3>2 DEF SpawnedNow
  <2>4. SpawnedNow \in Nat /\ Through(index) \in Nat
    BY <1>4, <2>1, SpawnedNowTyped, ThroughIs DEF WavesCounted
  <2>5. born' = SpawnedNow' + Through(index)
    BY <1>1, <2>1, <2>3, <2>4 DEF WavesCounted
  <2> QED BY <1>1, <2>1, <2>5 DEF WavesCounted
<1>13. ASSUME family = "foster" PROVE GroupsCounted'
  <2>1. GroupsCounted
    BY <1>13 DEF MonstersKept
  <2>2. Cardinality(Active) < GlobalLimit /\ Matching(point) = {x}
    BY <1>2, <1>13 DEF Assault
  <2>3. x \in GroupIds /\ spawned[x] < Len(Groups[x].spawns)
    <3>1. x \in triggered /\ spawned[x] < Len(Groups[x].spawns)
      BY <2>2 DEF Matching
    <3> QED BY <1>4, <3>1 DEF Mustered
  <2>4. Cardinality(Active') <= GlobalLimit
    BY <1>4, <1>8, <2>2, BooksAre, HostModesAssumption DEF HostModesAssumption
  <2>5. ASSUME NEW g \in GroupIds
        PROVE  /\ spawned'[g] = retired[g] + fled[g] + Cardinality(Mob(g)')
               /\ spawned'[g] <= Len(Groups[g].spawns)
    <3>1. /\ spawned[g] = retired[g] + fled[g] + Cardinality(Mob(g)) /\ spawned[g] <= Len(Groups[g].spawns)
          /\ spawned[g] \in Nat /\ retired[g] \in Nat /\ fled[g] \in Nat
          /\ IsFiniteSet(Mob(g)) /\ Cardinality(Mob(g)) \in Nat /\ a \notin Mob(g)
      BY <1>1, <1>4, <2>1, BooksAre DEF GroupsCounted
    <3>2. Cardinality(Mob(g) \cup {a}) = Cardinality(Mob(g)) + 1
      BY <3>1, FS_AddElement
    <3>3. Len(Groups[g].spawns) \in Nat
      BY HostModesAssumption DEF HostModesAssumption, GroupIds
    <3>4. CASE g = x
      <4>1. spawned'[g] = spawned[g] + 1 /\ Mob(g)' = Mob(g) \cup {a}
        BY <1>7, <1>10, <3>4
      <4> QED BY <2>3, <3>1, <3>2, <3>3, <3>4, <4>1
    <3>5. CASE g # x
      <4>1. spawned'[g] = spawned[g] /\ Mob(g)' = Mob(g)
        BY <1>7, <1>10, <3>5
      <4> QED BY <3>1, <4>1
    <3> QED BY <3>4, <3>5
  <2> QED BY <1>1, <2>4, <2>5 DEF GroupsCounted
<1> QED BY <1>1, <1>11, <1>12, <1>13 DEF MonstersKept

\* A monster less, dead or alive.
LEMMA DespawnKeepsBooks ==
    ASSUME MonstersKept, UNCHANGED <<family, stage, outcome>>, NEW a \in Actors, NEW seq \in Nat, Despawn(a, seq)
    PROVE  MonstersKept'
<1> DEFINE no == FALSE
           G == actors[a].group
<1>1. /\ Fought /\ a \in Active /\ outcome # TRUE /\ gone' = gone + 1
      /\ UNCHANGED <<index, finished, spawned, triggered, born>>
  BY DEF Despawn, Fought, MonstersKept
<1>2. actors' = [actors EXCEPT ![a].active = no, ![a].sequence = seq] /\ no \in BOOLEAN /\ ~no
  BY DEF Despawn
<1>3. /\ Assault => UNCHANGED <<retired, fled>>
      /\ ~Assault => /\ retired' = [retired EXCEPT ![G] = @ + Retires(a)]
                     /\ fled' = [fled EXCEPT ![G] = IF actors[a].hp = 0 THEN @ ELSE @ + 1]
  BY DEF Despawn
<1>4. Mustered
  BY DEF MonstersKept
<1>5. actors[a] \in Monsters /\ actors \in [Actors -> Monsters \cup {None}]
  BY <1>1, <1>4, BooksAre DEF Mustered
<1> HIDE DEF no, G
<1>6. /\ actors' \in [Actors -> Monsters \cup {None}] /\ actors'[a].active = no
      /\ \A b \in Actors : b # a => actors'[b] = actors[b]
  <2>1. actors' = Without(actors, a, seq, no) /\ no \in BOOLEAN
    BY <1>2 DEF Without
  <2>2. actors' \in [Actors -> Monsters \cup {None}]
    BY <2>1, <1>5, Dismissed
  <2>3. actors'[a].active = no
    BY <2>1, <1>5, Dismissed
  <2>4. \A b \in Actors : b # a => actors'[b] = actors[b]
    BY <2>1, <1>5, Dismissed
  <2> QED BY <2>2, <2>3, <2>4
<1>7. Active' = Active \ {a} /\ \A g : Mob(g)' = Mob(g) \ {a}
  <2>1. Active' = Active \ {a}
    BY <1>2, <1>6 DEF Active
  <2>2. ASSUME NEW g
        PROVE  Mob(g)' = Mob(g) \ {a}
    <3>1. Mob(g)' = {b \in Active \ {a} : actors'[b].group = g}
      BY <2>1 DEF Mob
    <3>2. \A b \in Active \ {a} : actors'[b] = actors[b]
      BY <1>6 DEF Active
    <3> QED BY <3>1, <3>2 DEF Mob
  <2> QED BY <2>1, <2>2
<1>8. IsFiniteSet(Active') /\ Cardinality(Active') = Cardinality(Active) - 1
  BY <1>1, <1>4, <1>7, FS_RemoveElement DEF Mustered
<1>9. Cardinality(Active') = born' - gone' /\ gone' \in Nat
  BY <1>1, <1>4, <1>8 DEF Mustered
<1>10. /\ retired' \in [GroupIds -> Nat] /\ fled' \in [GroupIds -> Nat]
       /\ ~Assault => \A g \in GroupIds : retired'[g] + fled'[g] = retired[g] + fled[g] + IF g = G THEN 1 ELSE 0
  <2>1. CASE Assault
    BY <1>3, <1>4, <2>1 DEF Mustered
  <2>2. CASE ~Assault
    <3>1. Retires(a) \in Nat
      BY DEF Retires
    <3>2. retired' \in [GroupIds -> Nat] /\ fled' \in [GroupIds -> Nat]
      BY <1>3, <1>4, <2>2, <3>1 DEF Mustered
    <3>3. ASSUME NEW g \in GroupIds
          PROVE  retired'[g] + fled'[g] = retired[g] + fled[g] + IF g = G THEN 1 ELSE 0
      BY <1>3, <1>4, <2>2, BooksAre DEF Retires
    <3> QED BY <3>2, <3>3
  <2> QED BY <2>1, <2>2
<1>11. Mustered'
  BY <1>1, <1>4, <1>6, <1>8, <1>9, <1>10 DEF Mustered
<1>12. ASSUME family = "assault" PROVE WavesCounted'
  <2>1. WavesCounted
    BY <1>12 DEF MonstersKept
  <2>2. SpawnedNow' = SpawnedNow
    BY <1>1 DEF SpawnedNow
  <2>3. Through(index) \in Nat
    BY <2>1, ThroughIs DEF WavesCounted
  <2>4. gone' >= Through(index)
    BY <1>1, <1>4, <2>1, <2>3 DEF WavesCounted, Mustered
  <2> QED BY <1>1, <2>1, <2>2, <2>4 DEF WavesCounted
<1>13. ASSUME family = "foster" PROVE GroupsCounted'
  <2>1. GroupsCounted /\ ~Assault
    BY <1>13 DEF MonstersKept, Assault
  <2>2. Cardinality(Active') <= GlobalLimit
    BY <1>4, <1>8, <2>1, BooksAre, HostModesAssumption DEF HostModesAssumption, GroupsCounted
  <2>3. ASSUME NEW g \in GroupIds
        PROVE  spawned[g] = retired'[g] + fled'[g] + Cardinality(Mob(g)')
    <3>1. /\ spawned[g] = retired[g] + fled[g] + Cardinality(Mob(g))
          /\ spawned[g] \in Nat /\ retired[g] \in Nat /\ fled[g] \in Nat
          /\ IsFiniteSet(Mob(g)) /\ Cardinality(Mob(g)) \in Nat
          /\ retired'[g] \in Nat /\ fled'[g] \in Nat
      BY <1>4, <1>10, <2>1, BooksAre DEF GroupsCounted
    <3>2. CASE g = G
      <4>1. a \in Mob(g)
        BY <1>1, <3>2 DEF Mob, G
      <4>2. Cardinality(Mob(g)') = Cardinality(Mob(g)) - 1
        BY <1>7, <3>1, <4>1, FS_RemoveElement
      <4>3. retired'[g] + fled'[g] = retired[g] + fled[g] + 1
        BY <1>10, <2>1, <3>2
      <4> QED BY <3>1, <4>2, <4>3
    <3>3. CASE g # G
      <4>1. Mob(g)' = Mob(g)
        BY <1>7, <3>3 DEF Mob, G
      <4>2. retired'[g] + fled'[g] = retired[g] + fled[g]
        BY <1>10, <2>1, <3>1, <3>3
      <4> QED BY <3>1, <4>1, <4>2
    <3> QED BY <3>2, <3>3
  <2> QED BY <1>1, <2>1, <2>2, <2>3 DEF GroupsCounted
<1> QED BY <1>1, <1>11, <1>12, <1>13 DEF MonstersKept
-----------------------------------------------------------------------------
\* Only the life of a monster changes.
LEMMA ActKeepsBooks ==
    ASSUME MonstersKept, UNCHANGED <<family, stage, outcome>>, NEW a \in Actors, NEW seq \in Nat,
           NEW amount \in Int, Act(a, seq, amount)
    PROVE  MonstersKept'
<1>1. /\ a \in Active
      /\ UNCHANGED <<index, finished, spawned, retired, triggered, born, gone, fled>>
  BY DEF Act
<1>2. Mustered /\ actors[a] \in Monsters /\ actors \in [Actors -> Monsters \cup {None}]
  BY <1>1, BooksAre DEF MonstersKept, Mustered
<1>3. /\ actors' \in [Actors -> Monsters \cup {None}] /\ actors'[a] \in Monsters
      /\ actors'[a].active = actors[a].active /\ actors'[a].group = actors[a].group
      /\ \A b \in Actors : b # a => actors'[b] = actors[b]
  <2>1. CASE Assault
    BY <1>2, <2>1 DEF Act
  <2>2. CASE ~Assault
    <3> DEFINE hp == Min({InitialHp, Max({0, actors[a].hp - amount})})
    <3>1. hp \in Int
      <4> DEFINE kept == Max({0, actors[a].hp - amount})
      <4>1. actors[a].hp \in Int /\ InitialHp \in Int
        BY <1>2, HostModesAssumption DEF HostModesAssumption, Monsters
      <4>2. actors[a].hp - amount \in Int
        BY <4>1
      <4>3. kept \in Int
        BY <4>2 DEF Max
      <4> HIDE DEF kept
      <4>4. Min({InitialHp, kept}) \in Int
        BY <4>1, <4>3 DEF Min
      <4> QED BY <4>4 DEF kept
    <3>2. actors' = [actors EXCEPT ![a].hp = hp]
      BY <2>2 DEF Act
    <3> HIDE DEF hp
    <3>3. actors'[a] = [actors[a] EXCEPT !.hp = hp] /\ \A b \in Actors : b # a => actors'[b] = actors[b]
      BY <1>2, <3>2
    <3>4. /\ actors'[a] \in Monsters
          /\ actors'[a].active = actors[a].active /\ actors'[a].group = actors[a].group
      BY <1>2, <3>1, <3>3, Damaged
    <3>5. actors' = [b \in Actors |-> actors'[b]]
      BY <1>2, <3>2
    <3>6. actors' \in [Actors -> Monsters \cup {None}]
      BY <1>2, <3>3, <3>4, <3>5
    <3> QED BY <3>3, <3>4, <3>6
  <2> QED BY <2>1, <2>2
<1>4. Active' = Active
  <2>1. actors'[a] # None
    BY <1>3, MonsterIs
  <2> QED BY <1>1, <1>3, <2>1 DEF Active
<1>5. SpawnedNow' = SpawnedNow /\ \A g : Mob(g)' = Mob(g)
  <2>1. \A b \in Active : actors'[b].group = actors[b].group
    BY <1>3 DEF Active
  <2> QED BY <1>1, <1>4, <2>1 DEF SpawnedNow, Mob
<1>6. Mustered'
  BY <1>1, <1>2, <1>3, <1>4 DEF Mustered
<1>7. family = "assault" => WavesCounted'
  BY <1>1, <1>5 DEF MonstersKept, WavesCounted
<1>8. family = "foster" => GroupsCounted'
  BY <1>1, <1>4, <1>5 DEF MonstersKept, GroupsCounted
<1> QED BY <1>6, <1>7, <1>8 DEF MonstersKept

\* No monster changes.
LEMMA CourseKeepsBooks ==
    ASSUME MonstersKept, UNCHANGED <<family, stage, outcome>>,
           (\E g \in GroupIds : Trigger(g)) \/ (\E b, seq, open : Block(b, seq, open)) \/ Finish
    PROVE  MonstersKept'
<1>1. /\ UNCHANGED <<actors, spawned, retired, index, born, gone, fled>>
      /\ triggered' \subseteq triggered \cup GroupIds
      /\ finished' = finished \/ ~Assault
  BY DEF Trigger, Block, Finish
<1>2. Active' = Active /\ SpawnedNow' = SpawnedNow /\ \A g : Mob(g)' = Mob(g)
  BY <1>1 DEF Active, SpawnedNow, Mob
<1>3. Mustered'
  BY <1>1, <1>2 DEF MonstersKept, Mustered
<1>4. family = "assault" => WavesCounted'
  BY <1>1, <1>2 DEF MonstersKept, WavesCounted, Assault
<1>5. family = "foster" => GroupsCounted'
  BY <1>1, <1>2 DEF MonstersKept, GroupsCounted
<1> QED BY <1>3, <1>4, <1>5 DEF MonstersKept

\* A wave is over: its quota came, and nobody is left.
LEMMA WaveKeepsBooks ==
    ASSUME MonstersKept, UNCHANGED <<family, stage, outcome>>, ReportWave
    PROVE  MonstersKept'
<1>1. /\ family = "assault" /\ Spawned /\ Active = {} /\ outcome # TRUE
      /\ index' = index + 1 /\ finished' = (index' = Len(Waves))
      /\ spawned' = [x \in DOMAIN spawned |-> 0]
      /\ UNCHANGED <<actors, retired, triggered, born, gone, fled>>
  BY DEF ReportWave, Defeated, Assault, Fought, MonstersKept
<1>2. Mustered /\ WavesCounted
  BY <1>1 DEF MonstersKept
<1>3. Active' = Active
  BY <1>1 DEF Active
<1>4. spawned' = [x \in Templates \cup GroupIds |-> 0]
  BY <1>1, <1>2, BooksAre
<1>5. Mustered'
  BY <1>1, <1>2, <1>3, <1>4 DEF Mustered
<1>6. Quota(index + 1) = SpawnedNow
  <2> DEFINE f == [t \in Templates |-> spawned[t]]
  <2>1. f \in [Templates -> Nat] /\ \A t \in Templates : f[t] = Waves[index + 1][t]
    BY <1>1, <1>2 DEF Mustered, Spawned
  <2> HIDE DEF f
  <2>2. Quota(index + 1) = SumFunction(f)
    BY <2>1, SpawnedNowIs
  <2> QED BY <2>2 DEF SpawnedNow, f
<1>7. SpawnedNow' = 0
  <2> DEFINE f == [t \in Templates |-> spawned'[t]]
  <2>1. f \in [Templates -> Nat] /\ \A t \in Templates : f[t] = 0
    BY <1>4
  <2> HIDE DEF f
  <2>2. SumFunction(f) = 0
    BY <2>1, SpawnedNowIs
  <2> QED BY <2>2 DEF SpawnedNow, f
<1>8. SpawnedNow \in Nat /\ index \in Nat /\ Through(index) \in Nat
  BY <1>2, SpawnedNowTyped, ThroughIs DEF WavesCounted
<1>9. \A w \in 1 .. index' : Quota(w) \in Nat
  <2>1. \A w \in 1 .. index + 1 : w \in 1 .. index \/ w = index + 1
    BY <1>8
  <2> QED BY <1>1, <1>2, <1>6, <1>8, <2>1 DEF WavesCounted
<1>10. Through(index') = Through(index) + SpawnedNow
  BY <1>1, <1>6, <1>8, <1>9, ThroughGrows
<1>11. born = gone
  <2>1. Cardinality(Active) = 0
    BY <1>1, FS_EmptySet
  <2> QED BY <1>2, <2>1 DEF Mustered
<1>12. born' = SpawnedNow' + Through(index') /\ gone' >= Through(index')
  <2>1. born = Through(index')
    BY <1>2, <1>8, <1>10 DEF WavesCounted
  <2>2. born \in Int /\ gone' = gone /\ born' = born
    BY <1>1, <1>2 DEF Mustered
  <2>3. Through(index') \in Int /\ Through(index') = 0 + Through(index')
    BY <2>1, <2>2
  <2>4. born' = SpawnedNow' + Through(index')
    BY <1>7, <2>1, <2>2, <2>3
  <2>5. gone' >= Through(index')
    <3>1. gone' = Through(index')
      BY <1>11, <2>1, <2>2
    <3> QED BY <2>3, <3>1
  <2> QED BY <2>4, <2>5
<1>13. finished' => index' = Len(Waves) /\ SpawnedNow' = 0
  BY <1>1, <1>7
<1>14. index' \in Nat
  BY <1>1, <1>8
<1>15. WavesCounted'
  BY <1>1, <1>9, <1>12, <1>13, <1>14 DEF WavesCounted
<1> QED BY <1>1, <1>5, <1>15 DEF MonstersKept

-----------------------------------------------------------------------------
LEMMA BooksOpen ==
    ASSUME BattleInit
    PROVE  MonstersKept
<1>1. /\ actors = [a \in Actors |-> None] /\ index = 0 /\ finished = FALSE
      /\ spawned = [x \in Templates \cup GroupIds |-> 0]
      /\ retired = [g \in GroupIds |-> 0] /\ fled = [g \in GroupIds |-> 0] /\ triggered = {}
      /\ outcome = None /\ born = 0 /\ gone = 0
  BY DEF BattleInit, HostInit
<1>2. outcome # TRUE
  BY <1>1, HostModesAssumption DEF HostModesAssumption
<1>3. Active = {} /\ \A g : Mob(g) = {}
  BY <1>1 DEF Active, Mob
<1>4. IsFiniteSet({}) /\ Cardinality({}) = 0
  BY FS_EmptySet
<1>5. Mustered
  BY <1>1, <1>3, <1>4 DEF Mustered
<1>6. SpawnedNow = 0
  <2> DEFINE f == [t \in Templates |-> spawned[t]]
  <2>1. f \in [Templates -> Nat] /\ \A t \in Templates : f[t] = 0
    BY <1>1
  <2> HIDE DEF f
  <2>2. SumFunction(f) = 0
    BY <2>1, SpawnedNowIs
  <2> QED BY <2>2 DEF SpawnedNow, f
<1>7. WavesCounted
  <2>1. 1 .. index = {} /\ index \in Nat /\ ~finished
    BY <1>1
  <2>2. Through(index) = 0
    BY <1>1, ThroughNone
  <2>3. born = SpawnedNow + Through(index) /\ gone >= Through(index)
    BY <1>1, <1>6, <2>2
  <2> QED BY <1>2, <2>1, <2>3 DEF WavesCounted
<1>8. GroupsCounted
  <2>1. \A g \in GroupIds : Len(Groups[g].spawns) \in Nat
    BY HostModesAssumption DEF HostModesAssumption, GroupIds
  <2>2. GlobalLimit \in Nat
    BY HostModesAssumption DEF HostModesAssumption
  <2>3. Cardinality(Active) <= GlobalLimit
    BY <1>3, <1>4, <2>2
  <2>4. ASSUME NEW g \in GroupIds
        PROVE  spawned[g] = retired[g] + fled[g] + Cardinality(Mob(g)) /\ spawned[g] <= Len(Groups[g].spawns)
    <3>1. spawned[g] = 0 /\ retired[g] = 0 /\ fled[g] = 0
      BY <1>1
    <3>2. Cardinality(Mob(g)) = 0
      BY <1>3, <1>4
    <3> QED BY <2>1, <3>1, <3>2
  <2> QED BY <1>2, <2>3, <2>4 DEF GroupsCounted
<1> QED BY <1>2, <1>5, <1>7, <1>8 DEF MonstersKept

\* Every monster is counted once: who is there came and did not go (pve.py and
\* foster.py on spawn and despawn), a wave is over with its quota and without
\* survivors, and a group is complete only when each of its monsters came and
\* died, whatever identities the Host uses again and whatever it repeats.
THEOREM MonstersAlwaysAccounted == BattleSpec => []MonstersAccounted
<1>1. MonstersKept /\ [BattleNext]_allVars => MonstersKept'
  <2> SUFFICES ASSUME MonstersKept, [BattleNext]_allVars PROVE MonstersKept'
    OBVIOUS
  <2>1. CASE NpcNext /\ UNCHANGED <<family, stage, outcome>>
    <3>1. Numbered \subseteq Nat /\ {1, -1} \subseteq Int
      BY DEF Numbered
    <3>2. CASE \E a \in Actors, seq \in Numbered : \E point \in Templates : Spawn(a, point, seq)
      BY <2>1, <3>1, <3>2, SpawnKeepsBooks
    <3>3. CASE \E a \in Actors, seq \in Numbered : Despawn(a, seq)
      BY <2>1, <3>1, <3>3, DespawnKeepsBooks
    <3>4. CASE \E a \in Actors, seq \in Numbered : \E amount \in {1, -1} : Act(a, seq, amount)
      BY <2>1, <3>1, <3>4, ActKeepsBooks
    <3>5. CASE (\E g \in GroupIds : Trigger(g)) \/ (\E b, seq, open : Block(b, seq, open)) \/ Finish
      BY <2>1, <3>5, CourseKeepsBooks
    <3>6. CASE ReportWave
      BY <2>1, <3>6, WaveKeepsBooks
    <3> QED BY <2>1, <3>2, <3>3, <3>4, <3>5, <3>6 DEF NpcNext
  <2>2. CASE UNCHANGED family /\ \E clear \in BOOLEAN : Result(clear)
    BY <2>2, ResultKeepsBooks
  <2>3. CASE /\ UNCHANGED family /\ UNCHANGED npcVars
             /\ UNCHANGED <<stage, outcome>> \/ (stage' # "battle" /\ UNCHANGED outcome)
    BY <2>3, BooksClosed
  <2>4. CASE UNCHANGED family /\ \E u \in Members : Acknowledge(u)
    <3>1. UNCHANGED npcVars /\ UNCHANGED outcome /\ stage' # "battle"
      BY <2>4 DEF Acknowledge
    <3> QED BY <2>3, <2>4, <3>1
  <2>5. CASE UNCHANGED family /\ SeriesNext
    <3>1. UNCHANGED npcVars /\ UNCHANGED outcome /\ (stage' = stage \/ stage' # "battle")
      BY <2>5 DEF SeriesNext, Interval, Continue, Finishing, Ready, Decided, SeriesResult, View, Return
    <3> QED BY <2>3, <2>5, <3>1
  <2>6. CASE UNCHANGED allVars \/ (UNCHANGED family /\ UNCHANGED hostVars)
    <3>1. UNCHANGED family
      BY <2>6 DEF allVars, vars
    <3>2. UNCHANGED npcVars /\ UNCHANGED <<stage, outcome>>
      BY <2>6 DEF allVars, hostVars
    <3> QED BY <2>3, <3>1, <3>2
  <2> QED BY <2>1, <2>2, <2>4, <2>5, <2>6 DEF BattleNext
<1>2. MonstersKept => MonstersAccounted
  <2> SUFFICES ASSUME MonstersKept PROVE MonstersAccounted
    OBVIOUS
  <2>1. \A g \in GroupIds : family = "foster" /\ GroupComplete(g) =>
                                spawned[g] = Len(Groups[g].spawns) /\ fled[g] = 0
    BY CompleteMeans DEF MonstersKept
  <2> QED BY <2>1 DEF MonstersKept, MonstersAccounted, Mustered, WavesCounted, GroupsCounted
<1> QED BY <1>1, <1>2, BooksOpen, PTL DEF BattleSpec

=============================================================================
