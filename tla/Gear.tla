-------------------------------- MODULE Gear --------------------------------
(***************************************************************************)
(* What one user, the Keeper, wears and uses up: equipment                 *)
(* (features/inventory.py, handlers/equipment.py), consumables             *)
(* (handlers/consumption.py) and talismans (talisman.py) in battle.        *)
(*                                                                         *)
(* stage is where the Keeper's game is; the room hub moves it.  In "probe" *)
(* the Keeper owns a room whose members are being probed: not ready, but   *)
(* no longer free.                                                         *)
(***************************************************************************)
EXTENDS Store

CONSTANTS
    Keeper,
    PassiveCost,    \* of a talisman, once in a battle
    ActiveCost,     \* of a talisman, for each use
    MaxBattles,     \* bound: battles of the Keeper
    MaxUses         \* bound: sequence numbers of uses in a battle

ASSUME GearAssumption ==
    /\ Keeper \in Users
    /\ PassiveCost \in Nat /\ ActiveCost \in Nat
    /\ MaxBattles \in Nat /\ MaxUses \in Nat

VARIABLES
    stage,               \* "lobby", "room", "ready", "probe" or "battle"
    serial,              \* the battle, counted from 1
    consume_intents,     \* instances announced with 4200
    consumption_events,  \* receipts of consumables
    talisman_pending,    \* instance -> use announced with 8291 or 8292, or None
    talisman_sequences,  \* <<instance, kind>> -> last use acknowledged in this battle
    talisman_uses,       \* receipts of talismans
    intents,             \* history: how often 4200 announced a consumable
    replicas             \* history: uses of talismans the server told the others

talismanVars == <<talisman_pending, talisman_sequences, talisman_uses, replicas>>
potionVars == <<consume_intents, consumption_events, intents>>
gearVars == <<stage, serial, talismanVars, potionVars>>

\* What one owns at first; the materials lie in two stacks.
Item(kind, quantity) == [kind |-> kind, slot |-> 0, quantity |-> quantity, level |-> 0, score |-> 2]
FirstItems(kinds) ==
    LET all == <<"weapon", "talisman", "talisman", "material", "material", "potion">>
        owned == {i \in DOMAIN all : all[i] \in kinds}
    IN  [i \in owned |-> Item(all[i], IF all[i] = "material" THEN 1 ELSE 2)]

Uses == {"passive", "active"}
Fighting == stage = "battle"

GearInit(kinds) ==
    /\ stage = "lobby" /\ serial = 0
    /\ consume_intents = {} /\ consumption_events = {} /\ intents = 0
    /\ talisman_pending = [i \in DOMAIN FirstItems(kinds) |-> None]
    /\ talisman_sequences = [x \in (DOMAIN FirstItems(kinds)) \X Uses |-> 0]
    /\ talisman_uses = {} /\ replicas = <<>>

Mine == inventory[Keeper]
Owned(kind) == {i \in DOMAIN Mine : Mine[i].kind = kind}
Worn(i) == Mine[i].slot # 0

-----------------------------------------------------------------------------
(* Where the game is.  Starting a battle clears what the last one left.    *)

Cleared ==
    /\ talisman_pending' = [i \in DOMAIN talisman_pending |-> None]
    /\ talisman_sequences' = [x \in DOMAIN talisman_sequences |-> 0]

Move ==
    /\ \/ stage = "lobby" /\ stage' = "room"
       \/ stage \in {"room", "ready", "probe"} /\ stage' = "lobby"
       \/ stage = "room" /\ stage' \in {"ready", "probe"}
       \/ stage \in {"ready", "probe"} /\ stage' = "room"
    /\ UNCHANGED <<storeVars, serial, potionVars, talismanVars>>

StartBattle ==
    /\ stage \in {"ready", "probe"} /\ serial < MaxBattles
    /\ stage' = "battle" /\ serial' = serial + 1
    /\ consume_intents' = {} /\ Cleared
    /\ UNCHANGED <<storeVars, consumption_events, intents, talisman_uses, replicas>>

\* With a result everybody acknowledged, or because somebody left.
EndBattle ==
    /\ Fighting
    /\ \/ stage' = "room" /\ UNCHANGED consume_intents
       \/ stage' = "lobby" /\ consume_intents' = {}
    /\ Cleared
    /\ UNCHANGED <<storeVars, serial, consumption_events, intents, talisman_uses, replicas>>

-----------------------------------------------------------------------------
(* Equipment: phases LOBBY and ROOM, and not ready                         *)

Slots(kind) == CASE kind = "weapon" -> {8} [] kind = "talisman" -> {37}
                 [] kind = "potion" -> {27} [] OTHER -> {}

\* Mutant: what one has on can be changed at any time.
Anytime == stage # "lobby"
\* Equipment in the phases LOBBY and ROOM, and not ready.
MayDress == stage \in {"lobby", "room", "probe"}

\* 2080: what was in the slot is taken off.
Equip(i, slot) ==
    /\ MayDress /\ slot \in Slots(Mine[i].kind)
    /\ inventory' = [inventory EXCEPT ![Keeper] =
           [j \in DOMAIN Mine |-> IF j = i THEN [Mine[j] EXCEPT !.slot = slot]
                                  ELSE IF Mine[j].slot = slot THEN [Mine[j] EXCEPT !.slot = 0]
                                  ELSE Mine[j]]]
    /\ UNCHANGED <<wallet, allocated, gearVars>>

\* 2300
Unequip(i) ==
    /\ MayDress /\ Worn(i)
    /\ Replace(Keeper, i, [Mine[i] EXCEPT !.slot = 0])
    /\ UNCHANGED <<wallet, allocated, gearVars>>

-----------------------------------------------------------------------------
(* Consumables: 4200 announces a use, 8289 is the use                      *)

Announce(i) ==
    /\ Fighting /\ i \in Owned("potion") /\ Worn(i) /\ Mine[i].quantity > 0
    /\ i \notin consume_intents /\ intents < MaxUses
    /\ consume_intents' = consume_intents \cup {i}
    /\ intents' = intents + 1
    /\ UNCHANGED <<storeVars, stage, serial, consumption_events, talismanVars>>

\* Mutant: what was not announced is used.
Unannounced(i, seq) == ~\E r \in consumption_events : r.battle = serial /\ r.seq = seq
Due(i, seq) == /\ i \in consume_intents
               /\ ~\E r \in consumption_events : r.battle = serial /\ r.seq = seq

\* consume_once: one use, one announcement, one less; what has a receipt only
\* takes the announcement away.
Consume(i, seq) ==
    /\ Fighting /\ i \in Owned("potion") /\ Worn(i)
    /\ \/ /\ Due(i, seq) /\ Mine[i].quantity > 0
          /\ Replace(Keeper, i, [Mine[i] EXCEPT !.quantity = @ - 1])
          /\ consumption_events' = consumption_events \cup
                 {[battle |-> serial, seq |-> seq, instance |-> i]}
       \/ /\ \E r \in consumption_events : r.battle = serial /\ r.seq = seq /\ r.instance = i
          /\ UNCHANGED <<inventory, consumption_events>>
    /\ consume_intents' = consume_intents \ {i}
    /\ UNCHANGED <<wallet, allocated, stage, serial, intents, talismanVars>>

-----------------------------------------------------------------------------
(* Talismans: 8291 or 8292 announces a use, 4201 confirms it               *)

UseCost(kind) == IF kind = "passive" THEN PassiveCost ELSE ActiveCost

\* seen: another member has had the event from the Keeper itself.  A second
\* copy of the announcement adds what it was seen by; another one is dropped.
AnnounceUse(i, kind, seq, seen) ==
    /\ Fighting /\ i \in Owned("talisman") /\ Worn(i)
    /\ \/ /\ talisman_pending[i] = None
          /\ talisman_pending' = [talisman_pending EXCEPT ![i] =
                 [kind |-> kind, seq |-> seq, cost |-> UseCost(kind), seen |-> seen]]
       \/ /\ talisman_pending[i] # None /\ seen
          /\ talisman_pending[i].kind = kind /\ talisman_pending[i].seq = seq
          /\ talisman_pending' = [talisman_pending EXCEPT ![i].seen = TRUE]
    /\ UNCHANGED <<storeVars, stage, serial, potionVars, talisman_sequences, talisman_uses, replicas>>

\* Five seconds passed.
ForgetUse(i) ==
    /\ talisman_pending[i] # None
    /\ talisman_pending' = [talisman_pending EXCEPT ![i] = None]
    /\ UNCHANGED <<storeVars, stage, serial, potionVars, talisman_sequences, talisman_uses, replicas>>

\* A passive talisman is paid once in a battle, an active one for each use.
Billing(i, kind, seq) == [battle |-> serial, instance |-> i, kind |-> kind,
                          seq |-> IF kind = "passive" THEN 0 ELSE seq]

\* Mutant: what another talisman paid counts as paid.
PaidBefore(i, p) == \E r \in talisman_uses : r.instance = i /\ r.kind = p.kind
Paid(i, p) == Billing(i, p.kind, p.seq) \in talisman_uses

News(i, p) == p.seq > talisman_sequences[<<i, p.kind>>]

Confirm(i) ==
    LET p == talisman_pending[i]
        free == Paid(i, p)
    IN  /\ Fighting /\ i \in DOMAIN talisman_pending /\ p # None
        /\ talisman_pending' = [talisman_pending EXCEPT ![i] = None]
        /\ IF /\ p.seq >= talisman_sequences[<<i, p.kind>>]
              /\ free \/ Mine[i].quantity >= p.cost
           THEN /\ IF free THEN UNCHANGED <<inventory, talisman_uses>>
                   ELSE /\ Replace(Keeper, i, [Mine[i] EXCEPT !.quantity = @ - p.cost])
                        /\ talisman_uses' = talisman_uses \cup {Billing(i, p.kind, p.seq)}
                /\ IF News(i, p)
                   THEN /\ talisman_sequences' = [talisman_sequences EXCEPT ![<<i, p.kind>>] = p.seq]
                        /\ replicas' = IF (~free \/ p.kind = "passive") /\ ~p.seen
                                       THEN Append(replicas, [battle |-> serial, instance |-> i,
                                                              kind |-> p.kind, seq |-> p.seq])
                                       ELSE replicas
                   ELSE UNCHANGED <<talisman_sequences, replicas>>
           ELSE UNCHANGED <<inventory, talisman_uses, talisman_sequences, replicas>>
        /\ UNCHANGED <<wallet, allocated, stage, serial, potionVars>>

PotionNext ==
    \E i \in DOMAIN Mine : Announce(i) \/ \E seq \in 1 .. MaxUses : Consume(i, seq)
TalismanNext ==
    \E i \in DOMAIN talisman_pending :
        \/ Confirm(i) \/ ForgetUse(i)
        \/ \E seq \in 1 .. MaxUses, kind \in Uses, seen \in BOOLEAN : AnnounceUse(i, kind, seq, seen)
=============================================================================
