------------------------------ MODULE Economy ------------------------------
(***************************************************************************)
(* Shop, mailbox, upkeep and rewards together: what they do to the one     *)
(* store.  The desk is the part whose requests a behaviour contains; it    *)
(* is chosen at the start, since two parts touch the same rows of the      *)
(* store only through the operations of module Store.                      *)
(***************************************************************************)
EXTENDS Commerce, Upkeep, Rewards

CONSTANT Desks
ASSUME DesksAssumption ==
    /\ Desks \subseteq {"commerce", "leases", "repairs", "talismans", "potions", "quests", "titles", "training"}
    /\ Capacity >= 4    \* what the Keeper owns at first fits

VARIABLE desk

upkeepOnlyVars == <<renewalVars, upgradeVars, repairVars>>
rewardsOnlyVars == <<progressVars, questVars, titleVars>>
vars == <<desk, storeVars, commerceVars, gearVars, upkeepOnlyVars, rewardsOnlyVars>>

\* What the Keeper owns at first.
Kinds == CASE desk = "leases" -> {"weapon"}
           [] desk \in {"repairs", "talismans"} -> {"talisman", "material"}
           [] desk = "commerce" -> {"talisman", "potion"}
           [] desk = "potions" -> {"potion"}
           [] OTHER -> {}
First == FirstItems(Kinds)

Init ==
    /\ desk \in Desks
    /\ StoreInit([u \in Users |-> IF u = Keeper THEN First ELSE <<>>])
    /\ CommerceInit
    /\ GearInit(Kinds)
    /\ UpkeepInit(Kinds)
    /\ RewardsInit

Dress == \E i \in DOMAIN Mine :
             Unequip(i) \/ \E slot \in Slots(Mine[i].kind) : Equip(i, slot)
Game == Move \/ StartBattle \/ EndBattle

AtLeases == LeaseNext \/ Disconnect \/ (UNCHANGED upkeepOnlyVars /\ (Game \/ Dress))
\* Between quote and repair the talisman may be used, or put on.
Used == \E i \in DOMAIN talisman_pending : AnnounceUse(i, "active", 1, TRUE) \/ Confirm(i)
AtRepairs == RepairNext \/ Disconnect \/ (UNCHANGED upkeepOnlyVars /\ (Game \/ Dress \/ Used))
AtTalismans == Game \/ Dress \/ TalismanNext
AtPotions == Game \/ Dress \/ PotionNext
AtQuests == BattleNext \/ SettleNext \/ QuestNext \/ RulesNext
AtTitles == BattleNext \/ SettleNext \/ QuestNext \/ TitleNext
AtTraining == BattleNext \/ SettleNext \/ TrainingNext

Next ==
    /\ UNCHANGED desk
    /\ \/ desk = "commerce" /\ CommerceNext
          /\ UNCHANGED <<gearVars, upkeepOnlyVars, rewardsOnlyVars>>
       \/ desk = "leases" /\ AtLeases /\ UNCHANGED <<commerceVars, rewardsOnlyVars>>
       \/ desk = "repairs" /\ AtRepairs /\ UNCHANGED <<commerceVars, rewardsOnlyVars>>
       \/ desk = "talismans" /\ AtTalismans /\ UNCHANGED <<commerceVars, upkeepOnlyVars, rewardsOnlyVars>>
       \/ desk = "potions" /\ AtPotions /\ UNCHANGED <<commerceVars, upkeepOnlyVars, rewardsOnlyVars>>
       \/ desk = "quests" /\ AtQuests /\ UNCHANGED <<commerceVars, upkeepOnlyVars>>
       \/ desk = "titles" /\ AtTitles /\ UNCHANGED <<commerceVars, upkeepOnlyVars>>
       \/ desk = "training" /\ AtTraining /\ UNCHANGED <<commerceVars, upkeepOnlyVars>>

Spec == Init /\ [][Next]_vars

-----------------------------------------------------------------------------
Spent(u, currency) ==
    SpentInShop(u, currency) +
    CASE u = Keeper /\ currency = "ticket" -> SumFunction([r \in renewal_receipts |-> r.paid])
      [] u = Keeper /\ currency = "gold" -> upgrade_receipts
      [] OTHER -> 0

Earned(u, currency) ==
    IF u = Keeper /\ currency = "gold" THEN SumFunction([r \in rewarded |-> r.gold]) ELSE 0

\* The wallets are what the receipts say: whatever the order of purchases,
\* gifts, renewals, upgrades and rewards, and however often one is sent
\* again, nothing is charged, or paid out, without its receipt, or twice
\* (Store.transaction; commerce.purchase, gift; renewal.execute; grant_locked).
BooksBalance ==
    \A u \in Users, c \in Currencies :
        wallet[u][c] >= 0 /\ wallet[u][c] = Purse + Earned(u, c) - Spent(u, c)

Granted ==
    {[uid |-> r.uid, instance |-> r.instance, item |-> Fresh("goods", r.key)] :
         r \in Bought \cup Unpacked}
    \cup {[uid |-> Keeper, instance |-> entitlements[t].instance,
           item |-> Fresh("title", t)] :
              t \in {s \in TitleLevels : entitlements[s] # None /\ entitlements[s].instance # None}}
    \cup {[uid |-> Keeper, instance |-> r.instance, item |-> Fresh("task", r.task)] :
              r \in rewarded}

\* The items beyond the first ones and the receipts of purchases, claimed
\* mails, chosen titles and rewards are one to one; no number is given twice
\* and nobody has more than the capacity (allocate_instance, insert_locked).
ItemsAccounted ==
    LET new == {x \in Users \X (1 .. allocated) :
                    x[2] \in DOMAIN inventory[x[1]] /\ ~(x[1] = Keeper /\ x[2] \in DOMAIN First)}
    IN  /\ {[uid |-> x[1], instance |-> x[2], item |-> inventory[x[1]][x[2]]] : x \in new} = Granted
        /\ \A g, h \in Granted : g.instance = h.instance => g = h
        /\ Cardinality(shop_receipts) +
           Cardinality({m \in DOMAIN mailbox : mailbox[m].claimed # None}) +
           Cardinality(rewarded) <= Cardinality(Granted)
        /\ \A u \in Users : Cardinality(DOMAIN inventory[u]) <= Capacity

Quantity(items, kind) ==
    SumFunction([i \in {j \in DOMAIN items : items[j].kind = kind} |-> items[i].quantity])

\* What was used up was counted once: potions by their events, of which each
\* was announced; talismans by their billings and repairs; materials by the
\* repairs.  What the others were told of was paid in that battle and told
\* once, however the two messages of a use are repeated, reordered or late
\* (consume_once, confirm_use, execute of talisman_repair).
StockBalances ==
    /\ desk = "potions" =>
           /\ Quantity(Mine, "potion") = Quantity(First, "potion") - Cardinality(consumption_events)
           /\ Cardinality(consumption_events) <= intents
    /\ desk \in {"repairs", "talismans"} =>
           /\ Quantity(Mine, "material") =
                  Quantity(First, "material") - SumFunction([r \in talisman_repairs |-> r.needed])
           /\ Quantity(Mine, "talisman") =
                  Quantity(First, "talisman") + SumFunction([r \in talisman_repairs |-> r.filled])
                                              - SumFunction([r \in talisman_uses |-> UseCost(r.kind)])
           /\ \A r \in ToSet(replicas) :
                  [r EXCEPT !.seq = IF r.kind = "passive" THEN 0 ELSE @] \in talisman_uses
           /\ IsInjective(replicas)

\* A deletion that the client sent behind a claim of the mail it has open
\* never loses an attachment that the claim did not deliver (mailbox.py:125).
AttachmentKept ==
    [][\A u \in Users, m \in DOMAIN mailbox :
           following[u] = [mail |-> m, open |-> TRUE] => ~Lost(m)]_vars

\* The comment at mailbox.py:125 says it of every failed claim.
FailedClaimKeeps ==
    [][\A u \in Users, m \in DOMAIN mailbox :
           following[u] # None /\ following[u].mail = m => ~Lost(m)]_vars

\* From the moment the Keeper is ready until the match has ended, what it
\* wears changes by being used and in no other way: no request of the lobby
\* that is still on its way puts on, takes off, upgrades or removes anything
\* (phase and ready checks of equipment, renewal, upgrade and repair).
Set == stage \in {"ready", "battle"}
MatchGearFixed ==
    [][Set /\ Set' =>
           \A i \in DOMAIN Mine : Worn(i) =>
               /\ i \in DOMAIN inventory'[Keeper]
               /\ inventory'[Keeper][i] =
                      [Mine[i] EXCEPT !.quantity = inventory'[Keeper][i].quantity]
               /\ inventory'[Keeper][i].quantity <= Mine[i].quantity]_vars

\* Each task is rewarded once, at the terms of the day it was accepted, and
\* for battles that were settled since then: won ones if it is daily.
TasksEarned ==
    \A r \in rewarded :
        LET a == accepted[r.task]
            since == {b \in DOMAIN settled \ a.settled : Daily(r.task) => settled[b] = "win"}
        IN  /\ r.gold = a.rule
            /\ Cardinality(since) >= Tasks[r.task].needed
            /\ \A s \in rewarded : s.task = r.task => s = r

\* The score is what battles and training earned, each battle once and no
\* hour of training twice (award_match_points, claim_training).
PointsEarned ==
    LET paid(start) == (start + 1) .. (start + training_claims[start].hours)
    IN  /\ points = Min({MaxPoints,
                         SumFunction([b \in DOMAIN settled |-> Rate(settled[b])]) +
                         SumFunction([t \in DOMAIN training_claims |-> training_claims[t].points])})
        /\ \A t \in DOMAIN training_claims :
               /\ paid(t) \subseteq 1 .. hours
               /\ training_claims[t].points <= training_claims[t].hours * PointsPerHour
               /\ \A s \in DOMAIN training_claims : s # t => paid(s) \cap paid(t) = {}
               /\ training # None => paid(t) \cap (training + 1 .. hours) = {}

\* Nothing is earned but by playing, and nothing twice.  At most one title
\* waits for a choice, and it is the one the profile shows, so that it can be
\* announced and chosen: a task that would raise the title over it waits
\* (issue_locked, announce, quest refresh).
RewardsEarned ==
    /\ TasksEarned /\ PointsEarned
    /\ \A t \in Pending : title = t
    /\ \A t \in TitleLevels : entitlements[t] # None /\ entitlements[t].instance # None =>
           entitlements[t].chosen \in entitlements[t].offered
=============================================================================
