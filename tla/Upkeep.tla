------------------------------- MODULE Upkeep -------------------------------
(***************************************************************************)
(* What the Keeper pays for: the renewal of leased weapons (renewal.py),   *)
(* their upgrade (weapon_upgrade.py) and the repair of talismans           *)
(* (talisman_repair.py).                                                   *)
(*                                                                         *)
(* Each begins with a message of terms: the offers of an item, the table   *)
(* of upgrades, the rule of a repair.  The server keeps what it told this  *)
(* connection, and compares it with the tables when the Keeper accepts;    *)
(* the administrator may have changed them in between.                     *)
(***************************************************************************)
EXTENDS Gear

CONSTANTS
    Levels,        \* rows of the upgrade table
    Days,          \* days an offer of a renewal may give
    MaxDays,       \* of a lease, counted from now (3650)
    Capacities,    \* what a repair may fill a talisman to
    MaxNow,        \* bound: the clock, in days
    MaxRevision,   \* bound: changes of each table
    MaxQuotes      \* bound: quotes of each kind

ASSUME UpkeepAssumption ==
    /\ Levels \in Nat /\ Days \subseteq Nat \ {0} /\ MaxDays \in Nat
    /\ Capacities \subseteq Nat /\ MaxNow \in Nat /\ MaxRevision \in Nat /\ MaxQuotes \in Nat

VARIABLES
    now,                   \* wall_clock, in days
    leases,                \* weapon -> when its lease ends
    renewal_offer,         \* the record and terms that are enabled, or None
    renewal_record,        \* the record in the catalogue
    renewal_quote,         \* the quote of this connection, or None
    renewal_receipts,      \* executed renewals
    upgrade_settings,      \* revision, and whether attempts are enabled
    weapon_upgrade_offer,  \* the revision published to this connection, or None
    upgrade_receipts,      \* how many attempts there were
    repair_rule,           \* revision, material needed and capacity, or None
    talisman_repair_quote, \* the quote of this connection, or None
    talisman_repairs       \* executed repairs

renewalVars == <<now, leases, renewal_offer, renewal_record, renewal_quote, renewal_receipts>>
upgradeVars == <<upgrade_settings, weapon_upgrade_offer, upgrade_receipts>>
repairVars == <<repair_rule, talisman_repair_quote, talisman_repairs>>
upkeepVars == <<gearVars, renewalVars, upgradeVars, repairVars>>

UpkeepInit(kinds) ==
    /\ now = 1
    /\ leases = [i \in {j \in DOMAIN FirstItems(kinds) : FirstItems(kinds)[j].kind = "weapon"} |-> 2]
    /\ renewal_offer = None /\ renewal_record = 1 /\ renewal_quote = None
    /\ renewal_receipts = {}
    /\ upgrade_settings = [revision |-> 0, enabled |-> FALSE]
    /\ weapon_upgrade_offer = None /\ upgrade_receipts = 0
    /\ repair_rule = None /\ talisman_repair_quote = None /\ talisman_repairs = {}

Tick ==
    /\ now < MaxNow /\ now' = now + 1
    /\ UNCHANGED <<storeVars, gearVars, leases, renewal_offer, renewal_record, renewal_quote,
                   renewal_receipts, upgradeVars, repairVars>>

\* Neither ready, nor probed, nor in a match.
Free == stage \in {"lobby", "room"}

\* Engine.disconnect: the next connection has been told nothing.
Disconnect ==
    /\ renewal_quote # None \/ weapon_upgrade_offer # None \/ talisman_repair_quote # None
    /\ stage' = "lobby" /\ consume_intents' = {}
    /\ Cleared
    /\ renewal_quote' = None /\ weapon_upgrade_offer' = None /\ talisman_repair_quote' = None
    /\ UNCHANGED <<storeVars, serial, consumption_events, intents, talisman_uses, replicas,
                   now, leases, renewal_offer, renewal_record, renewal_receipts,
                   upgrade_settings, upgrade_receipts, repair_rule, talisman_repairs>>

-----------------------------------------------------------------------------
(* Renewal.  A record costs as many tickets as its number.                 *)

RecordRenewal ==
    /\ renewal_record < MaxRevision /\ renewal_record' = renewal_record + 1
    /\ UNCHANGED <<storeVars, gearVars, now, leases, renewal_offer, renewal_quote,
                   renewal_receipts, upgradeVars, repairVars>>

Revision(offer) == IF offer = None THEN 0 ELSE offer.revision

\* enable_offer of renewal.py
EnableRenewal(days) ==
    /\ Revision(renewal_offer) < MaxRevision
    /\ renewal_offer' = [record |-> renewal_record, days |-> days,
                         revision |-> Revision(renewal_offer) + 1]
    /\ UNCHANGED <<storeVars, gearVars, now, leases, renewal_record, renewal_quote,
                   renewal_receipts, upgradeVars, repairVars>>

Quotes(receipts) == Cardinality(receipts) + 1

\* 1500: a fresh operation; the choices are the offers whose record is current.
QuoteRenewal ==
    /\ stage # "battle"
    /\ Quotes(renewal_receipts) <= MaxQuotes
    /\ renewal_quote' = [operation |-> Quotes(renewal_receipts),
                         offer |-> IF renewal_offer # None /\ renewal_offer.record = renewal_record
                                   THEN renewal_offer ELSE None]
    /\ UNCHANGED <<storeVars, gearVars, now, leases, renewal_offer, renewal_record,
                   renewal_receipts, upgradeVars, repairVars>>

\* Ten minutes passed.
ExpireRenewal ==
    /\ renewal_quote # None /\ renewal_quote' = None
    /\ UNCHANGED <<storeVars, gearVars, now, leases, renewal_offer, renewal_record,
                   renewal_receipts, upgradeVars, repairVars>>

Unchanged(offer) == offer # None /\ offer = renewal_offer /\ offer.record = renewal_record

\* Mutant: an operation is executed as often as it is sent.
Repeatable(operation) == TRUE
Executable(operation) == ~\E r \in renewal_receipts : r.operation = operation

Expired(i) == leases[i] <= now

Deadline(i, days) == Max({now, leases[i]}) + days

\* 1420
Renew(i) ==
    LET offer == renewal_quote.offer
    IN  /\ renewal_quote # None /\ Free
        /\ Unchanged(offer) /\ Executable(renewal_quote.operation)
        /\ ~(Expired(i) /\ Worn(i))
        /\ Deadline(i, offer.days) - now <= MaxDays
        /\ Debit(Keeper, "ticket", offer.record)
        /\ leases' = [leases EXCEPT ![i] = Deadline(i, offer.days)]
        /\ renewal_receipts' = renewal_receipts \cup
               {[operation |-> renewal_quote.operation, paid |-> offer.record]}
        /\ UNCHANGED <<inventory, allocated, gearVars, now, renewal_offer, renewal_record,
                       renewal_quote, upgradeVars, repairVars>>

-----------------------------------------------------------------------------
(* Upgrade.  Each attempt costs a point and a coin, and may fail.          *)

\* configure: a table may be disabled, not removed.
ConfigureUpgrades(enabled) ==
    /\ upgrade_settings.revision < MaxRevision
    /\ upgrade_settings' = [revision |-> upgrade_settings.revision + 1, enabled |-> enabled]
    /\ UNCHANGED <<storeVars, gearVars, renewalVars, weapon_upgrade_offer, upgrade_receipts, repairVars>>

\* 21410 and every login: the table is sent, with its revision kept.
Publish ==
    /\ stage # "battle" /\ upgrade_settings.revision > 0
    /\ weapon_upgrade_offer' = upgrade_settings.revision
    /\ UNCHANGED <<storeVars, gearVars, renewalVars, upgrade_settings, upgrade_receipts, repairVars>>

Published == upgrade_settings.enabled /\ weapon_upgrade_offer = upgrade_settings.revision

Afforded(i) == Mine[i].score >= 1 /\ wallet[Keeper].gold >= 1

\* 21412: score and coin are spent whether or not the attempt succeeds.
Attempt(i, success) ==
    /\ Free /\ Published
    /\ ~Expired(i)
    /\ Mine[i].level + 1 < Levels
    /\ Afforded(i)
    /\ wallet' = [wallet EXCEPT ![Keeper].gold = @ - 1]
    /\ Replace(Keeper, i, [Mine[i] EXCEPT !.level = IF success THEN @ + 1 ELSE @, !.score = @ - 1])
    /\ upgrade_receipts' = upgrade_receipts + 1
    /\ UNCHANGED <<allocated, gearVars, renewalVars, upgrade_settings, weapon_upgrade_offer, repairVars>>

-----------------------------------------------------------------------------
(* Repair.  Materials are taken from the unworn stacks, the first first.   *)

\* import_rules
ImportRules(needed, capacity) ==
    /\ Revision(repair_rule) < MaxRevision
    /\ repair_rule' = [revision |-> Revision(repair_rule) + 1, needed |-> needed, capacity |-> capacity]
    /\ UNCHANGED <<storeVars, gearVars, renewalVars, upgradeVars, talisman_repair_quote, talisman_repairs>>

\* 4202: what the talisman is now, and the rule.
QuoteRepair(i) ==
    /\ Free
    /\ Quotes(talisman_repairs) <= MaxQuotes
    /\ talisman_repair_quote' =
           IF repair_rule # None /\ Mine[i].quantity < repair_rule.capacity
           THEN [operation |-> Quotes(talisman_repairs), instance |-> i,
                 record |-> Mine[i], rule |-> repair_rule]
           ELSE None
    /\ UNCHANGED <<storeVars, gearVars, renewalVars, upgradeVars, repair_rule, talisman_repairs>>

ExpireRepair ==
    /\ talisman_repair_quote # None /\ talisman_repair_quote' = None
    /\ UNCHANGED <<storeVars, gearVars, renewalVars, upgradeVars, repair_rule, talisman_repairs>>

Materials == Owned("material")
\* What is taken of stack i, once the stacks before it are empty.
Taken(i, needed) ==
    LET before == SumFunction([j \in {k \in Materials : k < i} |-> Mine[j].quantity])
    IN  Max({0, Min({Mine[i].quantity, needed - before})})

\* Mutant: a talisman that was used or moved since is filled up as quoted.
AsConfigured(quote) == quote.rule = repair_rule
AsQuoted(quote) == quote.rule = repair_rule /\ Mine[quote.instance] = quote.record

Unrepaired(quote) == ~\E r \in talisman_repairs : r.operation = quote.operation

\* 4204; a stack that is used up is gone.
Repair ==
    LET quote == talisman_repair_quote
        needed == quote.rule.needed
        left == {i \in DOMAIN Mine : i \notin Materials \/ Taken(i, needed) < Mine[i].quantity}
    IN  /\ quote # None /\ Free
        /\ Unrepaired(quote) /\ AsQuoted(quote)
        /\ Mine[quote.instance].quantity < quote.rule.capacity
        /\ SumFunction([j \in Materials |-> Mine[j].quantity]) >= needed
        /\ inventory' = [inventory EXCEPT ![Keeper] =
               [i \in left |-> IF i \in Materials THEN [Mine[i] EXCEPT !.quantity = @ - Taken(i, needed)]
                               ELSE IF i = quote.instance
                                    THEN [Mine[i] EXCEPT !.quantity = quote.rule.capacity]
                               ELSE Mine[i]]]
        /\ talisman_repairs' = talisman_repairs \cup
               {[operation |-> quote.operation, needed |-> needed,
                 filled |-> quote.rule.capacity - quote.record.quantity]}
        /\ UNCHANGED <<wallet, allocated, gearVars, renewalVars, upgradeVars, repair_rule,
                       talisman_repair_quote>>

LeaseNext ==
    \/ RecordRenewal \/ QuoteRenewal \/ ExpireRenewal \/ Tick \/ Publish
    \/ \E days \in Days : EnableRenewal(days)
    \/ \E enabled \in BOOLEAN : ConfigureUpgrades(enabled)
    \/ \E i \in Owned("weapon") :
           Renew(i) \/ \E success \in BOOLEAN : Attempt(i, success)

RepairNext ==
    \/ ExpireRepair \/ Repair
    \/ \E needed \in 1 .. 2, capacity \in Capacities : ImportRules(needed, capacity)
    \/ \E i \in Owned("talisman") : QuoteRepair(i)
=============================================================================
