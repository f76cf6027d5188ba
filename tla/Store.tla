------------------------------- MODULE Store -------------------------------
(***************************************************************************)
(* The tables that every part of the economy writes: wallets and the       *)
(* inventories (server/kk_local/store.py, storage/).                       *)
(*                                                                         *)
(* Store.transaction begins, runs its body and commits; an error rolls all *)
(* of it back.  A handler runs to its end before the loop serves another   *)
(* message.  A request is therefore one action whose guard has every       *)
(* reason to refuse: what is refused changes no table.                     *)
(***************************************************************************)
EXTENDS Integers, Sequences, SequencesExt

CONSTANTS
    Users,
    None,
    Capacity,      \* items of one user (8000)
    Purse,         \* what each wallet holds at first
    MaxPurse       \* the largest balance (2^31 - 1)

ASSUME StoreAssumption ==
    /\ Capacity \in Nat /\ Purse \in Nat /\ MaxPurse \in Nat /\ Purse <= MaxPurse
    /\ None \notin Nat

VARIABLES
    wallet,        \* user -> balance in gold and in tickets
    inventory,     \* user -> instance -> the item
    allocated      \* the last instance number given out, to anybody

storeVars == <<wallet, inventory, allocated>>

Currencies == {"gold", "ticket"}

\* items: what each user owns at first.
StoreInit(items) ==
    /\ wallet = [u \in Users |-> [c \in Currencies |-> Purse]]
    /\ inventory = items
    /\ allocated = Max({0} \cup UNION {DOMAIN items[u] : u \in Users})

\* Mutant: a balance may be overdrawn.
Overdrawn(u, currency, cost) ==
    wallet' = [wallet EXCEPT ![u][currency] = IF @ >= cost THEN @ - cost ELSE 0]
\* debit_locked: refused without cover.
Debit(u, currency, cost) ==
    /\ wallet[u][currency] >= cost
    /\ wallet' = [wallet EXCEPT ![u][currency] = @ - cost]

Credit(u, currency, amount) ==
    /\ wallet[u][currency] + amount <= MaxPurse
    /\ wallet' = [wallet EXCEPT ![u][currency] = @ + amount]

Full(u) == Cardinality(DOMAIN inventory[u]) >= Capacity

\* allocate_instance: one number space for all users, no number given twice.
NextInstance == allocated + 1

\* What one is given is not worn.
Fresh(kind, key) == [kind |-> kind, key |-> key, slot |-> 0]

\* What one owns with the new items, each under its number.
Adding(items, new) ==
    [i \in DOMAIN items \cup DOMAIN new |-> IF i \in DOMAIN new THEN new[i] ELSE items[i]]

Insert(u, item) ==
    /\ ~Full(u)
    /\ inventory' = [inventory EXCEPT ![u] = Adding(@, [i \in {NextInstance} |-> item])]
    /\ allocated' = NextInstance

Replace(u, instance, item) == inventory' = [inventory EXCEPT ![u][instance] = item]

=============================================================================
