------------------------------ MODULE Commerce ------------------------------
(***************************************************************************)
(* Shop and mailbox (shop.py, mailbox.py, storage/commerce.py, mail.py).   *)
(*                                                                         *)
(* The record of a catalogue key is its version; a version costs as many   *)
(* coins as its number.  An operation is what the caller names a request;  *)
(* repeating it returns the present balance and item and changes nothing.  *)
(* A mail is its place in the table; it is read with 1320, its attachment  *)
(* claimed with 2171, and it is deleted with 1340.  The client sends 1340  *)
(* right behind 2171.                                                      *)
(***************************************************************************)
EXTENDS Store

CONSTANTS
    Goods,         \* catalogue keys
    TicketGoods,   \* those that are sold for tickets
    MailLimit,     \* mails of one user that are not deleted (2048)
    Deliveries,    \* delivery identities of the administrator
    MaxVersion,    \* bound: versions of a catalogue record
    MaxOrders,     \* bound: operations of one user
    MaxMails,      \* bound: mails ever delivered
    Buyers,        \* bound: the users who buy and give
    Addressees     \* bound: the users whom the administrator sends mail

ASSUME CommerceAssumption ==
    /\ TicketGoods \subseteq Goods /\ MailLimit \in Nat /\ None \notin Goods
    /\ None \notin [mail : Nat, open : BOOLEAN]
    /\ MaxVersion \in Nat /\ MaxOrders \in Nat /\ MaxMails \in Nat
    /\ Buyers \subseteq Users /\ Addressees \subseteq Users

VARIABLES
    catalog,         \* key -> version of its record
    offers,          \* key -> the record the offer was enabled with, or None
    shop_receipts,   \* purchases
    gift_receipts,   \* gifts
    mailbox,         \* all mails ever delivered
    mail_preview,        \* user -> mail this connection opened last, or None
    mail_failed_delete,  \* user -> mail whose next deletion is suppressed, or None
    following        \* user -> the deletion the client has sent behind a claim, or None

mailVars == <<mailbox, mail_preview, mail_failed_delete, following>>
commerceVars == <<catalog, offers, shop_receipts, gift_receipts, mailVars>>

CommerceInit ==
    /\ catalog = [g \in Goods |-> 1]
    /\ offers = [g \in Goods |-> 1]
    /\ shop_receipts = {} /\ gift_receipts = {}
    /\ mailbox = <<>>
    /\ mail_preview = [u \in Users |-> None]
    /\ mail_failed_delete = [u \in Users |-> None]
    /\ following = [u \in Users |-> None]

Currency(g) == IF g \in TicketGoods THEN "ticket" ELSE "gold"
Cost(version) == version
Orders == 1 .. MaxOrders

-----------------------------------------------------------------------------
(* The shop                                                                *)

\* The administrator changes a record; an offer must then be enabled again.
Reprice(g) ==
    /\ catalog[g] < MaxVersion
    /\ catalog' = [catalog EXCEPT ![g] = @ + 1]
    /\ UNCHANGED <<storeVars, offers, shop_receipts, gift_receipts, mailVars>>
EnableOffer(g) ==
    /\ offers[g] # catalog[g]
    /\ offers' = [offers EXCEPT ![g] = catalog[g]]
    /\ UNCHANGED <<storeVars, catalog, shop_receipts, gift_receipts, mailVars>>

\* offer_locked, and the price in the request: it is the current one.
Current(g, quote) == offers[g] = catalog[g] /\ quote = Cost(offers[g])

Ordered(receipts, u, op) == \E r \in receipts : r.uid = u /\ r.op = op

\* A client sends nothing between a claim and the deletion behind it.
Idle(u) == following[u] = None

Purchase(u, op, g, quote) ==
    /\ Idle(u) /\ ~Ordered(shop_receipts, u, op)
    /\ Current(g, quote)
    /\ Debit(u, Currency(g), Cost(offers[g]))
    /\ Insert(u, Fresh("goods", g))
    /\ shop_receipts' = shop_receipts \cup
           {[uid |-> u, op |-> op, key |-> g, quote |-> quote, instance |-> NextInstance]}
    /\ UNCHANGED <<catalog, offers, gift_receipts, mailVars>>

-----------------------------------------------------------------------------
(* The mailbox                                                             *)

Mails(u) == {m \in DOMAIN mailbox : mailbox[m].to = u}

PriorDelivery(u, delivery) == \E m \in Mails(u) : mailbox[m].delivery = delivery

\* deliver_locked
Post(u, delivery, item) ==
    /\ ~PriorDelivery(u, delivery)
    /\ Cardinality({m \in Mails(u) : ~mailbox[m].deleted}) < MailLimit
    /\ Len(mailbox) < MaxMails
    /\ mailbox' = Append(mailbox, [to |-> u, delivery |-> delivery, item |-> item,
                                   claimed |-> None, deleted |-> FALSE])

\* Debit, mail and receipt in one transaction.
Gift(u, op, g, quote, to) ==
    /\ Idle(u) /\ ~Ordered(gift_receipts, u, op)
    /\ to # u /\ g \in TicketGoods
    /\ Current(g, quote)
    /\ Post(to, <<u, op>>, g)
    /\ Debit(u, "ticket", Cost(offers[g]))
    /\ gift_receipts' = gift_receipts \cup
           {[uid |-> u, op |-> op, key |-> g, quote |-> quote, mail |-> Len(mailbox) + 1]}
    /\ UNCHANGED <<inventory, allocated, catalog, offers, shop_receipts,
                   mail_preview, mail_failed_delete, following>>

\* The administrator's delivery, with an item or without.
Deliver(u, delivery, item) ==
    /\ Post(u, delivery, item)
    /\ UNCHANGED <<storeVars, catalog, offers, shop_receipts, gift_receipts,
                   mail_preview, mail_failed_delete, following>>

\* 1320: any number; what cannot be read leaves nothing open.
Preview(u, m) ==
    /\ Idle(u)
    /\ mail_preview' = [mail_preview EXCEPT ![u] = IF mailbox[m].deleted THEN None ELSE m]
    /\ mail_failed_delete' = [mail_failed_delete EXCEPT ![u] = None]
    /\ UNCHANGED <<storeVars, catalog, offers, shop_receipts, gift_receipts, mailbox, following>>

\* Mutant: a claim does not say that it was made.
Unmarked(m, instance) == UNCHANGED mailbox
MarkClaimed(m, instance) == mailbox' = [mailbox EXCEPT ![m].claimed = instance]

\* 2171, for the mail that is open; a second claim returns the item of the
\* first.  The mail whose deletion would lose the attachment is the open one.
Claimable(u, m) ==
    /\ mail_preview[u] = m /\ mailbox[m].item # None
    /\ mailbox[m].claimed # None \/ (~mailbox[m].deleted /\ ~Full(u))

\* Mutant: a failed claim does not protect the mail.
Unprotected(u) == mail_failed_delete[u]
FailedDelete(u) == IF mail_preview[u] # None THEN mail_preview[u] ELSE mail_failed_delete[u]

Claim(u, m) ==
    /\ Idle(u)
    /\ following' = [following EXCEPT ![u] = [mail |-> m, open |-> mail_preview[u] = m]]
    /\ \/ /\ Claimable(u, m)
          /\ mail_failed_delete' = [mail_failed_delete EXCEPT ![u] = None]
          /\ IF mailbox[m].claimed # None THEN UNCHANGED <<inventory, allocated, mailbox>>
             ELSE Insert(u, Fresh("goods", mailbox[m].item)) /\ MarkClaimed(m, NextInstance)
       \/ /\ ~Claimable(u, m)
          /\ mail_failed_delete' = [mail_failed_delete EXCEPT ![u] = FailedDelete(u)]
          /\ UNCHANGED <<inventory, allocated, mailbox>>
    /\ UNCHANGED <<wallet, catalog, offers, shop_receipts, gift_receipts, mail_preview>>

\* 1340, behind a claim or by itself; one after a failed claim is suppressed.
Delete(u, m) ==
    /\ ~Idle(u) => following[u].mail = m
    /\ IF mail_failed_delete[u] = m
       THEN /\ mail_failed_delete' = [mail_failed_delete EXCEPT ![u] = None]
            /\ UNCHANGED mailbox
       ELSE /\ mailbox' = [mailbox EXCEPT ![m].deleted = TRUE]
            /\ UNCHANGED mail_failed_delete
    /\ following' = [following EXCEPT ![u] = None]
    /\ UNCHANGED <<storeVars, catalog, offers, shop_receipts, gift_receipts, mail_preview>>

\* Engine.disconnect: a new connection has nothing open.
CloseMail(u) ==
    /\ mail_preview[u] # None \/ mail_failed_delete[u] # None \/ ~Idle(u)
    /\ mail_preview' = [mail_preview EXCEPT ![u] = None]
    /\ mail_failed_delete' = [mail_failed_delete EXCEPT ![u] = None]
    /\ following' = [following EXCEPT ![u] = None]
    /\ UNCHANGED <<storeVars, catalog, offers, shop_receipts, gift_receipts, mailbox>>

CommerceNext ==
    \/ \E g \in Goods : Reprice(g) \/ EnableOffer(g)
    \/ \E u \in Buyers, op \in Orders, g \in Goods : \E quote \in 1 .. catalog[g] :
           \/ Purchase(u, op, g, quote)
           \/ \E to \in Users : Gift(u, op, g, quote, to)
    \/ \E u \in Addressees, delivery \in Deliveries, item \in Goods \cup {None} :
           Deliver(u, delivery, item)
    \/ \E u \in Users :
           \/ \E m \in Mails(u) : Preview(u, m) \/ Delete(u, m)
           \/ \E m \in Mails(u) : mailbox[m].item # None /\ Claim(u, m)
           \/ CloseMail(u)

-----------------------------------------------------------------------------
\* What u has paid in a currency.
SpentInShop(u, currency) ==
    LET paid(receipts) ==
            SumFunction([r \in {x \in receipts : x.uid = u /\ Currency(x.key) = currency} |->
                             Cost(r.quote)])
    IN  paid(shop_receipts) + paid(gift_receipts)

\* Who was given which item, by a purchase or with a mail.
Bought == {[uid |-> r.uid, instance |-> r.instance, key |-> r.key] : r \in shop_receipts}
Unpacked == {[uid |-> mailbox[m].to, instance |-> mailbox[m].claimed, key |-> mailbox[m].item] :
                 m \in {n \in DOMAIN mailbox : mailbox[n].claimed # None}}

\* m is deleted with what it holds.
Lost(m) == /\ ~mailbox[m].deleted /\ mailbox'[m].deleted
           /\ mailbox[m].item # None /\ mailbox[m].claimed = None
=============================================================================
