--------------------------- MODULE EconomyProofs ---------------------------
(***************************************************************************)
(* Proofs about the economy, for any number of users, items, mails and     *)
(* battles.  An attachment is not lost behind the client's back; what the  *)
(* Keeper wears in a match only wears out; every item and every coin has   *)
(* its receipt, every reward was earned, and what was used up was counted  *)
(* once.                                                                   *)
(*                                                                         *)
(* Attachments: Protected, a deletion that follows the claim of the open   *)
(* mail is either suppressed or has nothing to lose.  Gear: Stocked, what  *)
(* can be worn is counted in pieces; Promised, what waits to be confirmed  *)
(* is a use of a talisman that is there; Quoted, a quote fills a talisman; *)
(* and Shopping, nobody shops in a match.  Items: Typed, the tables are    *)
(* what they look like; Accounted, items and grants are one to one; and    *)
(* Titled, at most one title waits for a choice.  Books: Balanced.         *)
(* Rewards: Worked, Trained and Scored.  Stocks: StockKept.  The sums in   *)
(* these are reasoned about with the lemmas of SumLemmas.                  *)
(***************************************************************************)
EXTENDS Economy, SumLemmas, TLAPS

Letters == [to : Users, delivery : Deliveries \cup (Users \X Orders), item : Goods \cup {None},
            claimed : Nat \cup {None}, deleted : BOOLEAN]
Claims == [mail : Nat, open : BOOLEAN]

\* The mailbox is a table of letters; what a connection remembers of it are
\* numbers of mails.
Mailed ==
    /\ mailbox \in Seq(Letters)
    /\ following \in [Users -> Claims \cup {None}]
    /\ mail_failed_delete \in [Users -> Nat \cup {None}]
    /\ mail_preview \in [Users -> Nat \cup {None}]
    /\ desk = "commerce" => allocated \in Nat

\* The mail that the client deletes next, behind a claim of the open mail, is
\* that user's, and its deletion is suppressed unless there is nothing to lose.
Kept(u, m) ==
    /\ m \in DOMAIN mailbox /\ mailbox[m].to = u
    /\ \/ mail_failed_delete[u] = m
       \/ mailbox[m].deleted \/ mailbox[m].claimed # None \/ mailbox[m].item = None
Protected ==
    \A u \in Users, m \in Nat : following[u] = [mail |-> m, open |-> TRUE] => Kept(u, m)

\* What AttachmentKept says of a step.
NoneLost ==
    \A u \in Users, m \in DOMAIN mailbox :
        following[u] = [mail |-> m, open |-> TRUE] => ~Lost(m)

\* A claim is not the absence of one.
LEMMA ClaimIs ==
    ASSUME NEW n \in Nat
    PROVE  [mail |-> n, open |-> TRUE] # None
<1>1. [mail |-> n, open |-> TRUE] \in [mail : Nat, open : BOOLEAN]
  OBVIOUS
<1>2. None \notin [mail : Nat, open : BOOLEAN]
  BY CommerceAssumption DEF CommerceAssumption
<1> QED BY <1>1, <1>2

\* A step that leaves the mails as they are, but for what u has opened.
LEMMA MailboxSame ==
    ASSUME Mailed, Protected, UNCHANGED <<mailbox, following, mail_failed_delete, allocated, desk>>,
           mail_preview' \in [Users -> Nat \cup {None}]
    PROVE  Mailed' /\ Protected' /\ NoneLost
<1>1. Mailed'
  BY DEF Mailed
<1>2. Protected'
  BY DEF Protected, Kept
<1>3. NoneLost
  BY DEF NoneLost, Lost
<1> QED BY <1>1, <1>2, <1>3

\* A further mail.
LEMMA PostKeeps ==
    ASSUME Mailed, Protected, NEW u \in Users, NEW d \in Deliveries \cup (Users \X Orders),
           NEW item \in Goods \cup {None}, Post(u, d, item),
           UNCHANGED <<following, mail_failed_delete, mail_preview, allocated, desk>>
    PROVE  Mailed' /\ Protected' /\ NoneLost
<1> DEFINE letter == [to |-> u, delivery |-> d, item |-> item, claimed |-> None, deleted |-> FALSE]
<1>1. mailbox' = Append(mailbox, letter) /\ letter \in Letters /\ mailbox \in Seq(Letters)
  BY DEF Post, Letters, Mailed
<1> HIDE DEF letter
<1>2. mailbox' \in Seq(Letters)
  BY <1>1
<1>3. \A m \in DOMAIN mailbox : m \in DOMAIN mailbox' /\ mailbox'[m] = mailbox[m]
  BY <1>1
<1>4. Mailed'
  BY <1>2 DEF Mailed
<1>5. Protected'
  BY <1>3 DEF Protected, Kept
<1>6. NoneLost
  BY <1>3 DEF NoneLost, Lost
<1> QED BY <1>4, <1>5, <1>6

\* The claim of a mail: it succeeds, or protects the mail that is open.
LEMMA ClaimKeeps ==
    ASSUME Mailed, Protected, NEW u \in Users, NEW m \in Mails(u), Claim(u, m), desk = "commerce", UNCHANGED desk
    PROVE  Mailed' /\ Protected' /\ NoneLost
<1> USE CommerceAssumption, StoreAssumption DEF StoreAssumption, CommerceAssumption
<1>1. m \in DOMAIN mailbox /\ mailbox[m].to = u /\ m \in Nat /\ mailbox \in Seq(Letters) /\ allocated \in Nat
  BY DEF Mails, Mailed
<1>2. /\ following' = [following EXCEPT ![u] = [mail |-> m, open |-> mail_preview[u] = m]]
      /\ UNCHANGED mail_preview
      /\ following[u] = None
  BY DEF Claim, Idle
<1>3. following' \in [Users -> Claims \cup {None}]
  BY <1>1, <1>2 DEF Mailed, Claims
<1>4. CASE ~Claimable(u, m)
  <2>1. /\ UNCHANGED <<mailbox, allocated>>
        /\ mail_failed_delete' = [mail_failed_delete EXCEPT ![u] = FailedDelete(u)]
    BY <1>4 DEF Claim
  <2>2. mail_failed_delete' \in [Users -> Nat \cup {None}]
    BY <2>1 DEF FailedDelete, Mailed
  <2>3. Mailed'
    BY <1>2, <1>3, <2>1, <2>2 DEF Mailed
  <2>4. ASSUME NEW v \in Users, NEW n \in Nat, following'[v] = [mail |-> n, open |-> TRUE] PROVE Kept(v, n)'
    <3>1. CASE v = u
      <4>1. n = m /\ mail_preview[u] = m
        BY <1>2, <2>4, <3>1 DEF Mailed
      <4>2. mail_failed_delete'[u] = m
        BY <1>1, <2>1, <4>1 DEF FailedDelete, Mailed
      <4> QED BY <1>1, <2>1, <3>1, <4>1, <4>2 DEF Kept
    <3>2. CASE v # u
      BY <1>2, <2>1, <2>4, <3>2 DEF Protected, Kept, Mailed
    <3> QED BY <3>1, <3>2
  <2>5. NoneLost
    BY <2>1 DEF NoneLost, Lost
  <2> QED BY <2>3, <2>4, <2>5 DEF Protected
<1>5. CASE Claimable(u, m)
  <2>1. /\ mail_failed_delete' = [mail_failed_delete EXCEPT ![u] = None]
        /\ allocated' \in Nat
        /\ \/ mailbox[m].claimed # None /\ UNCHANGED mailbox
           \/ mailbox' = [mailbox EXCEPT ![m].claimed = allocated + 1]
    BY <1>1, <1>5 DEF Claim, Insert, MarkClaimed, NextInstance
  <2>2. /\ mailbox' \in Seq(Letters) /\ DOMAIN mailbox' = DOMAIN mailbox
        /\ mailbox'[m].claimed # None
        /\ \A n \in DOMAIN mailbox : /\ mailbox'[n].to = mailbox[n].to /\ mailbox'[n].item = mailbox[n].item
                                     /\ mailbox'[n].deleted = mailbox[n].deleted
                                     /\ mailbox[n].claimed # None => mailbox'[n].claimed # None
    <3>1. CASE UNCHANGED mailbox /\ mailbox[m].claimed # None
      BY <1>1, <3>1
    <3>2. CASE mailbox' = [mailbox EXCEPT ![m].claimed = allocated + 1]
      <4>1. /\ \A n \in DOMAIN mailbox : mailbox[n] \in Letters
            /\ allocated + 1 \in Nat /\ allocated + 1 # None
        BY <1>1
      <4>2. [mailbox[m] EXCEPT !.claimed = allocated + 1] \in Letters
        BY <1>1, <4>1 DEF Letters
      <4>3. mailbox' \in Seq(Letters)
        BY <1>1, <3>2, <4>2
      <4> QED BY <1>1, <3>2, <4>1, <4>3 DEF Letters
    <3> QED BY <2>1, <3>1, <3>2
  <2>3. Mailed'
    BY <1>2, <1>3, <2>1, <2>2 DEF Mailed
  <2>4. ASSUME NEW v \in Users, NEW n \in Nat, following'[v] = [mail |-> n, open |-> TRUE] PROVE Kept(v, n)'
    <3>1. CASE v = u
      <4>1. n = m
        BY <1>2, <2>4, <3>1 DEF Mailed
      <4> QED BY <1>1, <2>2, <3>1, <4>1 DEF Kept
    <3>2. CASE v # u
      <4>1. Kept(v, n) /\ mail_failed_delete'[v] = mail_failed_delete[v]
        BY <1>2, <2>1, <2>4, <3>2 DEF Protected, Mailed
      <4> QED BY <2>2, <4>1 DEF Kept
    <3> QED BY <3>1, <3>2
  <2>5. NoneLost
    BY <1>1, <2>2 DEF NoneLost, Lost
  <2> QED BY <2>3, <2>4, <2>5 DEF Protected
<1> QED BY <1>4, <1>5

\* A deletion: suppressed, or of a mail that the claim before it emptied, or
\* one that no claim came before.
LEMMA DeleteKeeps ==
    ASSUME Mailed, Protected, NEW u \in Users, NEW m \in Mails(u), Delete(u, m), UNCHANGED desk
    PROVE  Mailed' /\ Protected' /\ NoneLost
<1> USE CommerceAssumption DEF CommerceAssumption
<1>1. m \in DOMAIN mailbox /\ mailbox[m].to = u /\ m \in Nat /\ mailbox \in Seq(Letters)
  BY DEF Mails, Mailed
<1>2. /\ following' = [following EXCEPT ![u] = None]
      /\ UNCHANGED <<mail_preview, allocated>>
      /\ \A n \in Nat : following[u] = [mail |-> n, open |-> TRUE] => n = m
  <2>1. \A n \in Nat : [mail |-> n, open |-> TRUE] # None
    BY ClaimIs
  <2> QED BY <2>1 DEF Delete, Idle, storeVars
<1>3. /\ \/ mail_failed_delete[u] = m /\ UNCHANGED mailbox
         \/ mail_failed_delete[u] # m /\ mailbox' = [mailbox EXCEPT ![m].deleted = TRUE]
      /\ mail_failed_delete' \in [Users -> Nat \cup {None}]
      /\ \A v \in Users \ {u} : mail_failed_delete'[v] = mail_failed_delete[v]
  BY DEF Delete, Mailed
<1>4. /\ mailbox' \in Seq(Letters) /\ DOMAIN mailbox' = DOMAIN mailbox
      /\ \A n \in DOMAIN mailbox : /\ mailbox'[n].to = mailbox[n].to /\ mailbox'[n].item = mailbox[n].item
                                   /\ mailbox'[n].claimed = mailbox[n].claimed
                                   /\ mailbox[n].deleted => mailbox'[n].deleted
                                   /\ n # m => mailbox'[n] = mailbox[n]
  <2>1. CASE UNCHANGED mailbox
    BY <1>1, <2>1
  <2>2. CASE mailbox' = [mailbox EXCEPT ![m].deleted = TRUE]
    <3>1. \A n \in DOMAIN mailbox : mailbox[n] \in Letters
      BY <1>1
    <3>2. [mailbox[m] EXCEPT !.deleted = TRUE] \in Letters
      BY <1>1, <3>1 DEF Letters
    <3>3. mailbox' \in Seq(Letters)
      BY <1>1, <2>2, <3>2
    <3> QED BY <1>1, <2>2, <3>1, <3>3 DEF Letters
  <2> QED BY <1>3, <2>1, <2>2
<1>5. Mailed'
  BY <1>2, <1>3, <1>4 DEF Mailed
<1>6. ASSUME NEW v \in Users, NEW n \in Nat, following'[v] = [mail |-> n, open |-> TRUE] PROVE Kept(v, n)'
  <2>1. v # u
    <3>1. [mail |-> n, open |-> TRUE] # None
      BY ClaimIs
    <3> QED BY <1>2, <1>6, <3>1 DEF Mailed
  <2>2. Kept(v, n) /\ mail_failed_delete'[v] = mail_failed_delete[v]
    BY <1>2, <1>3, <1>6, <2>1 DEF Protected, Mailed
  <2> QED BY <1>4, <2>2 DEF Kept
<1>7. NoneLost
  <2> SUFFICES ASSUME NEW v \in Users, NEW n \in DOMAIN mailbox, following[v] = [mail |-> n, open |-> TRUE], Lost(n)
               PROVE  FALSE
    BY DEF NoneLost
  <2>1. n \in Nat /\ Kept(v, n)
    BY <1>1 DEF Protected
  <2>2. n = m
    BY <1>4 DEF Lost
  <2>3. v = u
    BY <1>1, <2>1, <2>2 DEF Kept
  <2>4. mail_failed_delete[u] = m
    BY <2>1, <2>2, <2>3 DEF Kept, Lost
  <2>5. UNCHANGED mailbox
    BY <1>3, <2>4
  <2> QED BY <2>5 DEF Lost
<1> QED BY <1>5, <1>6, <1>7 DEF Protected

LEMMA MailStep ==
    ASSUME Mailed, Protected, desk = "commerce", UNCHANGED desk, CommerceNext
    PROVE  Mailed' /\ Protected' /\ NoneLost
<1> USE CommerceAssumption DEF CommerceAssumption
<1>1. ASSUME NEW g \in Goods, Reprice(g) \/ EnableOffer(g) PROVE Mailed' /\ Protected' /\ NoneLost
  <2>1. UNCHANGED <<mailbox, following, mail_failed_delete, allocated, desk, mail_preview>>
    BY <1>1 DEF Reprice, EnableOffer, storeVars, mailVars
  <2> QED BY <2>1, MailboxSame DEF Mailed
<1>2. ASSUME NEW u \in Buyers, NEW op \in Orders, NEW g \in Goods, NEW quote, Purchase(u, op, g, quote)
      PROVE  Mailed' /\ Protected' /\ NoneLost
  <2>1. UNCHANGED <<mailbox, following, mail_failed_delete, mail_preview>> /\ allocated' = allocated + 1
    BY <1>2 DEF Purchase, Insert, NextInstance, mailVars
  <2> QED BY <2>1 DEF Mailed, Protected, Kept, NoneLost, Lost
<1>3. ASSUME NEW u \in Buyers, NEW op \in Orders, NEW g \in Goods, NEW quote, NEW to \in Users,
             Gift(u, op, g, quote, to)
      PROVE  Mailed' /\ Protected' /\ NoneLost
  <2>1. <<u, op>> \in Users \X Orders
    OBVIOUS
  <2> QED BY <1>3, <2>1, PostKeeps DEF Gift
<1>4. ASSUME NEW u \in Addressees, NEW d \in Deliveries, NEW item \in Goods \cup {None}, Deliver(u, d, item)
      PROVE  Mailed' /\ Protected' /\ NoneLost
  BY <1>4, PostKeeps DEF Deliver, storeVars
<1>5. ASSUME NEW u \in Users, NEW m \in Mails(u), Preview(u, m)
      PROVE  Mailed' /\ Protected' /\ NoneLost
  <2>1. m \in Nat /\ following[u] = None
    BY <1>5 DEF Mails, Mailed, Preview, Idle
  <2>2. /\ UNCHANGED <<mailbox, following, allocated>>
        /\ mail_preview' \in [Users -> Nat \cup {None}]
        /\ mail_failed_delete' \in [Users -> Nat \cup {None}]
        /\ \A v \in Users \ {u} : mail_failed_delete'[v] = mail_failed_delete[v]
    BY <1>5, <2>1 DEF Preview, Mailed, storeVars
  <2>3. Mailed'
    BY <2>2 DEF Mailed
  <2>4. ASSUME NEW v \in Users, NEW n \in Nat, following'[v] = [mail |-> n, open |-> TRUE] PROVE Kept(v, n)'
    <3>1. [mail |-> n, open |-> TRUE] # None
      BY ClaimIs
    <3> QED BY <2>1, <2>2, <2>4, <3>1 DEF Protected, Kept
  <2> QED BY <2>2, <2>3, <2>4 DEF Protected, NoneLost, Lost
<1>6. ASSUME NEW u \in Users, CloseMail(u)
      PROVE  Mailed' /\ Protected' /\ NoneLost
  <2>2. /\ UNCHANGED <<mailbox, allocated>>
        /\ following' = [following EXCEPT ![u] = None]
        /\ mail_preview' \in [Users -> Nat \cup {None}]
        /\ mail_failed_delete' \in [Users -> Nat \cup {None}]
        /\ \A v \in Users \ {u} : mail_failed_delete'[v] = mail_failed_delete[v]
    BY <1>6 DEF CloseMail, Mailed, storeVars
  <2>3. Mailed'
    BY <2>2 DEF Mailed
  <2>4. ASSUME NEW v \in Users, NEW n \in Nat, following'[v] = [mail |-> n, open |-> TRUE] PROVE Kept(v, n)'
    <3>1. [mail |-> n, open |-> TRUE] # None
      BY ClaimIs
    <3>2. v # u /\ following[v] = following'[v]
      BY <2>2, <2>4, <3>1 DEF Mailed
    <3> QED BY <2>2, <2>4, <3>2 DEF Protected, Kept
  <2> QED BY <2>2, <2>3, <2>4 DEF Protected, NoneLost, Lost
<1>7. ASSUME NEW u \in Users, NEW m \in Mails(u), Delete(u, m) \/ Claim(u, m)
      PROVE  Mailed' /\ Protected' /\ NoneLost
  BY <1>7, DeleteKeeps, ClaimKeeps
<1> QED BY <1>1, <1>2, <1>3, <1>4, <1>5, <1>6, <1>7 DEF CommerceNext

-----------------------------------------------------------------------------
\* Of the few numbers given out at first one is the largest.
LEMMA LargestFirst ==
    ASSUME NEW S, S \subseteq 0 .. 6, 0 \in S
    PROVE  Max(S) \in Nat
<1> DEFINE Top(k) == k \in S /\ \A j \in S : j <= k
<1>1. \E k \in S : Top(k)
  <2>1. \A j \in S : j \in {0, 1, 2, 3, 4, 5, 6}
    OBVIOUS
  <2> QED BY <2>1
<1>2. PICK k \in S : \A j \in S : k >= j
  BY <1>1
<1>3. \A i \in S : (\A j \in S : i >= j) => i = k
  BY <1>2
<1>4. Max(S) = k
  BY <1>2, <1>3 DEF Max
<1> QED BY <1>4

LEMMA LargestAllocated ==
    ASSUME Init
    PROVE  allocated \in Nat
<1> DEFINE items == [u \in Users |-> IF u = Keeper THEN First ELSE <<>>]
           S == {0} \cup UNION {DOMAIN items[u] : u \in Users}
<1>1. allocated = Max(S)
  BY DEF Init, StoreInit
<1>2. DOMAIN First \subseteq 1 .. 6
  <2> DEFINE all == <<"weapon", "talisman", "talisman", "material", "material", "potion">>
  <2>1. DOMAIN all = 1 .. 6
    OBVIOUS
  <2>2. DOMAIN First = {i \in DOMAIN all : all[i] \in Kinds}
    BY DEF First, FirstItems
  <2> QED BY <2>1, <2>2
<1>3. \A u \in Users : DOMAIN items[u] \subseteq 1 .. 6
  BY <1>2
<1> HIDE DEF items
<1>4. S \subseteq 0 .. 6 /\ 0 \in S
  BY <1>3
<1> QED BY <1>1, <1>4, LargestFirst

LEMMA MailInit ==
    ASSUME Init
    PROVE  Mailed /\ Protected
<1>1. allocated \in Nat
  BY LargestAllocated
<1>2. mailbox = <<>> /\ following = [u \in Users |-> None]
      /\ mail_failed_delete = [u \in Users |-> None] /\ mail_preview = [u \in Users |-> None]
  BY DEF Init, CommerceInit
<1>3. Mailed
  BY <1>1, <1>2 DEF Mailed
<1>4. Protected
  BY <1>2, ClaimIs DEF Protected
<1> QED BY <1>3, <1>4

LEMMA AttachmentStep ==
    ASSUME Mailed, Protected, [Next]_vars
    PROVE  Mailed' /\ Protected' /\ NoneLost
<1>1. CASE UNCHANGED <<desk, commerceVars>> /\ (desk = "commerce" => UNCHANGED allocated)
  <2>1. UNCHANGED <<mailbox, following, mail_failed_delete, mail_preview, desk>>
    BY <1>1 DEF commerceVars, mailVars
  <2>2. Mailed'
    BY <1>1, <2>1 DEF Mailed
  <2> QED BY <2>1, <2>2 DEF Protected, Kept, NoneLost, Lost
<1>2. CASE desk = "commerce" /\ UNCHANGED desk /\ CommerceNext
  BY <1>2, MailStep
<1>3. CASE UNCHANGED vars
  BY <1>1, <1>3 DEF vars, storeVars
<1>4. CASE Next
  BY <1>1, <1>2, <1>4 DEF Next
<1> QED BY <1>3, <1>4

\* However claims that fail, other mails and deletions follow each other, and
\* whatever other users and other parts of the shop do meanwhile: an
\* attachment that a claim of the open mail did not deliver is there after
\* the deletion sent behind the claim (mailbox.handle, mail_failed_delete).
THEOREM AttachmentAlwaysKept == Spec => AttachmentKept
<1>1. Init => Mailed /\ Protected
  BY MailInit
<1>2. Mailed /\ Protected /\ [Next]_vars => (Mailed /\ Protected)'
  BY AttachmentStep
<1>3. Mailed /\ Protected /\ [Next]_vars =>
          [\A u \in Users, m \in DOMAIN mailbox :
               following[u] = [mail |-> m, open |-> TRUE] => ~Lost(m)]_vars
  BY AttachmentStep DEF NoneLost
<1> QED BY <1>1, <1>2, <1>3, PTL DEF Spec, AttachmentKept

-----------------------------------------------------------------------------
(* What the Keeper wears                                                   *)

Garments == {"weapon", "talisman", "potion"}
Record(x) == x = [kind |-> x.kind, slot |-> x.slot, quantity |-> x.quantity, level |-> x.level, score |-> x.score]

\* What can be worn is counted in pieces; nothing else is ever worn.
Tidy(x) ==
    \/ Record(x) /\ x.kind \in Garments /\ x.slot \in Nat /\ x.quantity \in Nat
    \/ Record(x) /\ x.kind = "material" /\ x.slot = 0
    \/ x.kind \in {"goods", "title", "task"} /\ x.slot = 0
Stocked == DOMAIN inventory = Users /\ \A i \in DOMAIN Mine : Tidy(Mine[i])

Use(p) == [kind |-> p.kind, seq |-> p.seq, cost |-> p.cost, seen |-> p.seen]

\* A use that waits to be confirmed is that of a talisman the Keeper has.
Promised ==
    \A i \in DOMAIN talisman_pending : talisman_pending[i] # None =>
        /\ desk \in {"repairs", "talismans"}
        /\ i \in DOMAIN Mine /\ Mine[i].kind = "talisman"
        /\ talisman_pending[i].cost \in Nat
        /\ talisman_pending[i] = Use(talisman_pending[i])

\* A quote is that of a talisman, under a rule.
Quoted ==
    /\ repair_rule # None => repair_rule.capacity \in Nat
    /\ talisman_repair_quote # None => /\ talisman_repair_quote.record.kind = "talisman"
                                       /\ talisman_repair_quote.rule.capacity \in Nat

\* Who is shopping is not in a match.
Shopping == desk = "commerce" => stage = "lobby"

Geared == Stocked /\ Promised /\ Quoted /\ Shopping

\* What MatchGearFixed says of a step.
OnlyWears ==
    Set /\ Set' =>
        \A i \in DOMAIN Mine : Worn(i) =>
            /\ i \in DOMAIN inventory'[Keeper]
            /\ inventory'[Keeper][i] = [Mine[i] EXCEPT !.quantity = inventory'[Keeper][i].quantity]
            /\ inventory'[Keeper][i].quantity <= Mine[i].quantity

\* An item of which one attribute changes.
LEMMA Requantified ==
    ASSUME NEW x, Record(x), NEW q
    PROVE  /\ Record([x EXCEPT !.quantity = q]) /\ [x EXCEPT !.quantity = q].quantity = q
           /\ [x EXCEPT !.quantity = q].kind = x.kind /\ [x EXCEPT !.quantity = q].slot = x.slot
BY DEF Record

LEMMA Reslotted ==
    ASSUME NEW x, Record(x), NEW s
    PROVE  /\ Record([x EXCEPT !.slot = s]) /\ [x EXCEPT !.slot = s].quantity = x.quantity
           /\ [x EXCEPT !.slot = s].kind = x.kind /\ [x EXCEPT !.slot = s].slot = s
BY DEF Record

LEMMA Releveled ==
    ASSUME NEW x, Record(x), NEW l
    PROVE  /\ Record([x EXCEPT !.level = l]) /\ [x EXCEPT !.level = l].quantity = x.quantity
           /\ [x EXCEPT !.level = l].kind = x.kind /\ [x EXCEPT !.level = l].slot = x.slot
BY DEF Record

LEMMA Rescored ==
    ASSUME NEW x, Record(x), NEW s
    PROVE  /\ Record([x EXCEPT !.score = s]) /\ [x EXCEPT !.score = s].quantity = x.quantity
           /\ [x EXCEPT !.score = s].kind = x.kind /\ [x EXCEPT !.score = s].slot = x.slot
BY DEF Record

\* What is worn is a garment.
LEMMA WornIs ==
    ASSUME Stocked, NEW i \in DOMAIN Mine, Worn(i)
    PROVE  Record(Mine[i]) /\ Mine[i].kind \in Garments /\ Mine[i].quantity \in Nat
BY DEF Stocked, Tidy, Worn

LEMMA NothingWorn ==
    ASSUME Stocked, UNCHANGED inventory
    PROVE  Stocked' /\ OnlyWears
<1>1. ASSUME NEW i \in DOMAIN Mine, Worn(i)
      PROVE  Mine[i] = [Mine[i] EXCEPT !.quantity = Mine[i].quantity] /\ Mine[i].quantity <= Mine[i].quantity
  <2>1. Record(Mine[i]) /\ Mine[i].quantity \in Nat
    BY <1>1, WornIs
  <2> QED BY <2>1 DEF Record
<1>2. OnlyWears
  BY <1>1 DEF OnlyWears, Mine
<1> QED BY <1>2 DEF Stocked, Mine

\* A step of the game, of a table or of a conversation.
Quietly ==
    /\ UNCHANGED <<desk, inventory>>
    /\ UNCHANGED talisman_pending \/ Cleared
    /\ UNCHANGED <<repair_rule, talisman_repair_quote>> \/ (UNCHANGED repair_rule /\ talisman_repair_quote' = None)
    /\ UNCHANGED stage \/ desk # "commerce"

LEMMA QuietStep ==
    ASSUME Geared, Quietly
    PROVE  Geared' /\ OnlyWears
<1>1. Stocked' /\ OnlyWears
  BY NothingWorn DEF Geared, Quietly
<1>2. Promised'
  BY DEF Geared, Quietly, Promised, Cleared, Mine
<1>3. Quoted'
  BY DEF Geared, Quietly, Quoted
<1>4. Shopping'
  BY DEF Geared, Quietly, Shopping
<1> QED BY <1>1, <1>2, <1>3, <1>4 DEF Geared

\* Something new, which is not worn, where nothing waits to be confirmed and
\* no match is going on.
LEMMA GivenStep ==
    ASSUME Geared, desk \notin {"repairs", "talismans"}, ~Set,
           UNCHANGED <<desk, stage, talisman_pending, repair_rule, talisman_repair_quote>>, Stocked'
    PROVE  Geared' /\ OnlyWears
BY DEF Geared, Promised, Quoted, Shopping, OnlyWears

LEMMA AddingTidy ==
    ASSUME Stocked, NEW u \in Users, NEW new, inventory' = [inventory EXCEPT ![u] = Adding(@, new)],
           \A i \in DOMAIN new : Tidy(new[i])
    PROVE  Stocked'
<1>1. \A i \in DOMAIN Adding(inventory[u], new) :
          \/ i \in DOMAIN new /\ Adding(inventory[u], new)[i] = new[i]
          \/ i \in DOMAIN inventory[u] /\ Adding(inventory[u], new)[i] = inventory[u][i]
  BY DEF Adding
<1>2. Keeper \in Users
  BY GearAssumption DEF GearAssumption
<1> QED BY <1>1, <1>2 DEF Stocked, Mine

LEMMA FreshTidy ==
    ASSUME NEW kind \in {"goods", "title", "task"}, NEW key
    PROVE  Tidy(Fresh(kind, key))
BY DEF Fresh, Tidy

LEMMA InsertTidy ==
    ASSUME Stocked, NEW u \in Users, NEW kind \in {"goods", "title", "task"}, NEW key, Insert(u, Fresh(kind, key))
    PROVE  Stocked'
<1> DEFINE new == [i \in {NextInstance} |-> Fresh(kind, key)]
<1>1. \A i \in DOMAIN new : Tidy(new[i])
  BY FreshTidy
<1> QED BY <1>1, AddingTidy DEF Insert

\* The rewards of tasks.
LEMMA GrantTidy ==
    ASSUME Stocked, NEW done, GrantAll(done)
    PROVE  Stocked'
<1> DEFINE rank(q) == Cardinality({r \in done : r <= q})
           new == [i \in {allocated + rank(q) : q \in done} |->
                       Fresh("task", CHOOSE q \in done : i = allocated + rank(q))]
<1>1. inventory' = [inventory EXCEPT ![Keeper] = Adding(@, new)]
  BY DEF GrantAll
<1>2. \A i \in DOMAIN new : Tidy(new[i])
  BY FreshTidy
<1> HIDE DEF new
<1> QED BY <1>1, <1>2, AddingTidy, GearAssumption DEF GearAssumption

\* One item is replaced by another of the same kind.
LEMMA ReplaceTidy ==
    ASSUME Geared, NEW i \in DOMAIN Mine, NEW item, Tidy(item), item.kind = Mine[i].kind,
           Replace(Keeper, i, item)
    PROVE  /\ Stocked'
           /\ DOMAIN Mine' = DOMAIN Mine /\ Mine'[i] = item
           /\ \A j \in DOMAIN Mine : Mine'[j].kind = Mine[j].kind /\ (j # i => Mine'[j] = Mine[j])
<1>1. Keeper \in DOMAIN inventory
  BY GearAssumption DEF GearAssumption, Geared, Stocked
<1>2. Mine' = [Mine EXCEPT ![i] = item] /\ DOMAIN inventory' = DOMAIN inventory
  BY <1>1 DEF Replace, Mine
<1> QED BY <1>2 DEF Geared, Stocked

\* A step that changes what the Keeper owns, outside a match, but for the
\* kinds of what stays.
LEMMA RearrangedStep ==
    ASSUME Geared, Stocked', ~Set, UNCHANGED <<desk, stage, talisman_pending, repair_rule, talisman_repair_quote>>,
           \A j \in Owned("talisman") : j \in DOMAIN Mine' /\ Mine'[j].kind = "talisman"
    PROVE  Geared' /\ OnlyWears
<1>1. Promised'
  BY DEF Geared, Promised, Owned
<1> QED BY <1>1 DEF Geared, Quoted, Shopping, OnlyWears

\* Equipment, which MayDress keeps out of the matches.
LEMMA DressStep ==
    ASSUME Geared, Dress, UNCHANGED desk, UNCHANGED <<repair_rule, talisman_repair_quote>>
    PROVE  Geared' /\ OnlyWears
<1>1. ASSUME NEW i \in DOMAIN Mine, Unequip(i)
      PROVE  Geared' /\ OnlyWears
  <2>1. Record(Mine[i]) /\ Mine[i].kind \in Garments /\ Mine[i].quantity \in Nat
    BY <1>1, WornIs DEF Geared, Unequip
  <2>2. Tidy([Mine[i] EXCEPT !.slot = 0]) /\ [Mine[i] EXCEPT !.slot = 0].kind = Mine[i].kind
    BY <2>1, Reslotted DEF Tidy
  <2>3. ~Set /\ UNCHANGED <<stage, talisman_pending>> /\ Replace(Keeper, i, [Mine[i] EXCEPT !.slot = 0])
    BY <1>1 DEF Unequip, MayDress, Set, gearVars, talismanVars
  <2> QED BY <2>2, <2>3, ReplaceTidy, RearrangedStep DEF Owned
<1>2. ASSUME NEW i \in DOMAIN Mine, NEW slot \in Slots(Mine[i].kind), Equip(i, slot)
      PROVE  Geared' /\ OnlyWears
  <2>1. ~Set /\ UNCHANGED <<stage, talisman_pending>>
    BY <1>2 DEF Equip, MayDress, Set, gearVars, talismanVars
  <2>2. slot \in Nat \ {0} /\ Mine[i].kind \in Garments
    BY DEF Slots, Garments
  <2> DEFINE dressed == [j \in DOMAIN Mine |-> IF j = i THEN [Mine[j] EXCEPT !.slot = slot]
                                              ELSE IF Mine[j].slot = slot THEN [Mine[j] EXCEPT !.slot = 0]
                                              ELSE Mine[j]]
  <2>3. DOMAIN inventory' = DOMAIN inventory /\ Mine' = dressed
    BY <1>2, GearAssumption DEF Equip, Mine, Geared, Stocked, GearAssumption
  <2>4. \A j \in DOMAIN Mine : Tidy(Mine[j])
    BY DEF Geared, Stocked
  <2>5. ASSUME NEW j \in DOMAIN Mine PROVE Tidy(dressed[j]) /\ dressed[j].kind = Mine[j].kind
    <3>1. CASE j = i
      <4>1. Record(Mine[i]) /\ Mine[i].quantity \in Nat
        BY <2>2, <2>4 DEF Tidy, Garments
      <4>2. Tidy([Mine[i] EXCEPT !.slot = slot]) /\ [Mine[i] EXCEPT !.slot = slot].kind = Mine[i].kind
        BY <2>2, <4>1, Reslotted DEF Tidy
      <4>3. dressed[j] = [Mine[i] EXCEPT !.slot = slot]
        BY <3>1
      <4> QED BY <3>1, <4>2, <4>3
    <3>2. CASE j # i /\ Mine[j].slot = slot
      <4>1. Record(Mine[j]) /\ Mine[j].kind \in Garments /\ Mine[j].quantity \in Nat
        BY <2>2, <2>4, <3>2 DEF Tidy
      <4> QED BY <3>2, <4>1, Reslotted DEF Tidy
    <3>3. CASE j # i /\ Mine[j].slot # slot
      BY <2>4, <3>3
    <3> QED BY <3>1, <3>2, <3>3
  <2> HIDE DEF dressed
  <2>6. DOMAIN dressed = DOMAIN Mine
    BY DEF dressed
  <2>7. Stocked'
    BY <2>3, <2>5, <2>6 DEF Geared, Stocked
  <2> QED BY <2>1, <2>3, <2>5, <2>6, <2>7, RearrangedStep DEF Owned
<1> QED BY <1>1, <1>2 DEF Dress

\* A use: one garment loses pieces.
LEMMA UseStep ==
    ASSUME Geared, NEW i \in DOMAIN Mine, Mine[i].kind \in Garments, NEW n \in Nat, n <= Mine[i].quantity,
           Replace(Keeper, i, [Mine[i] EXCEPT !.quantity = n])
    PROVE  /\ Stocked' /\ OnlyWears
           /\ DOMAIN Mine' = DOMAIN Mine /\ \A j \in DOMAIN Mine : Mine'[j].kind = Mine[j].kind
<1> DEFINE item == [Mine[i] EXCEPT !.quantity = n]
<1>1. \A j \in DOMAIN Mine : Tidy(Mine[j])
  BY DEF Geared, Stocked
<1>2. Record(Mine[i]) /\ Mine[i].quantity \in Nat /\ Mine[i].slot \in Nat
  BY <1>1 DEF Tidy, Garments
<1>3. Tidy(item) /\ item.kind = Mine[i].kind /\ item.quantity = n
  BY <1>2, Requantified DEF Tidy
<1>4. Replace(Keeper, i, item)
  OBVIOUS
<1> HIDE DEF item
<1>5. /\ Stocked' /\ DOMAIN Mine' = DOMAIN Mine /\ Mine'[i] = item
      /\ \A j \in DOMAIN Mine : Mine'[j].kind = Mine[j].kind /\ (j # i => Mine'[j] = Mine[j])
  BY <1>3, <1>4, ReplaceTidy
<1>6. ASSUME NEW j \in DOMAIN Mine, Worn(j)
      PROVE  /\ Mine'[j] = [Mine[j] EXCEPT !.quantity = Mine'[j].quantity]
             /\ Mine'[j].quantity <= Mine[j].quantity
  <2>1. CASE j = i
    BY <1>3, <1>5, <2>1 DEF item
  <2>2. CASE j # i
    <3>1. Record(Mine[j]) /\ Mine[j].quantity \in Nat
      BY <1>6, WornIs DEF Geared
    <3> QED BY <1>5, <2>2, <3>1 DEF Record
  <2> QED BY <2>1, <2>2
<1> QED BY <1>5, <1>6 DEF OnlyWears, Mine

-----------------------------------------------------------------------------
(* What the Keeper wears, step by step: one lemma for each part of the shop *)

LEMMA Witnessed ==
    ASSUME NEW p, p = Use(p), NEW v
    PROVE  /\ [p EXCEPT !.seen = v].cost = p.cost
           /\ [p EXCEPT !.seen = v] = Use([p EXCEPT !.seen = v])
BY DEF Use

LEMMA AnnouncedStep ==
    ASSUME Geared, NEW i, NEW kind, NEW seq, NEW seen \in BOOLEAN,
           desk \in {"repairs", "talismans"},
           UNCHANGED <<desk, repair_rule, talisman_repair_quote>>, AnnounceUse(i, kind, seq, seen)
    PROVE  Geared' /\ OnlyWears
<1>1. UNCHANGED <<inventory, stage>> /\ i \in DOMAIN Mine /\ Mine[i].kind = "talisman" /\ Mine' = Mine
  BY DEF AnnounceUse, storeVars, Owned, Mine
<1>2. Stocked' /\ OnlyWears
  BY <1>1, NothingWorn DEF Geared
<1> DEFINE new == [kind |-> kind, seq |-> seq, cost |-> UseCost(kind), seen |-> seen]
<1>3. DOMAIN talisman_pending' = DOMAIN talisman_pending
  BY DEF AnnounceUse
<1>4. \A j \in DOMAIN talisman_pending : j # i => talisman_pending'[j] = talisman_pending[j]
  BY DEF AnnounceUse
<1>5. ASSUME i \in DOMAIN talisman_pending
      PROVE  talisman_pending'[i].cost \in Nat /\ talisman_pending'[i] = Use(talisman_pending'[i])
  <2>1. CASE talisman_pending' = [talisman_pending EXCEPT ![i] = new]
    <3>1. talisman_pending'[i] = new
      BY <1>5, <2>1
    <3>2. UseCost(kind) \in Nat
      BY GearAssumption DEF GearAssumption, UseCost
    <3> QED BY <3>1, <3>2 DEF Use
  <2>2. CASE talisman_pending[i] # None /\ talisman_pending' = [talisman_pending EXCEPT ![i].seen = TRUE]
    <3>1. talisman_pending[i].cost \in Nat /\ talisman_pending[i] = Use(talisman_pending[i])
      BY <1>5, <2>2 DEF Geared, Promised
    <3> DEFINE yes == TRUE
    <3>2. talisman_pending'[i] = [talisman_pending[i] EXCEPT !.seen = yes]
      BY <1>5, <2>2
    <3> HIDE DEF yes
    <3> QED BY <3>1, <3>2, Witnessed
  <2> QED BY <2>1, <2>2 DEF AnnounceUse
<1>6. Promised'
  BY <1>1, <1>3, <1>4, <1>5 DEF Geared, Promised
<1> QED BY <1>1, <1>2, <1>6 DEF Geared, Quoted, Shopping

LEMMA ConfirmedStep ==
    ASSUME Geared, NEW i, desk \in {"repairs", "talismans"},
           UNCHANGED <<desk, repair_rule, talisman_repair_quote>>, Confirm(i)
    PROVE  Geared' /\ OnlyWears
<1> DEFINE p == talisman_pending[i]
<1>1. /\ i \in DOMAIN talisman_pending /\ p # None /\ UNCHANGED stage
      /\ talisman_pending' = [talisman_pending EXCEPT ![i] = None]
  BY DEF Confirm
<1>2. i \in DOMAIN Mine /\ Mine[i].kind = "talisman" /\ p.cost \in Nat
  BY <1>1 DEF Geared, Promised
<1>3. /\ Stocked' /\ OnlyWears /\ DOMAIN Mine' = DOMAIN Mine
      /\ \A j \in DOMAIN Mine : Mine'[j].kind = Mine[j].kind
  <2>1. CASE UNCHANGED inventory
    BY <2>1, NothingWorn DEF Geared, Mine
  <2>2. CASE Mine[i].quantity >= p.cost /\ Replace(Keeper, i, [Mine[i] EXCEPT !.quantity = @ - p.cost])
    <3>1. Mine[i].quantity \in Nat
      BY <1>2 DEF Geared, Stocked, Tidy
    <3>2. Mine[i].quantity - p.cost \in Nat /\ Mine[i].quantity - p.cost <= Mine[i].quantity
      BY <1>2, <2>2, <3>1
    <3>3. Replace(Keeper, i, [Mine[i] EXCEPT !.quantity = Mine[i].quantity - p.cost])
      BY <2>2
    <3> QED BY <1>2, <3>2, <3>3, UseStep DEF Garments
  <2> QED BY <2>1, <2>2 DEF Confirm
<1>4. Promised'
  BY <1>1, <1>3 DEF Geared, Promised
<1> QED BY <1>1, <1>3, <1>4 DEF Geared, Quoted, Shopping

LEMMA ConsumedStep ==
    ASSUME Geared, NEW i \in DOMAIN Mine, NEW seq,
           UNCHANGED <<desk, repair_rule, talisman_repair_quote>>, Consume(i, seq)
    PROVE  Geared' /\ OnlyWears
<1>1. UNCHANGED <<stage, talisman_pending>> /\ Mine[i].kind = "potion"
  BY DEF Consume, talismanVars, Owned
<1>2. /\ Stocked' /\ OnlyWears /\ DOMAIN Mine' = DOMAIN Mine
      /\ \A j \in DOMAIN Mine : Mine'[j].kind = Mine[j].kind
  <2>1. CASE UNCHANGED inventory
    BY <2>1, NothingWorn DEF Geared, Mine
  <2>2. CASE Mine[i].quantity > 0 /\ Replace(Keeper, i, [Mine[i] EXCEPT !.quantity = @ - 1])
    <3>1. Mine[i].quantity \in Nat
      BY <1>1 DEF Geared, Stocked, Tidy
    <3>2. Mine[i].quantity - 1 \in Nat /\ Mine[i].quantity - 1 <= Mine[i].quantity
      BY <2>2, <3>1
    <3>3. Replace(Keeper, i, [Mine[i] EXCEPT !.quantity = Mine[i].quantity - 1])
      BY <2>2
    <3> QED BY <1>1, <3>2, <3>3, UseStep DEF Garments
  <2> QED BY <2>1, <2>2 DEF Consume
<1>3. Promised'
  BY <1>1, <1>2 DEF Geared, Promised
<1> QED BY <1>1, <1>2, <1>3 DEF Geared, Quoted, Shopping

\* An attempt to upgrade, outside every match.
LEMMA AttemptStep ==
    ASSUME Geared, NEW i \in Owned("weapon"), NEW success \in BOOLEAN, Attempt(i, success),
           UNCHANGED desk
    PROVE  Geared' /\ OnlyWears
<1> DEFINE to == IF success THEN Mine[i].level + 1 ELSE Mine[i].level
           score == Mine[i].score - 1
           item == [Mine[i] EXCEPT !.level = to, !.score = score]
<1>1. /\ ~Set /\ UNCHANGED <<stage, talisman_pending, repair_rule, talisman_repair_quote>>
      /\ Replace(Keeper, i, item)
  BY DEF Attempt, Free, Set, gearVars, talismanVars, repairVars
<1>2. i \in DOMAIN Mine /\ Mine[i].kind = "weapon"
  BY DEF Owned
<1>3. Record(Mine[i]) /\ Mine[i].slot \in Nat /\ Mine[i].quantity \in Nat
  BY <1>2 DEF Geared, Stocked, Tidy
<1> HIDE DEF to, score
<1>4. Record(item) /\ item.kind = Mine[i].kind /\ item.slot = Mine[i].slot /\ item.quantity = Mine[i].quantity
  <2> DEFINE x == Mine[i]
             z == [x EXCEPT !.level = to]
  <2>1. item = [z EXCEPT !.score = score]
    <3>1. PICK k, on, n, at, left : x = [kind |-> k, slot |-> on, quantity |-> n, level |-> at, score |-> left]
      BY <1>3 DEF Record
    <3> HIDE DEF x
    <3>2. [x EXCEPT !.level = to, !.score = score] = [z EXCEPT !.score = score]
      BY <3>1
    <3>3. item = [x EXCEPT !.level = to, !.score = score]
      BY DEF x, item
    <3> QED BY <3>2, <3>3
  <2> HIDE DEF item, x
  <2>2. Record(x)
    BY <1>3 DEF x
  <2>3. Record(z) /\ z.kind = x.kind /\ z.slot = x.slot /\ z.quantity = x.quantity
    BY <2>2, Releveled
  <2> HIDE DEF z
  <2>4. /\ Record([z EXCEPT !.score = score]) /\ [z EXCEPT !.score = score].quantity = z.quantity
        /\ [z EXCEPT !.score = score].kind = z.kind /\ [z EXCEPT !.score = score].slot = z.slot
    BY <2>3, Rescored
  <2> QED BY <2>1, <2>3, <2>4 DEF x
<1> HIDE DEF item
<1>5. Tidy(item)
  BY <1>2, <1>3, <1>4 DEF Tidy, Garments
<1>6. /\ Stocked' /\ DOMAIN Mine' = DOMAIN Mine
      /\ \A j \in DOMAIN Mine : Mine'[j].kind = Mine[j].kind
  <2>1. /\ Stocked' /\ DOMAIN Mine' = DOMAIN Mine /\ Mine'[i] = item
        /\ \A j \in DOMAIN Mine : Mine'[j].kind = Mine[j].kind /\ (j # i => Mine'[j] = Mine[j])
    BY <1>1, <1>2, <1>4, <1>5, ReplaceTidy
  <2> QED BY <2>1
<1> QED BY <1>1, <1>6, RearrangedStep DEF Owned

\* A repair, outside every match: the talisman is filled, materials go.
LEMMA RepairStep ==
    ASSUME Geared, Repair, UNCHANGED desk
    PROVE  Geared' /\ OnlyWears
<1> DEFINE quote == talisman_repair_quote
           needed == quote.rule.needed
           left == {i \in DOMAIN Mine : i \notin Materials \/ Taken(i, needed) < Mine[i].quantity}
           rest(i) == Mine[i].quantity - Taken(i, needed)
           kept == [i \in left |-> IF i \in Materials THEN [Mine[i] EXCEPT !.quantity = rest(i)]
                                   ELSE IF i = quote.instance
                                        THEN [Mine[i] EXCEPT !.quantity = quote.rule.capacity]
                                   ELSE Mine[i]]
<1>1. /\ ~Set /\ UNCHANGED <<stage, talisman_pending, repair_rule, talisman_repair_quote>>
      /\ quote # None /\ Mine[quote.instance] = quote.record
      /\ inventory' = [inventory EXCEPT ![Keeper] = kept]
  BY DEF Repair, AsQuoted, Free, Set, gearVars, talismanVars
<1>2. DOMAIN inventory' = DOMAIN inventory /\ Mine' = kept
  BY <1>1, GearAssumption DEF Mine, Geared, Stocked, GearAssumption
<1>3. ASSUME NEW i \in left PROVE Tidy(kept[i]) /\ kept[i].kind = Mine[i].kind
  <2>0. i \in DOMAIN Mine /\ Tidy(Mine[i])
    BY DEF Geared, Stocked
  <2>1. CASE i \in Materials
    <3>1. Record(Mine[i]) /\ Mine[i].kind = "material" /\ Mine[i].slot = 0
      BY <2>0, <2>1 DEF Materials, Owned, Tidy, Garments
    <3>2. kept[i] = [Mine[i] EXCEPT !.quantity = rest(i)]
      BY <2>1
    <3> QED BY <3>1, <3>2, Requantified DEF Tidy
  <2>2. CASE i \notin Materials /\ i = quote.instance
    <3>1. Mine[i].kind = "talisman" /\ quote.rule.capacity \in Nat
      BY <1>1, <2>2 DEF Geared, Quoted
    <3>2. Record(Mine[i]) /\ Mine[i].slot \in Nat
      BY <2>0, <3>1 DEF Tidy
    <3>3. kept[i] = [Mine[i] EXCEPT !.quantity = quote.rule.capacity]
      BY <2>2
    <3>4. LET y == [Mine[i] EXCEPT !.quantity = quote.rule.capacity]
          IN  Record(y) /\ y.kind = "talisman" /\ y.slot \in Nat /\ y.quantity \in Nat
      BY <3>1, <3>2, Requantified
    <3> QED BY <3>1, <3>3, <3>4 DEF Tidy, Garments
  <2>3. CASE i \notin Materials /\ i # quote.instance
    BY <2>0, <2>3
  <2> QED BY <2>1, <2>2, <2>3
<1>4. DOMAIN kept = left /\ \A j \in Owned("talisman") : j \in left
  BY DEF Materials, Owned
<1> HIDE DEF kept
<1>5. Stocked'
  BY <1>2, <1>3, <1>4 DEF Geared, Stocked
<1>6. \A j \in Owned("talisman") : j \in DOMAIN Mine' /\ Mine'[j].kind = "talisman"
  BY <1>2, <1>3, <1>4 DEF Owned
<1> QED BY <1>1, <1>5, <1>6, RearrangedStep

\* The game moves on.
LEMMA GameQuiet ==
    ASSUME Game, UNCHANGED <<desk, repair_rule, talisman_repair_quote>>, desk # "commerce"
    PROVE  Quietly
BY DEF Game, Move, StartBattle, EndBattle, Quietly, storeVars, talismanVars

LEMMA CommerceStep ==
    ASSUME Geared, desk = "commerce", CommerceNext, UNCHANGED <<desk, gearVars, upkeepOnlyVars>>
    PROVE  Geared' /\ OnlyWears
<1>1. ~Set /\ UNCHANGED <<stage, talisman_pending, repair_rule, talisman_repair_quote>>
  BY DEF Geared, Shopping, Set, gearVars, talismanVars, upkeepOnlyVars, repairVars
<1>2. ASSUME NEW u \in Users, NEW key, Insert(u, Fresh("goods", key))
      PROVE  Geared' /\ OnlyWears
  <2>1. Stocked'
    BY <1>2, InsertTidy DEF Geared
  <2> QED BY <1>1, <2>1, GivenStep
<1>3. CASE UNCHANGED inventory
  BY <1>1, <1>3, QuietStep DEF Quietly
<1>4. ASSUME NEW u \in Buyers, NEW op \in Orders, NEW g \in Goods, NEW quote, Purchase(u, op, g, quote)
      PROVE  Geared' /\ OnlyWears
  BY <1>2, <1>4, CommerceAssumption DEF Purchase, CommerceAssumption
<1>5. ASSUME NEW u \in Users, NEW m \in Mails(u), Claim(u, m)
      PROVE  Geared' /\ OnlyWears
  BY <1>2, <1>3, <1>5 DEF Claim
<1>6. CASE \E g \in Goods : Reprice(g) \/ EnableOffer(g)
  BY <1>3, <1>6 DEF Reprice, EnableOffer, storeVars
<1>7. ASSUME NEW u, NEW op, NEW g, NEW quote, NEW to, Gift(u, op, g, quote, to)
      PROVE  Geared' /\ OnlyWears
  BY <1>3, <1>7 DEF Gift
<1>8. CASE \E u \in Addressees, delivery \in Deliveries, item \in Goods \cup {None} : Deliver(u, delivery, item)
  BY <1>3, <1>8 DEF Deliver, storeVars
<1>9. ASSUME NEW u, NEW m, Preview(u, m) \/ Delete(u, m) \/ CloseMail(u)
      PROVE  Geared' /\ OnlyWears
  BY <1>3, <1>9 DEF Preview, Delete, CloseMail, storeVars
<1> QED BY <1>4, <1>5, <1>6, <1>7, <1>8, <1>9 DEF CommerceNext

LEMMA DisconnectQuiet ==
    ASSUME Disconnect, UNCHANGED desk, desk # "commerce"
    PROVE  Quietly
BY DEF Disconnect, Quietly, storeVars

LEMMA LeaseStep ==
    ASSUME Geared, desk = "leases", AtLeases, UNCHANGED desk
    PROVE  Geared' /\ OnlyWears
<1>1. CASE RecordRenewal \/ QuoteRenewal \/ ExpireRenewal \/ Tick \/ Publish
  <2>1. Quietly
    BY <1>1 DEF RecordRenewal, QuoteRenewal, ExpireRenewal, Tick, Publish, Quietly, storeVars, gearVars,
                talismanVars, repairVars
  <2> QED BY <2>1, QuietStep
<1>2. CASE \E days \in Days : EnableRenewal(days)
  <2>1. Quietly
    BY <1>2 DEF EnableRenewal, Quietly, storeVars, gearVars, talismanVars, repairVars
  <2> QED BY <2>1, QuietStep
<1>3. CASE \E enabled \in BOOLEAN : ConfigureUpgrades(enabled)
  <2>1. Quietly
    BY <1>3 DEF ConfigureUpgrades, Quietly, storeVars, gearVars, talismanVars, repairVars
  <2> QED BY <2>1, QuietStep
<1>4. ASSUME NEW i \in Owned("weapon"), Renew(i)
      PROVE  Geared' /\ OnlyWears
  <2>1. Quietly
    BY <1>4 DEF Renew, Quietly, gearVars, talismanVars, repairVars
  <2> QED BY <2>1, QuietStep
<1>5. ASSUME NEW i \in Owned("weapon"), NEW success \in BOOLEAN, Attempt(i, success)
      PROVE  Geared' /\ OnlyWears
  BY <1>5, AttemptStep
<1>6. CASE Disconnect
  BY <1>6, DisconnectQuiet, QuietStep
<1>7. CASE UNCHANGED upkeepOnlyVars /\ Game
  BY <1>7, GameQuiet, QuietStep DEF upkeepOnlyVars, repairVars
<1>8. CASE UNCHANGED upkeepOnlyVars /\ Dress
  BY <1>8, DressStep DEF upkeepOnlyVars, repairVars
<1> QED BY <1>1, <1>2, <1>3, <1>4, <1>5, <1>6, <1>7, <1>8 DEF AtLeases, LeaseNext

\* The quote is of what the talisman is, under the rule there is.
LEMMA QuotedStep ==
    ASSUME Geared, desk = "repairs", UNCHANGED desk,
           \/ \E needed \in 1 .. 2, capacity \in Capacities : ImportRules(needed, capacity)
           \/ \E i \in Owned("talisman") : QuoteRepair(i)
    PROVE  Geared' /\ OnlyWears
<1>1. UNCHANGED <<inventory, stage, talisman_pending>>
  BY DEF ImportRules, QuoteRepair, storeVars, gearVars, talismanVars
<1>2. Stocked' /\ OnlyWears /\ Promised' /\ Shopping'
  BY <1>1, NothingWorn DEF Geared, Promised, Shopping, Mine
<1>3. ASSUME NEW needed \in 1 .. 2, NEW capacity \in Capacities, ImportRules(needed, capacity)
      PROVE  Quoted'
  BY <1>3, UpkeepAssumption DEF ImportRules, Geared, Quoted, UpkeepAssumption
<1>4. ASSUME NEW i \in Owned("talisman"), QuoteRepair(i)
      PROVE  Quoted'
  BY <1>4 DEF QuoteRepair, Geared, Quoted, Owned
<1> QED BY <1>2, <1>3, <1>4 DEF Geared

LEMMA RepairsStep ==
    ASSUME Geared, desk = "repairs", AtRepairs, UNCHANGED desk
    PROVE  Geared' /\ OnlyWears
<1>1. CASE ExpireRepair
  <2>1. Quietly
    BY <1>1 DEF ExpireRepair, Quietly, storeVars, gearVars, talismanVars
  <2> QED BY <2>1, QuietStep
<1>2. CASE Repair
  BY <1>2, RepairStep
<1>3. CASE \/ \E needed \in 1 .. 2, capacity \in Capacities : ImportRules(needed, capacity)
           \/ \E i \in Owned("talisman") : QuoteRepair(i)
  BY <1>3, QuotedStep
<1>4. CASE Disconnect
  BY <1>4, DisconnectQuiet, QuietStep
<1>5. CASE UNCHANGED upkeepOnlyVars /\ Game
  BY <1>5, GameQuiet, QuietStep DEF upkeepOnlyVars, repairVars
<1>6. CASE UNCHANGED upkeepOnlyVars /\ Dress
  BY <1>6, DressStep DEF upkeepOnlyVars, repairVars
<1>7. CASE UNCHANGED upkeepOnlyVars /\ Used
  <2>1. UNCHANGED <<repair_rule, talisman_repair_quote>>
    BY <1>7 DEF upkeepOnlyVars, repairVars
  <2>2. PICK i \in DOMAIN talisman_pending : AnnounceUse(i, "active", 1, TRUE) \/ Confirm(i)
    BY <1>7 DEF Used
  <2>3. CASE Confirm(i)
    BY <2>1, <2>3, ConfirmedStep
  <2>4. CASE AnnounceUse(i, "active", 1, TRUE)
    <3> DEFINE yes == TRUE
    <3>1. AnnounceUse(i, "active", 1, yes) /\ yes \in BOOLEAN
      BY <2>4
    <3> HIDE DEF yes
    <3> QED BY <2>1, <3>1, AnnouncedStep
  <2> QED BY <2>2, <2>3, <2>4
<1> QED BY <1>1, <1>2, <1>3, <1>4, <1>5, <1>6, <1>7 DEF AtRepairs, RepairNext

LEMMA TalismansStep ==
    ASSUME Geared, desk = "talismans", AtTalismans, UNCHANGED <<desk, upkeepOnlyVars>>
    PROVE  Geared' /\ OnlyWears
<1>1. UNCHANGED <<repair_rule, talisman_repair_quote>>
  BY DEF upkeepOnlyVars, repairVars
<1>2. CASE Game
  BY <1>1, <1>2, GameQuiet, QuietStep
<1>3. CASE Dress
  BY <1>1, <1>3, DressStep
<1>4. ASSUME NEW i \in DOMAIN talisman_pending, Confirm(i)
      PROVE  Geared' /\ OnlyWears
  BY <1>1, <1>4, ConfirmedStep
<1>5. ASSUME NEW i \in DOMAIN talisman_pending, ForgetUse(i)
      PROVE  Geared' /\ OnlyWears
  <2>1. UNCHANGED <<inventory, stage>> /\ talisman_pending' = [talisman_pending EXCEPT ![i] = None]
    BY <1>5 DEF ForgetUse, storeVars
  <2>2. Stocked' /\ OnlyWears
    BY <2>1, NothingWorn DEF Geared
  <2>3. Promised'
    BY <2>1 DEF Geared, Promised, Mine
  <2> QED BY <1>1, <2>1, <2>2, <2>3 DEF Geared, Quoted, Shopping
<1>6. ASSUME NEW i \in DOMAIN talisman_pending, NEW seq, NEW kind, NEW seen \in BOOLEAN,
             AnnounceUse(i, kind, seq, seen)
      PROVE  Geared' /\ OnlyWears
  BY <1>1, <1>6, AnnouncedStep
<1> QED BY <1>2, <1>3, <1>4, <1>5, <1>6 DEF AtTalismans, TalismanNext

LEMMA PotionsStep ==
    ASSUME Geared, desk = "potions", AtPotions, UNCHANGED <<desk, upkeepOnlyVars>>
    PROVE  Geared' /\ OnlyWears
<1>1. UNCHANGED <<repair_rule, talisman_repair_quote>>
  BY DEF upkeepOnlyVars, repairVars
<1>2. CASE Game
  BY <1>1, <1>2, GameQuiet, QuietStep
<1>3. CASE Dress
  BY <1>1, <1>3, DressStep
<1>4. ASSUME NEW i \in DOMAIN Mine, Announce(i)
      PROVE  Geared' /\ OnlyWears
  <2>1. Quietly
    BY <1>1, <1>4 DEF Announce, Quietly, storeVars, talismanVars
  <2> QED BY <2>1, QuietStep
<1>5. ASSUME NEW i \in DOMAIN Mine, NEW seq, Consume(i, seq)
      PROVE  Geared' /\ OnlyWears
  BY <1>1, <1>5, ConsumedStep
<1> QED BY <1>2, <1>3, <1>4, <1>5 DEF AtPotions, PotionNext

\* The parts that reward: an item is given in the lobby, or before the
\* Keeper is ready.
LEMMA QuestStep ==
    ASSUME Geared, desk \in {"quests", "titles"}, QuestNext, UNCHANGED <<desk, upkeepOnlyVars>>
    PROVE  Geared' /\ OnlyWears
<1>1. UNCHANGED <<repair_rule, talisman_repair_quote>>
  BY DEF upkeepOnlyVars, repairVars
<1>2. ASSUME NEW done, GrantAll(done), UNCHANGED gearVars, stage = "lobby"
      PROVE  Geared' /\ OnlyWears
  <2>1. ~Set /\ UNCHANGED <<stage, talisman_pending>>
    BY <1>2 DEF Set, gearVars, talismanVars
  <2>2. Stocked'
    BY <1>2, GrantTidy DEF Geared
  <2> QED BY <1>1, <2>1, <2>2, GivenStep
<1>3. ASSUME UNCHANGED inventory, UNCHANGED gearVars
      PROVE  Geared' /\ OnlyWears
  <2>1. Quietly
    BY <1>1, <1>3 DEF Quietly, gearVars, talismanVars
  <2> QED BY <2>1, QuietStep
<1>4. CASE Refresh
  BY <1>2, <1>3, <1>4 DEF Refresh, storeVars
<1>5. CASE Forget
  <2>1. Quietly
    BY <1>1, <1>5 DEF Forget, Quietly, storeVars
  <2> QED BY <2>1, QuietStep
<1>6. CASE List("daily")
  BY <1>3, <1>6 DEF List, storeVars
<1>7. ASSUME NEW q \in DOMAIN Tasks, Accept(q) \/ Cancel(q)
      PROVE  Geared' /\ OnlyWears
  BY <1>3, <1>7 DEF Accept, Cancel, storeVars
<1>8. ASSUME NEW q \in DOMAIN Tasks, ClaimTask(q)
      PROVE  Geared' /\ OnlyWears
  BY <1>2, <1>8 DEF ClaimTask, Offered
<1> QED BY <1>4, <1>5, <1>6, <1>7, <1>8 DEF QuestNext

LEMMA TitleStep ==
    ASSUME Geared, desk = "titles", TitleNext, UNCHANGED <<desk, upkeepOnlyVars>>
    PROVE  Geared' /\ OnlyWears
<1>1. UNCHANGED <<repair_rule, talisman_repair_quote>>
  BY DEF upkeepOnlyVars, repairVars
<1>2. CASE CompleteTutorial
  <2>1. Quietly
    BY <1>1, <1>2 DEF CompleteTutorial, Quietly, storeVars
  <2> QED BY <2>1, QuietStep
<1>3. ASSUME NEW level, NEW offered, Issue(level) \/ ConfigureTitle(level, offered)
      PROVE  Geared' /\ OnlyWears
  <2>1. Quietly
    BY <1>1, <1>3 DEF Issue, ConfigureTitle, Quietly, storeVars, gearVars, talismanVars
  <2> QED BY <2>1, QuietStep
<1>4. ASSUME NEW key \in Prizes, ClaimTitle(key)
      PROVE  Geared' /\ OnlyWears
  <2>1. ~Set /\ UNCHANGED <<stage, talisman_pending>> /\ Insert(Keeper, Fresh("title", title_offer))
    BY <1>4 DEF ClaimTitle, MayDress, Set, gearVars, talismanVars
  <2>2. Stocked'
    BY <2>1, InsertTidy, GearAssumption DEF Geared, GearAssumption
  <2> QED BY <1>1, <2>1, <2>2, GivenStep
<1> QED BY <1>2, <1>3, <1>4 DEF TitleNext

LEMMA RewardsStep ==
    ASSUME Geared, desk \in {"quests", "titles", "training"},
           BattleNext \/ SettleNext \/ RulesNext \/ TrainingNext, UNCHANGED <<desk, upkeepOnlyVars>>
    PROVE  Geared' /\ OnlyWears
<1>1. UNCHANGED <<repair_rule, talisman_repair_quote>>
  BY DEF upkeepOnlyVars, repairVars
<1>2. CASE BattleNext
  BY <1>1, <1>2, GameQuiet, QuietStep DEF BattleNext, Game
<1>3. CASE UNCHANGED <<storeVars, gearVars>>
  <2>1. Quietly
    BY <1>1, <1>3 DEF Quietly, storeVars, gearVars, talismanVars
  <2> QED BY <2>1, QuietStep
<1>4. SettleNext \/ TrainingNext => UNCHANGED <<storeVars, gearVars>>
  BY DEF SettleNext, Settle, TrainingNext, Hour, StartTraining, ClaimTraining
<1>5. RulesNext => UNCHANGED <<storeVars, gearVars>>
  BY DEF RulesNext, SetAvailable, SetRule
<1> QED BY <1>2, <1>3, <1>4, <1>5

LEMMA GearStep ==
    ASSUME Geared, [Next]_vars
    PROVE  Geared' /\ OnlyWears
<1>1. CASE UNCHANGED vars
  <2>1. Quietly
    BY <1>1 DEF vars, Quietly, storeVars, gearVars, talismanVars, upkeepOnlyVars, repairVars
  <2> QED BY <2>1, QuietStep
<1>2. CASE Next /\ desk = "commerce"
  BY <1>2, CommerceStep DEF Next
<1>3. CASE Next /\ desk = "leases"
  BY <1>3, LeaseStep DEF Next
<1>4. CASE Next /\ desk = "repairs"
  BY <1>4, RepairsStep DEF Next
<1>5. CASE Next /\ desk = "talismans"
  BY <1>5, TalismansStep DEF Next
<1>6. CASE Next /\ desk = "potions"
  BY <1>6, PotionsStep DEF Next
<1>7. CASE Next /\ desk \in {"quests", "titles", "training"}
  <2>1. UNCHANGED <<desk, upkeepOnlyVars>> /\ (AtQuests \/ AtTitles \/ AtTraining)
    BY <1>7 DEF Next
  <2>2. desk = "quests" => AtQuests
    BY <1>7 DEF Next
  <2>3. desk = "titles" => AtTitles
    BY <1>7 DEF Next
  <2>4. desk = "training" => AtTraining
    BY <1>7 DEF Next
  <2> QED BY <1>7, <2>1, <2>2, <2>3, <2>4, RewardsStep, QuestStep, TitleStep DEF AtQuests, AtTitles, AtTraining
<1> QED BY <1>1, <1>2, <1>3, <1>4, <1>5, <1>6, <1>7 DEF Next

LEMMA GearInitially ==
    ASSUME Init
    PROVE  Geared
<1>1. inventory = [u \in Users |-> IF u = Keeper THEN First ELSE <<>>] /\ Keeper \in Users
  BY GearAssumption DEF Init, StoreInit, GearAssumption
<1>2. Mine = First
  BY <1>1 DEF Mine
<1>3. ASSUME NEW i \in DOMAIN First PROVE Tidy(First[i])
  <2> DEFINE all == <<"weapon", "talisman", "talisman", "material", "material", "potion">>
  <2>1. i \in 1 .. 6 /\ First[i] = Item(all[i], IF all[i] = "material" THEN 1 ELSE 2)
    BY <1>3 DEF First, FirstItems
  <2>2. all[i] \in Garments \cup {"material"}
    <3>1. i \in {1, 2, 3, 4, 5, 6}
      BY <2>1
    <3> QED BY <3>1 DEF Garments
  <2> HIDE DEF all
  <2> QED BY <2>1, <2>2 DEF Item, Tidy, Record, Garments
<1>4. Stocked
  BY <1>1, <1>2, <1>3 DEF Stocked
<1>5. \A i \in DOMAIN talisman_pending : talisman_pending[i] = None
  BY DEF Init, GearInit
<1>6. repair_rule = None /\ talisman_repair_quote = None /\ stage = "lobby"
  BY DEF Init, UpkeepInit, GearInit
<1> QED BY <1>4, <1>5, <1>6 DEF Geared, Promised, Quoted, Shopping

\* From the moment the Keeper is ready until the match has ended, what it
\* wears changes by being used and in no other way, whatever lies on its way
\* from the lobby, and whichever part of the shop it was sent to (the phase
\* and ready checks of equipment, renewal, upgrade, repair and titles).
THEOREM MatchGearAlwaysFixed == Spec => MatchGearFixed
<1>1. Init => Geared
  BY GearInitially
<1>2. Geared /\ [Next]_vars => Geared'
  BY GearStep
<1>3. Geared /\ [Next]_vars =>
          [Set /\ Set' =>
               \A i \in DOMAIN Mine : Worn(i) =>
                   /\ i \in DOMAIN inventory'[Keeper]
                   /\ inventory'[Keeper][i] = [Mine[i] EXCEPT !.quantity = inventory'[Keeper][i].quantity]
                   /\ inventory'[Keeper][i].quantity <= Mine[i].quantity]_vars
  BY GearStep DEF OnlyWears
<1> QED BY <1>1, <1>2, <1>3, PTL DEF Spec, MatchGearFixed

-----------------------------------------------------------------------------
(* Types of the books                                                      *)

Purchases == [uid : Users, op : Orders, key : Goods, quote : Nat, instance : Nat]
Gifts == [uid : Users, op : Orders, key : Goods, quote : Nat, mail : Nat]
Rows == [state : 1 .. 4, baseline : Nat, count : Nat, rule : Nat \cup {None}]
Payouts == [task : DOMAIN Tasks, instance : Nat, gold : Nat]

\* Money, receipts and tasks are what they look like, and there are finitely
\* many receipts.
Typed ==
    /\ allocated \in Nat
    /\ wallet \in [Users -> [Currencies -> Nat]]
    /\ catalog \in [Goods -> Nat] /\ offers \in [Goods -> Nat]
    /\ shop_receipts \subseteq Purchases /\ IsFiniteSet(shop_receipts)
    /\ gift_receipts \subseteq Gifts /\ IsFiniteSet(gift_receipts)
    /\ renewal_record \in Nat
    /\ IsFiniteSet(renewal_receipts) /\ \A r \in renewal_receipts : r.paid \in Nat
    /\ upgrade_receipts \in Nat
    /\ rules \in [DOMAIN Tasks -> Nat \cup {None}]
    /\ progress \in [DOMAIN Tasks -> Rows \cup {None}]
    /\ plays \in Nat
    /\ rewarded \subseteq Payouts /\ IsFiniteSet(rewarded)

\* The tables that Typed is about.
bookVars == <<wallet, catalog, offers, shop_receipts, gift_receipts, renewal_record,
              renewal_receipts, upgrade_receipts, rules, progress, plays, rewarded>>

LEMMA TypedSame ==
    ASSUME Typed, UNCHANGED bookVars, allocated' \in Nat
    PROVE  Typed'
BY DEF Typed, bookVars

\* What a wallet holds is a natural number before and after.
LEMMA DebitTyped ==
    ASSUME wallet \in [Users -> [Currencies -> Nat]], NEW u \in Users, NEW c \in Currencies, NEW n \in Nat,
           Debit(u, c, n)
    PROVE  wallet' \in [Users -> [Currencies -> Nat]]
<1>1. wallet[u] \in [Currencies -> Nat] /\ wallet[u][c] - n \in Nat
  BY DEF Debit
<1>2. [wallet[u] EXCEPT ![c] = @ - n] \in [Currencies -> Nat]
  BY <1>1
<1> QED BY <1>2 DEF Debit

LEMMA CreditTyped ==
    ASSUME wallet \in [Users -> [Currencies -> Nat]], NEW u \in Users, NEW c \in Currencies, NEW n \in Nat,
           Credit(u, c, n)
    PROVE  wallet' \in [Users -> [Currencies -> Nat]]
<1>1. wallet[u] \in [Currencies -> Nat] /\ wallet[u][c] + n \in Nat
  OBVIOUS
<1>2. [wallet[u] EXCEPT ![c] = @ + n] \in [Currencies -> Nat]
  BY <1>1
<1> QED BY <1>2 DEF Credit

LEMMA CurrencyIs ==
    ASSUME NEW g
    PROVE  Currency(g) \in Currencies
BY DEF Currency, Currencies

LEMMA PurchaseTyped ==
    ASSUME Typed, NEW u \in Users, NEW op \in Orders, NEW g \in Goods, NEW quote \in Nat,
           Purchase(u, op, g, quote), UNCHANGED <<upkeepOnlyVars, rewardsOnlyVars>>
    PROVE  Typed'
<1> DEFINE r == [uid |-> u, op |-> op, key |-> g, quote |-> quote, instance |-> NextInstance]
<1>1. allocated' \in Nat /\ r \in Purchases
  BY DEF Purchase, Insert, NextInstance, Typed, Purchases
<1>2. shop_receipts' = shop_receipts \cup {r}
  BY DEF Purchase
<1> HIDE DEF r
<1>3. shop_receipts' \subseteq Purchases /\ IsFiniteSet(shop_receipts')
  BY <1>1, <1>2, FS_AddElement DEF Typed
<1>4. wallet' \in [Users -> [Currencies -> Nat]]
  BY DebitTyped, CurrencyIs DEF Purchase, Typed, Cost
<1> QED BY <1>1, <1>3, <1>4 DEF Typed, Purchase, upkeepOnlyVars, renewalVars, upgradeVars, rewardsOnlyVars,
           progressVars, questVars

LEMMA GiftTyped ==
    ASSUME Typed, Mailed, NEW u \in Users, NEW op \in Orders, NEW g \in Goods, NEW quote \in Nat, NEW to,
           Gift(u, op, g, quote, to), UNCHANGED <<upkeepOnlyVars, rewardsOnlyVars>>
    PROVE  Typed'
<1> DEFINE r == [uid |-> u, op |-> op, key |-> g, quote |-> quote, mail |-> Len(mailbox) + 1]
<1>1. UNCHANGED allocated /\ r \in Gifts
  BY DEF Gift, Typed, Gifts, Mailed
<1>2. gift_receipts' = gift_receipts \cup {r}
  BY DEF Gift
<1> HIDE DEF r
<1>3. gift_receipts' \subseteq Gifts /\ IsFiniteSet(gift_receipts')
  BY <1>1, <1>2, FS_AddElement DEF Typed
<1>4. wallet' \in [Users -> [Currencies -> Nat]]
  BY DebitTyped DEF Gift, Typed, Cost, Currencies
<1> QED BY <1>1, <1>3, <1>4 DEF Typed, Gift, upkeepOnlyVars, renewalVars, upgradeVars, rewardsOnlyVars,
           progressVars, questVars

LEMMA CommerceTyped ==
    ASSUME Typed, Mailed, CommerceNext, UNCHANGED <<upkeepOnlyVars, rewardsOnlyVars>>
    PROVE  Typed'
<1> USE DEF upkeepOnlyVars, renewalVars, upgradeVars, rewardsOnlyVars, progressVars, questVars
<1>1. ASSUME NEW g \in Goods, Reprice(g) \/ EnableOffer(g) PROVE Typed'
  BY <1>1 DEF Reprice, EnableOffer, Typed, storeVars
<1>2. ASSUME NEW u \in Buyers, NEW op \in Orders, NEW g \in Goods, NEW quote \in 1 .. catalog[g]
      PROVE  Purchase(u, op, g, quote) \/ (\E to \in Users : Gift(u, op, g, quote, to)) => Typed'
  <2>1. u \in Users /\ quote \in Nat
    BY CommerceAssumption DEF Typed, CommerceAssumption
  <2> QED BY <2>1, PurchaseTyped, GiftTyped
<1>3. CASE \E u \in Addressees, delivery \in Deliveries, item \in Goods \cup {None} : Deliver(u, delivery, item)
  BY <1>3, TypedSame DEF Deliver, bookVars, storeVars, Typed
<1>4. ASSUME NEW u, NEW m, Preview(u, m) \/ Delete(u, m) \/ CloseMail(u) PROVE Typed'
  BY <1>4, TypedSame DEF Preview, Delete, CloseMail, bookVars, storeVars, Typed
<1>5. ASSUME NEW u, NEW m, Claim(u, m) PROVE Typed'
  <2>1. allocated' \in Nat
    BY <1>5 DEF Claim, Insert, NextInstance, Typed
  <2> QED BY <1>5, <2>1, TypedSame DEF Claim, bookVars
<1> QED BY <1>1, <1>2, <1>3, <1>4, <1>5 DEF CommerceNext

LEMMA RenewTyped ==
    ASSUME Typed, NEW i, Renew(i), UNCHANGED <<commerceVars, rewardsOnlyVars>>
    PROVE  Typed'
<1> DEFINE r == [operation |-> renewal_quote.operation, paid |-> renewal_quote.offer.record]
<1>1. renewal_quote.offer.record = renewal_record /\ r.paid = renewal_record
  BY DEF Renew, Unchanged
<1>2. renewal_receipts' = renewal_receipts \cup {r}
  BY DEF Renew
<1> HIDE DEF r
<1>3. IsFiniteSet(renewal_receipts') /\ \A s \in renewal_receipts' : s.paid \in Nat
  BY <1>1, <1>2, FS_AddElement DEF Typed
<1>4. wallet' \in [Users -> [Currencies -> Nat]]
  BY <1>1, DebitTyped, GearAssumption DEF Renew, Typed, Currencies, GearAssumption
<1> QED BY <1>3, <1>4 DEF Typed, Renew, commerceVars, upgradeVars, rewardsOnlyVars, progressVars, questVars

LEMMA AttemptTyped ==
    ASSUME Typed, NEW i, NEW success, Attempt(i, success), UNCHANGED <<commerceVars, rewardsOnlyVars>>
    PROVE  Typed'
<1>1. wallet[Keeper]["gold"] >= 1 /\ wallet' = [wallet EXCEPT ![Keeper]["gold"] = @ - 1]
  BY DEF Attempt, Afforded
<1>2. wallet' \in [Users -> [Currencies -> Nat]]
  BY <1>1, DebitTyped, GearAssumption DEF Debit, Typed, Currencies, GearAssumption
<1> QED BY <1>2 DEF Typed, Attempt, commerceVars, renewalVars, rewardsOnlyVars, progressVars, questVars

LEMMA GameSame ==
    ASSUME Game \/ Dress
    PROVE  UNCHANGED <<wallet, allocated>>
BY DEF Game, Dress, Move, StartBattle, EndBattle, Equip, Unequip, Replace, storeVars

LEMMA LeaseTyped ==
    ASSUME Typed, AtLeases, UNCHANGED <<commerceVars, rewardsOnlyVars>>
    PROVE  Typed'
<1> USE DEF commerceVars, rewardsOnlyVars, progressVars, questVars, bookVars
<1>1. CASE RecordRenewal
  BY <1>1 DEF RecordRenewal, Typed, storeVars, upgradeVars
<1>2. CASE QuoteRenewal \/ ExpireRenewal \/ Tick \/ Publish \/ Disconnect
  BY <1>2, TypedSame DEF QuoteRenewal, ExpireRenewal, Tick, Publish, Disconnect, storeVars, renewalVars, upgradeVars, Typed
<1>3. CASE (\E days \in Days : EnableRenewal(days)) \/ (\E enabled \in BOOLEAN : ConfigureUpgrades(enabled))
  BY <1>3, TypedSame DEF EnableRenewal, ConfigureUpgrades, storeVars, renewalVars, upgradeVars, Typed
<1>4. CASE UNCHANGED upkeepOnlyVars /\ (Game \/ Dress)
  BY <1>4, TypedSame, GameSame DEF upkeepOnlyVars, renewalVars, upgradeVars, Typed
<1> QED BY <1>1, <1>2, <1>3, <1>4, RenewTyped, AttemptTyped DEF AtLeases, LeaseNext

\* At the desks where things are used up no money moves.
LEMMA UseSame ==
    ASSUME AtRepairs \/ (UNCHANGED upkeepOnlyVars /\ (AtTalismans \/ AtPotions))
    PROVE  UNCHANGED <<wallet, allocated, renewal_record, renewal_receipts, upgrade_receipts>>
<1> USE DEF storeVars, renewalVars, upgradeVars, upkeepOnlyVars
<1>1. ASSUME NEW i, NEW kind, NEW seq, NEW seen, AnnounceUse(i, kind, seq, seen) \/ Confirm(i) \/ ForgetUse(i)
      PROVE  UNCHANGED <<wallet, allocated>>
  BY <1>1 DEF AnnounceUse, Confirm, ForgetUse, Replace
<1>2. ASSUME NEW i, NEW seq, Announce(i) \/ Consume(i, seq)
      PROVE  UNCHANGED <<wallet, allocated>>
  BY <1>2 DEF Announce, Consume
<1>3. CASE AtTalismans /\ UNCHANGED upkeepOnlyVars
  BY <1>1, <1>3, GameSame DEF AtTalismans, TalismanNext
<1>4. CASE AtPotions /\ UNCHANGED upkeepOnlyVars
  BY <1>2, <1>4, GameSame DEF AtPotions, PotionNext
<1>5. CASE RepairNext \/ Disconnect
  BY <1>5 DEF RepairNext, ExpireRepair, Repair, ImportRules, QuoteRepair, Disconnect
<1>6. CASE UNCHANGED upkeepOnlyVars /\ (Game \/ Dress \/ Used)
  BY <1>1, <1>6, GameSame DEF Used
<1> QED BY <1>3, <1>4, <1>5, <1>6 DEF AtRepairs

LEMMA UseTyped ==
    ASSUME Typed, AtRepairs \/ (UNCHANGED upkeepOnlyVars /\ (AtTalismans \/ AtPotions)),
           UNCHANGED <<commerceVars, rewardsOnlyVars>>
    PROVE  Typed'
BY UseSame, TypedSame DEF Typed, bookVars, commerceVars, rewardsOnlyVars, progressVars, questVars

-----------------------------------------------------------------------------
(* A row of the task list                                                  *)

LEMMA RowIs ==
    ASSUME NEW p \in Rows
    PROVE  p # None
<1>1. p \in [state : Nat, baseline : Nat, count : Nat, rule : Nat \cup {None}]
  BY DEF Rows
<1> QED BY <1>1, RewardsAssumption DEF RewardsAssumption

\* One attribute of it changes.
LEMMA Restated ==
    ASSUME NEW p \in Rows, NEW s \in 1 .. 4
    PROVE  /\ [p EXCEPT !.state = s] \in Rows /\ [p EXCEPT !.state = s].state = s
           /\ [p EXCEPT !.state = s].rule = p.rule /\ [p EXCEPT !.state = s].count = p.count
           /\ [p EXCEPT !.state = s].baseline = p.baseline
BY DEF Rows

LEMMA Recounted ==
    ASSUME NEW p \in Rows, NEW n \in Nat
    PROVE  /\ [p EXCEPT !.count = n] \in Rows /\ [p EXCEPT !.count = n].count = n
           /\ [p EXCEPT !.count = n].rule = p.rule /\ [p EXCEPT !.count = n].state = p.state
           /\ [p EXCEPT !.count = n].baseline = p.baseline
BY DEF Rows

LEMMA Reruled ==
    ASSUME NEW p \in Rows
    PROVE  /\ [p EXCEPT !.rule = None] \in Rows /\ [p EXCEPT !.rule = None].count = p.count
           /\ [p EXCEPT !.rule = None].state = p.state /\ [p EXCEPT !.rule = None].baseline = p.baseline
BY DEF Rows

\* A task that is being worked on has a row.
LEMMA StateIs ==
    ASSUME Typed, NEW q \in DOMAIN Tasks
    PROVE  /\ State(q) \in 1 .. 4
           /\ State(q) # 1 => progress[q] \in Rows /\ progress[q] # None /\ State(q) = progress[q].state
BY DEF State, Typed, Rows

\* A battle that a task counts: its number grows at most by one, and what is
\* needed ends it.
LEMMA CountedIs ==
    ASSUME Typed, NEW q \in DOMAIN Tasks, Counts(q), NEW outcome
    PROVE  LET p == progress[q]
               new == Counted(q, outcome)
           IN  /\ p \in Rows /\ p.state = 2 /\ p.rule \in Nat
               /\ new \in Rows /\ new.rule = p.rule /\ new.baseline = p.baseline
               /\ new.count <= p.count + (IF outcome = "win" THEN 1 ELSE 0)
               /\ \/ new.state = 2
                  \/ new.state = 4 /\ new.count >= Tasks[q].needed
<1> DEFINE p == progress[q]
           m == Min({p.count + 1, Tasks[q].needed})
           n == IF outcome = "win" THEN m ELSE p.count
           s == IF n >= Tasks[q].needed THEN 4 ELSE 2
           z == [p EXCEPT !.count = n]
<1>1. p \in Rows /\ p.state = 2 /\ p.rule \in Nat
  BY StateIs DEF Counts, Rows
<1>2. Tasks[q].needed \in Nat /\ p.count \in Nat
  BY <1>1, RewardsAssumption DEF RewardsAssumption, Rows
<1>3. m \in Nat /\ m <= p.count + 1
  <2>1. \E x \in {p.count + 1, Tasks[q].needed} : \A y \in {p.count + 1, Tasks[q].needed} : x <= y
    BY <1>2
  <2>2. m \in {p.count + 1, Tasks[q].needed} /\ \A y \in {p.count + 1, Tasks[q].needed} : m <= y
    BY <2>1 DEF Min
  <2> QED BY <1>2, <2>2
<1>4. n \in Nat /\ n <= p.count + (IF outcome = "win" THEN 1 ELSE 0) /\ s \in 1 .. 4
  BY <1>2, <1>3
<1>5. Counted(q, outcome) = [z EXCEPT !.state = s]
  <2> HIDE DEF n
  <2>1. [p EXCEPT !.count = n, !.state = s] = [[p EXCEPT !.count = n] EXCEPT !.state = s]
    BY <1>1 DEF Rows
  <2>2. Counted(q, outcome) = [p EXCEPT !.count = n, !.state = s]
    BY DEF Counted, n
  <2> QED BY <2>1, <2>2
<1>6. s = 2 \/ (s = 4 /\ n >= Tasks[q].needed)
  OBVIOUS
<1> HIDE DEF m, n, s
<1>7. z \in Rows /\ z.count = n /\ z.rule = p.rule /\ z.baseline = p.baseline
  BY <1>1, <1>4, Recounted
<1> HIDE DEF z, p
<1>8. LET new == [z EXCEPT !.state = s]
      IN  new \in Rows /\ new.state = s /\ new.rule = z.rule /\ new.count = z.count /\ new.baseline = z.baseline
  BY <1>4, <1>7, Restated
<1> QED BY <1>1, <1>4, <1>5, <1>6, <1>7, <1>8 DEF p

LEMMA DroppedIs ==
    ASSUME Typed, NEW q \in DOMAIN Tasks, State(q) = 2
    PROVE  Dropped(q) \in Rows /\ Dropped(q).state = 1
<1> DEFINE p == progress[q]
           y == [p EXCEPT !.state = 1]
           z == [y EXCEPT !.count = 0]
<1>1. p \in Rows
  BY StateIs
<1>2. Dropped(q) = [z EXCEPT !.rule = None]
  <2>1. [p EXCEPT !.state = 1, !.count = 0, !.rule = None] = [[[p EXCEPT !.state = 1] EXCEPT !.count = 0] EXCEPT !.rule = None]
    BY <1>1 DEF Rows
  <2> QED BY <2>1 DEF Dropped
<1> HIDE DEF p
<1>3. y \in Rows /\ y.state = 1
  <2>1. 1 \in 1 .. 4
    OBVIOUS
  <2> QED BY <1>1, <2>1, Restated
<1> HIDE DEF y
<1>4. z \in Rows /\ z.state = 1
  BY <1>3, Recounted
<1> HIDE DEF z
<1> QED BY <1>2, <1>4, Reruled

-----------------------------------------------------------------------------
(* Rewards for several tasks at once                                       *)

Rank(q, done) == Cardinality({r \in done : r <= q})
Payout(q, done) == [task |-> q, instance |-> allocated + Rank(q, done), gold |-> Reward(q)]

\* Each task has a place of its own among those that are done.
LEMMA RankIs ==
    ASSUME NEW done, done \subseteq DOMAIN Tasks
    PROVE  /\ IsFiniteSet(done)
           /\ \A q \in done : Rank(q, done) \in 1 .. Cardinality(done)
           /\ \A q, r \in done : Rank(q, done) = Rank(r, done) => q = r
<1>1. IsFiniteSet(done) /\ done \subseteq Nat
  BY FS_Subset, RewardsAssumption DEF RewardsAssumption
<1>2. ASSUME NEW q \in done
      PROVE  /\ IsFiniteSet({r \in done : r <= q}) /\ Rank(q, done) \in 1 .. Cardinality(done)
  <2> DEFINE T == {r \in done : r <= q}
  <2>1. IsFiniteSet(T) /\ Cardinality(T) <= Cardinality(done)
    BY <1>1, FS_Subset
  <2>2. q \in T
    BY <1>1
  <2>3. Cardinality(T) \in Nat /\ Cardinality(done) \in Nat /\ Cardinality(T) # 0
    BY <1>1, <2>1, <2>2, FS_CardinalityType, FS_EmptySet
  <2> QED BY <2>1, <2>3 DEF Rank
<1>3. ASSUME NEW q \in done, NEW r \in done, q < r
      PROVE  Rank(q, done) # Rank(r, done)
  <2> DEFINE T == {x \in done : x <= q}
             R == {x \in done : x <= r}
  <2>1. T \subseteq R /\ r \in R /\ r \notin T
    BY <1>1, <1>3
  <2>2. IsFiniteSet(R)
    BY <1>2
  <2>3. Cardinality(T) # Cardinality(R)
    BY <2>1, <2>2, FS_Subset
  <2> QED BY <2>3 DEF Rank
<1>4. ASSUME NEW q \in done, NEW r \in done, Rank(q, done) = Rank(r, done)
      PROVE  q = r
  <2>1. q \in Nat /\ r \in Nat
    BY <1>1
  <2> QED BY <1>3, <1>4, <2>1
<1> QED BY <1>1, <1>2, <1>4

\* What a function gives for a finite set.
LEMMA ImageFinite ==
    ASSUME NEW S, IsFiniteSet(S), NEW f, DOMAIN f = S
    PROVE  /\ IsFiniteSet({f[x] : x \in S}) /\ Cardinality({f[x] : x \in S}) <= Cardinality(S)
           /\ (\A x, y \in S : f[x] = f[y] => x = y) => Cardinality({f[x] : x \in S}) = Cardinality(S)
<1> DEFINE T == {f[x] : x \in S}
           g == [x \in S |-> f[x]]
<1>1. g \in Surjection(S, T)
  BY DEF Surjection
<1>2. IsFiniteSet(T) /\ Cardinality(T) <= Cardinality(S) /\ (Cardinality(T) = Cardinality(S) <=> g \in Injection(S, T))
  BY <1>1, FS_Surjection
<1>3. (\A x, y \in S : f[x] = f[y] => x = y) => g \in Injection(S, T)
  BY DEF Injection, IsInjective
<1> QED BY <1>2, <1>3

LEMMA GrantIs ==
    ASSUME NEW done, GrantAll(done)
    PROVE  /\ rewarded' = rewarded \cup {Payout(q, done) : q \in done}
           /\ allocated' = allocated + Cardinality(done)
           /\ Credit(Keeper, "gold", SumFunction([q \in done |-> Reward(q)]))
BY DEF GrantAll, Payout, Rank

LEMMA GrantTyped ==
    ASSUME Typed, NEW done, done \subseteq DOMAIN Tasks, \A q \in done : Reward(q) \in Nat, GrantAll(done)
    PROVE  /\ allocated' \in Nat /\ wallet' \in [Users -> [Currencies -> Nat]]
           /\ rewarded' \subseteq Payouts /\ IsFiniteSet(rewarded')
<1> DEFINE pay == [q \in done |-> Payout(q, done)]
           new == {pay[q] : q \in done}
<1>1. rewarded' = rewarded \cup new /\ IsFiniteSet(done)
  <2>1. new = {Payout(q, done) : q \in done}
    OBVIOUS
  <2>2. rewarded' = rewarded \cup {Payout(q, done) : q \in done}
    BY GrantIs
  <2>3. IsFiniteSet(done)
    BY RankIs
  <2> HIDE DEF new
  <2> QED BY <2>1, <2>2, <2>3
<1>2. DOMAIN pay = done
  OBVIOUS
<1>3. ASSUME NEW q \in done PROVE Payout(q, done) \in Payouts
  <2>1. Rank(q, done) \in Nat
    BY RankIs
  <2>2. allocated + Rank(q, done) \in Nat /\ Reward(q) \in Nat /\ q \in DOMAIN Tasks
    BY <2>1 DEF Typed
  <2> HIDE DEF pay, new
  <2> QED BY <2>2 DEF Payout, Payouts
<1>4. new \subseteq Payouts
  BY <1>3
<1>9. IsFiniteSet(new)
  <2> HIDE DEF pay
  <2> QED BY <1>1, <1>2, ImageFinite
<1>5. Cardinality(done) \in Nat
  BY <1>1, FS_CardinalityType
<1> DEFINE due == [q \in done |-> Reward(q)]
<1>6. SumFunction(due) \in Nat
  <2>1. \A q \in done : due[q] \in Nat
    OBVIOUS
  <2>2. DOMAIN due = done
    OBVIOUS
  <2> HIDE DEF due
  <2> QED BY <1>1, <2>1, <2>2, SumNat DEF SumFunction
<1>7. Credit(Keeper, "gold", SumFunction(due))
  BY GrantIs
<1>8. wallet' \in [Users -> [Currencies -> Nat]]
  <2> HIDE DEF due
  <2> QED BY <1>6, <1>7, CreditTyped, GearAssumption DEF Typed, Currencies, GearAssumption
<1> HIDE DEF new
<1>10. rewarded' \subseteq Payouts /\ IsFiniteSet(rewarded')
  BY <1>1, <1>4, <1>9, FS_Union DEF Typed
<1>11. allocated' = allocated + Cardinality(done)
  BY GrantIs
<1>12. allocated' \in Nat
  BY <1>5, <1>11 DEF Typed
<1> QED BY <1>8, <1>10, <1>12

\* A task whose reward is due has a rule.
LEMMA DueIs ==
    ASSUME Typed, NEW q \in DOMAIN Tasks, State(q) \in {2, 4}, progress[q].rule # None
    PROVE  Reward(q) \in Nat /\ progress[q] \in Rows
BY StateIs DEF Reward, Rows

LEMMA SettleTyped ==
    ASSUME Typed, NEW outcome, Settle(outcome), UNCHANGED <<commerceVars, upkeepOnlyVars>>
    PROVE  Typed'
<1>1. plays' \in Nat
  BY DEF Settle, Typed
<1>2. progress' = [q \in DOMAIN Tasks |-> IF Counts(q) THEN Counted(q, outcome) ELSE progress[q]]
  BY DEF Settle
<1>3. \A q \in DOMAIN Tasks : Counts(q) => Counted(q, outcome) \in Rows
  BY CountedIs
<1>4. progress' \in [DOMAIN Tasks -> Rows \cup {None}]
  BY <1>2, <1>3 DEF Typed
<1> QED BY <1>1, <1>4 DEF Typed, Settle, storeVars, commerceVars, upkeepOnlyVars, renewalVars, upgradeVars

LEMMA AcceptTyped ==
    ASSUME Typed, NEW q \in DOMAIN Tasks, Accept(q) \/ Cancel(q), UNCHANGED <<commerceVars, upkeepOnlyVars>>
    PROVE  Typed'
<1> DEFINE row == [state |-> 2, baseline |-> plays, count |-> 0, rule |-> rules[q]]
<1>1. row \in Rows
  BY DEF Typed, Rows
<1>2. progress' \in [DOMAIN Tasks -> Rows \cup {None}]
  <2>1. CASE Accept(q)
    <3>1. progress' = [progress EXCEPT ![q] = row]
      BY <2>1 DEF Accept
    <3> HIDE DEF row
    <3> QED BY <1>1, <3>1 DEF Typed
  <2>2. CASE Cancel(q)
    BY <2>2, DroppedIs DEF Cancel, Typed
  <2> QED BY <2>1, <2>2
<1> QED BY <1>2 DEF Typed, Accept, Cancel, storeVars, progressVars, commerceVars, upkeepOnlyVars, renewalVars, upgradeVars

LEMMA RefreshTyped ==
    ASSUME Typed, Refresh, UNCHANGED <<commerceVars, upkeepOnlyVars>>
    PROVE  Typed'
<1> DEFINE done == {q \in DOMAIN Tasks : Complete(q)}
           rows == [q \in DOMAIN Tasks |-> IF q \in done THEN [progress[q] EXCEPT !.state = 3] ELSE progress[q]]
<1>1. progress' = rows /\ (UNCHANGED <<storeVars, rewarded>> \/ GrantAll(done))
  BY DEF Refresh
<1>2. done \subseteq DOMAIN Tasks /\ \A q \in done : Reward(q) \in Nat /\ progress[q] \in Rows
  BY DueIs DEF Complete
<1>3. \A q \in done : [progress[q] EXCEPT !.state = 3] \in Rows
  <2>1. 3 \in 1 .. 4
    OBVIOUS
  <2> QED BY <1>2, <2>1, Restated
<1>4. progress' \in [DOMAIN Tasks -> Rows \cup {None}]
  BY <1>1, <1>3 DEF Typed
<1>5. /\ allocated' \in Nat /\ wallet' \in [Users -> [Currencies -> Nat]]
      /\ rewarded' \subseteq Payouts /\ IsFiniteSet(rewarded')
  <2> HIDE DEF done, rows
  <2>1. CASE UNCHANGED <<storeVars, rewarded>>
    BY <2>1 DEF Typed, storeVars
  <2>2. CASE GrantAll(done)
    BY <1>2, <2>2, GrantTyped
  <2> QED BY <1>1, <2>1, <2>2
<1> QED BY <1>4, <1>5 DEF Typed, Refresh, progressVars, commerceVars, upkeepOnlyVars, renewalVars, upgradeVars

LEMMA ClaimTaskTyped ==
    ASSUME Typed, NEW q \in DOMAIN Tasks, ClaimTask(q), UNCHANGED <<commerceVars, upkeepOnlyVars>>
    PROVE  Typed'
<1>1. Reward(q) \in Nat /\ progress[q] \in Rows
  BY DueIs DEF ClaimTask
<1>2. [progress[q] EXCEPT !.state = 3] \in Rows
  <2>1. 3 \in 1 .. 4
    OBVIOUS
  <2> QED BY <1>1, <2>1, Restated
<1>3. progress' \in [DOMAIN Tasks -> Rows \cup {None}]
  BY <1>2 DEF ClaimTask, Typed
<1>4. /\ allocated' \in Nat /\ wallet' \in [Users -> [Currencies -> Nat]]
      /\ rewarded' \subseteq Payouts /\ IsFiniteSet(rewarded')
  <2>1. GrantAll({q}) /\ {q} \subseteq DOMAIN Tasks /\ \A r \in {q} : Reward(r) \in Nat
    BY <1>1 DEF ClaimTask
  <2> QED BY <2>1, GrantTyped
<1> QED BY <1>3, <1>4 DEF Typed, ClaimTask, progressVars, commerceVars, upkeepOnlyVars, renewalVars, upgradeVars

\* What neither pays nor grants, nor touches a task.
LEMMA RewardsSame ==
    ASSUME \/ BattleNext \/ TrainingNext \/ Forget \/ List("daily") \/ CompleteTutorial
           \/ \E q : SetAvailable(q)
           \/ \E level, offered : Issue(level) \/ ConfigureTitle(level, offered)
    PROVE  UNCHANGED <<wallet, inventory, allocated, rules, progress, plays, rewarded>>
<1> USE DEF storeVars, progressVars, questVars
<1>1. CASE BattleNext
  BY <1>1 DEF BattleNext, Move, StartBattle, EndBattle
<1>2. CASE TrainingNext
  BY <1>2 DEF TrainingNext, Hour, StartTraining, ClaimTraining
<1>3. CASE Forget \/ List("daily") \/ CompleteTutorial
  BY <1>3 DEF Forget, List, CompleteTutorial
<1>4. CASE \E q : SetAvailable(q)
  BY <1>4 DEF SetAvailable
<1>5. CASE \E level, offered : Issue(level) \/ ConfigureTitle(level, offered)
  BY <1>5 DEF Issue, ConfigureTitle
<1> QED BY <1>1, <1>2, <1>3, <1>4, <1>5

LEMMA RewardsTyped ==
    ASSUME Typed, AtQuests \/ AtTitles \/ AtTraining, UNCHANGED <<commerceVars, upkeepOnlyVars>>
    PROVE  Typed'
<1> USE DEF commerceVars, upkeepOnlyVars, renewalVars, upgradeVars
<1>1. CASE \/ BattleNext \/ TrainingNext \/ Forget \/ List("daily") \/ CompleteTutorial
           \/ \E q : SetAvailable(q)
           \/ \E level, offered : Issue(level) \/ ConfigureTitle(level, offered)
  BY <1>1, RewardsSame, TypedSame DEF Typed, bookVars
<1>2. CASE SettleNext
  BY <1>2, SettleTyped DEF SettleNext
<1>3. CASE QuestNext
  BY <1>1, <1>3, AcceptTyped, RefreshTyped, ClaimTaskTyped DEF QuestNext
<1>4. CASE TitleNext
  <2>1. ASSUME NEW key, ClaimTitle(key) PROVE Typed'
    <3>1. allocated' \in Nat /\ UNCHANGED <<wallet, rules, progress, plays, rewarded>>
      BY <2>1 DEF ClaimTitle, Insert, NextInstance, Typed, progressVars, questVars
    <3> QED BY <3>1, TypedSame DEF bookVars
  <2> QED BY <1>1, <1>4, <2>1 DEF TitleNext
<1>5. CASE RulesNext
  <2>1. ASSUME NEW q \in Managed, NEW gold \in {None, 1, 2}, SetRule(q, gold) PROVE Typed'
    BY <2>1, RewardsAssumption DEF SetRule, Typed, RewardsAssumption, storeVars, progressVars
  <2> QED BY <1>1, <1>5, <2>1 DEF RulesNext
<1> QED BY <1>1, <1>2, <1>3, <1>4, <1>5 DEF AtQuests, AtTitles, AtTraining

LEMMA TypedInitially ==
    ASSUME Init
    PROVE  Typed
<1>1. allocated \in Nat
  BY LargestAllocated
<1>2. wallet \in [Users -> [Currencies -> Nat]]
  BY StoreAssumption DEF Init, StoreInit, StoreAssumption
<1>3. IsFiniteSet({})
  BY FS_EmptySet
<1>4. catalog \in [Goods -> Nat] /\ offers \in [Goods -> Nat] /\ shop_receipts = {} /\ gift_receipts = {}
  BY DEF Init, CommerceInit
<1>5. renewal_record \in Nat /\ renewal_receipts = {} /\ upgrade_receipts \in Nat
  BY DEF Init, UpkeepInit
<1>6. /\ rules \in [DOMAIN Tasks -> Nat \cup {None}] /\ progress \in [DOMAIN Tasks -> Rows \cup {None}]
      /\ plays \in Nat /\ rewarded = {}
  BY DEF Init, RewardsInit
<1> QED BY <1>1, <1>2, <1>3, <1>4, <1>5, <1>6 DEF Typed

LEMMA TypedStep ==
    ASSUME Typed, Mailed, [Next]_vars
    PROVE  Typed'
<1>1. CASE UNCHANGED vars
  BY <1>1, TypedSame DEF vars, storeVars, commerceVars, upkeepOnlyVars, renewalVars, upgradeVars,
     rewardsOnlyVars, progressVars, questVars, bookVars, Typed
<1>2. CASE Next
  BY <1>2, CommerceTyped, LeaseTyped, UseTyped, RewardsTyped DEF Next
<1> QED BY <1>1, <1>2

-----------------------------------------------------------------------------
(* Items and what they were given for                                      *)

GoodsGrants(owned) ==
    {[uid |-> r.uid, instance |-> r.instance, item |-> Fresh("goods", r.key)] : r \in owned}
Chosen == {t \in TitleLevels : entitlements[t] # None /\ entitlements[t].instance # None}
TitleGrants ==
    {[uid |-> Keeper, instance |-> entitlements[t].instance, item |-> Fresh("title", t)] : t \in Chosen}
TaskGrant(r) == [uid |-> Keeper, instance |-> r.instance, item |-> Fresh("task", r.task)]
TaskGrants == {TaskGrant(r) : r \in rewarded}

LEMMA GrantedIs == Granted = GoodsGrants(Bought \cup Unpacked) \cup TitleGrants \cup TaskGrants
BY DEF Granted, GoodsGrants, TitleGrants, Chosen, TaskGrants, TaskGrant

LEMMA GrantedNext == Granted' = GoodsGrants(Bought \cup Unpacked)' \cup TitleGrants' \cup TaskGrants'
BY DEF Granted, GoodsGrants, TitleGrants, Chosen, TaskGrants, TaskGrant

Claimed == {m \in DOMAIN mailbox : mailbox[m].claimed # None}
Receipts == Cardinality(shop_receipts) + Cardinality(Claimed) + Cardinality(rewarded)

Grant(u, i, item) == [uid |-> u, instance |-> i, item |-> item]

\* Where items are used up, and nobody is given one.
UseDesks == {"leases", "repairs", "talismans", "potions"}

\* What ItemsAccounted says, item by item: one that was not there at first
\* has its receipt, and a receipt its item; numbers are below those to come.
Accounted ==
    /\ \A u \in Users : DOMAIN inventory[u] \subseteq 1 .. allocated
    /\ DOMAIN First \subseteq 1 .. allocated
    /\ \A u \in Users, i \in Nat :
           i \in DOMAIN inventory[u] => \/ u = Keeper /\ i \in DOMAIN First
                                        \/ Grant(u, i, inventory[u][i]) \in Granted
    /\ \A g \in Granted :
           /\ g.uid \in Users /\ g = Grant(g.uid, g.instance, g.item)
           /\ g.instance \in DOMAIN inventory[g.uid] /\ g.item = inventory[g.uid][g.instance]
           /\ ~(g.uid = Keeper /\ g.instance \in DOMAIN First)
    /\ \A g, h \in Granted : g.instance = h.instance => g = h
    /\ IsFiniteSet(Granted) /\ Receipts <= Cardinality(Granted)
    /\ \A u \in Users : Cardinality(DOMAIN inventory[u]) <= Capacity
    /\ desk \in UseDesks => Granted = {}

\* Items are given out for the grants in G, one each; nothing else changes.
Given(G) ==
    /\ IsFiniteSet(G) /\ Granted' = Granted \cup G
    /\ allocated' \in Nat /\ allocated <= allocated'
    /\ \A g \in G : /\ g.uid \in Users /\ g = Grant(g.uid, g.instance, g.item)
                    /\ g.instance \in allocated + 1 .. allocated'
                    /\ inventory'[g.uid][g.instance] = g.item
    /\ \A g, h \in G : g.instance = h.instance => g = h
    /\ \A u \in Users :
           /\ DOMAIN inventory'[u] = DOMAIN inventory[u] \cup {g.instance : g \in {h \in G : h.uid = u}}
           /\ \A i \in DOMAIN inventory[u] : inventory'[u][i] = inventory[u][i]
           /\ Cardinality(DOMAIN inventory'[u]) <= Capacity
    /\ Receipts' <= Receipts + Cardinality(G)

\* Receipts and claimed mails can be counted.
LEMMA CountIs ==
    ASSUME NEW S, IsFiniteSet(S), NEW box \in Seq(Letters), NEW R, IsFiniteSet(R)
    PROVE  LET C == {m \in DOMAIN box : box[m].claimed # None}
           IN  IsFiniteSet(C) /\ Cardinality(S) + Cardinality(C) + Cardinality(R) \in Nat
<1> DEFINE C == {m \in DOMAIN box : box[m].claimed # None}
<1>1. DOMAIN box = 1 .. Len(box) /\ Len(box) \in Nat
  OBVIOUS
<1>2. IsFiniteSet(DOMAIN box)
  BY <1>1, FS_Interval
<1>3. IsFiniteSet(C)
  BY <1>2, FS_Subset
<1>4. Cardinality(C) \in Nat /\ Cardinality(S) \in Nat /\ Cardinality(R) \in Nat
  BY <1>3, FS_CardinalityType
<1> QED BY <1>3, <1>4

LEMMA GivenKeeps ==
    ASSUME Typed, Mailed, Typed', Mailed', Accounted, NEW G, Given(G), desk \notin UseDesks, UNCHANGED desk
    PROVE  Accounted'
<1>1. allocated \in Nat /\ allocated' \in Nat /\ allocated <= allocated'
  BY DEF Typed, Given
<1>2. First' = First
  BY DEF First, Kinds
<1>3. \A u \in Users : DOMAIN inventory'[u] \subseteq 1 .. allocated'
  <2> SUFFICES ASSUME NEW u \in Users, NEW i \in DOMAIN inventory'[u] PROVE i \in 1 .. allocated'
    OBVIOUS
  <2>1. CASE i \in DOMAIN inventory[u]
    BY <1>1, <2>1 DEF Accounted
  <2>2. CASE i \notin DOMAIN inventory[u]
    <3>1. PICK g \in G : i = g.instance
      BY <2>2 DEF Given
    <3> QED BY <1>1, <3>1 DEF Given
  <2> QED BY <2>1, <2>2
<1>4. DOMAIN First' \subseteq 1 .. allocated'
  BY <1>1, <1>2 DEF Accounted
<1>5. ASSUME NEW u \in Users, NEW i \in Nat, i \in DOMAIN inventory'[u], ~(u = Keeper /\ i \in DOMAIN First)
      PROVE  Grant(u, i, inventory'[u][i]) \in Granted'
  <2>1. CASE i \in DOMAIN inventory[u]
    <3>1. inventory'[u][i] = inventory[u][i]
      BY <2>1 DEF Given
    <3>2. Grant(u, i, inventory[u][i]) \in Granted
      BY <1>5, <2>1 DEF Accounted
    <3> QED BY <3>1, <3>2 DEF Given
  <2>2. CASE i \notin DOMAIN inventory[u]
    <3>1. PICK g \in G : i = g.instance /\ g.uid = u
      BY <1>5, <2>2 DEF Given
    <3>2. g = Grant(u, i, inventory'[u][i])
      BY <3>1 DEF Given
    <3> QED BY <3>1, <3>2 DEF Given
  <2> QED BY <2>1, <2>2
<1>6. ASSUME NEW g \in Granted'
      PROVE  /\ g.uid \in Users /\ g = Grant(g.uid, g.instance, g.item)
             /\ g.instance \in DOMAIN inventory'[g.uid] /\ g.item = inventory'[g.uid][g.instance]
             /\ ~(g.uid = Keeper /\ g.instance \in DOMAIN First)
  <2>1. CASE g \in Granted
    BY <2>1 DEF Accounted, Given
  <2>2. CASE g \in G
    <3>1. /\ g.uid \in Users /\ g = Grant(g.uid, g.instance, g.item) /\ g.instance \in allocated + 1 .. allocated'
          /\ inventory'[g.uid][g.instance] = g.item
      BY <2>2 DEF Given
    <3>2. g.instance \notin DOMAIN First
      BY <1>1, <3>1 DEF Accounted
    <3> QED BY <2>2, <3>1, <3>2 DEF Given
  <2> QED BY <2>1, <2>2 DEF Given
<1>7. \A g \in Granted, h \in G : g.instance # h.instance
  <2> SUFFICES ASSUME NEW g \in Granted, NEW h \in G, g.instance = h.instance PROVE FALSE
    OBVIOUS
  <2>1. g.instance \in 1 .. allocated
    BY DEF Accounted
  <2>2. h.instance \in allocated + 1 .. allocated'
    BY DEF Given
  <2> QED BY <1>1, <2>1, <2>2
<1>8. \A g, h \in Granted' : g.instance = h.instance => g = h
  BY <1>7 DEF Accounted, Given
<1>9. IsFiniteSet(Granted') /\ Cardinality(Granted') = Cardinality(Granted) + Cardinality(G)
  <2>1. Granted \cap G = {}
    BY <1>7
  <2>2. IsFiniteSet(Granted) /\ IsFiniteSet(G) /\ Granted' = Granted \cup G
    BY DEF Accounted, Given
  <2>3. Cardinality(Granted \cap G) = 0
    BY <2>1, FS_EmptySet
  <2>4. Cardinality(Granted) \in Nat /\ Cardinality(G) \in Nat
    BY <2>2, FS_CardinalityType
  <2>5. IsFiniteSet(Granted \cup G)
    BY <2>2, FS_Union
  <2>6. Cardinality(Granted \cup G) = Cardinality(Granted) + Cardinality(G) - Cardinality(Granted \cap G)
    BY <2>2, FS_Union
  <2> QED BY <2>2, <2>3, <2>4, <2>5, <2>6
<1>10. Receipts' <= Cardinality(Granted')
  <2>1. Cardinality(Granted) \in Nat /\ Cardinality(G) \in Nat /\ Receipts \in Nat /\ Receipts' \in Nat
    <3>1. Receipts \in Nat
      BY CountIs DEF Receipts, Claimed, Typed, Mailed
    <3>2. Receipts' \in Nat
      BY CountIs DEF Receipts, Claimed, Typed, Mailed
    <3> QED BY <3>1, <3>2, FS_CardinalityType DEF Accounted, Given
  <2> QED BY <1>9, <2>1 DEF Accounted, Given
<1>11. \A u \in Users : Cardinality(DOMAIN inventory'[u]) <= Capacity
  BY DEF Given
<1> QED BY <1>2, <1>3, <1>4, <1>5, <1>6, <1>8, <1>9, <1>10, <1>11 DEF Accounted

LEMMA AccountedSame ==
    ASSUME Accounted, UNCHANGED <<inventory, allocated, desk>>, Granted' = Granted, Receipts' = Receipts
    PROVE  Accounted'
<1>1. First' = First
  BY DEF First, Kinds
<1> QED BY <1>1 DEF Accounted

\* One item is given.
LEMMA InsertGiven ==
    ASSUME Typed, Accounted, DOMAIN inventory = Users, StoreAssumption, NEW u \in Users, NEW item, Insert(u, item),
           Granted' = Granted \cup {Grant(u, allocated + 1, item)}, Receipts' <= Receipts + 1
    PROVE  \E G : Given(G)
<1> DEFINE n == allocated + 1
           g == Grant(u, n, item)
           G == {g}
<1>1. allocated' = n /\ allocated \in Nat
  BY DEF Insert, NextInstance, Typed
<1>2. /\ DOMAIN inventory'[u] = DOMAIN inventory[u] \cup {n} /\ inventory'[u][n] = item
      /\ \A i \in DOMAIN inventory[u] : inventory'[u][i] = inventory[u][i]
      /\ \A v \in Users : v # u => inventory'[v] = inventory[v]
  <2>1. inventory' = [inventory EXCEPT ![u] = Adding(@, [i \in {n} |-> item])]
    BY DEF Insert, NextInstance
  <2>2. \A i \in DOMAIN inventory[u] : i # n
    BY <1>1 DEF Accounted
  <2> QED BY <2>1, <2>2 DEF Adding
<1>3. IsFiniteSet(G) /\ Cardinality(G) = 1
  BY FS_Singleton
<1>4. Cardinality(DOMAIN inventory'[u]) <= Capacity
  <2>1. IsFiniteSet(DOMAIN inventory[u])
    <3>1. IsFiniteSet(1 .. allocated)
      BY <1>1, FS_Interval
    <3> QED BY <3>1, FS_Subset DEF Accounted
  <2>2. Cardinality(DOMAIN inventory[u]) < Capacity /\ Cardinality(DOMAIN inventory[u]) \in Nat
    BY <2>1, FS_CardinalityType DEF Insert, Full, StoreAssumption
  <2>3. Cardinality(DOMAIN inventory'[u]) <= Cardinality(DOMAIN inventory[u]) + 1
    <3> DEFINE S == DOMAIN inventory[u]
    <3>1. Cardinality(S \cup {n}) = IF n \in S THEN Cardinality(S) ELSE Cardinality(S) + 1
      BY <2>1, FS_AddElement
    <3>2. DOMAIN inventory'[u] = S \cup {n}
      BY <1>2
    <3> HIDE DEF S
    <3> QED BY <2>2, <3>1, <3>2 DEF S
  <2>4. Cardinality(DOMAIN inventory'[u]) \in Nat
    BY <1>2, <2>1, FS_AddElement, FS_CardinalityType
  <2> QED BY <2>2, <2>3, <2>4 DEF StoreAssumption
<1>5. g.uid = u /\ g.instance = n /\ g.item = item
  BY DEF Grant
<1> HIDE DEF g
<1>6. \A v \in Users : DOMAIN inventory'[v] = DOMAIN inventory[v] \cup {h.instance : h \in {x \in G : x.uid = v}}
  BY <1>2, <1>5
<1>7. Granted' = Granted \cup G
  BY DEF g
<1>8. \A v \in Users : v # u => Cardinality(DOMAIN inventory'[v]) <= Capacity
  BY <1>2 DEF Accounted
<1>9. g = Grant(g.uid, g.instance, g.item)
  BY <1>5 DEF g
<1>10. \A h \in G : /\ h.uid \in Users /\ h = Grant(h.uid, h.instance, h.item)
                    /\ h.instance \in allocated + 1 .. allocated'
                    /\ inventory'[h.uid][h.instance] = h.item
  BY <1>1, <1>2, <1>5, <1>9
<1>11. \A h, k \in G : h.instance = k.instance => h = k
  OBVIOUS
<1>12. \A v \in Users : /\ \A i \in DOMAIN inventory[v] : inventory'[v][i] = inventory[v][i]
                        /\ Cardinality(DOMAIN inventory'[v]) <= Capacity
  BY <1>2, <1>4, <1>8
<1>13. Given(G)
  <2>1. allocated' \in Nat /\ allocated <= allocated'
    BY <1>1
  <2>2. Receipts' <= Receipts + Cardinality(G)
    BY <1>3
  <2> HIDE DEF G
  <2> QED BY <1>3, <1>6, <1>7, <1>10, <1>11, <1>12, <2>1, <2>2 DEF Given
<1> QED BY <1>13

-----------------------------------------------------------------------------
(* Purchases and mails                                                     *)

LEMMA OthersGranted ==
    ASSUME UNCHANGED <<entitlements, rewarded>>
    PROVE  TitleGrants' = TitleGrants /\ TaskGrants' = TaskGrants
BY DEF TitleGrants, Chosen, TaskGrants, TaskGrant

\* Mails that are posted, read or deleted, and are not claimed.
LEMMA MailsSame ==
    ASSUME Accounted, UNCHANGED <<inventory, allocated, desk, shop_receipts, entitlements, rewarded>>,
           \A n \in DOMAIN mailbox :
               /\ n \in DOMAIN mailbox' /\ mailbox'[n].to = mailbox[n].to /\ mailbox'[n].item = mailbox[n].item
               /\ mailbox'[n].claimed = mailbox[n].claimed,
           \A n \in DOMAIN mailbox' : n \notin DOMAIN mailbox => mailbox'[n].claimed = None
    PROVE  Accounted'
<1>1. Claimed' = Claimed
  BY DEF Claimed
<1>2. Unpacked' = Unpacked
  <2>1. Unpacked = {[uid |-> mailbox[m].to, instance |-> mailbox[m].claimed, key |-> mailbox[m].item] : m \in Claimed}
    BY DEF Unpacked, Claimed
  <2>2. Unpacked' = {[uid |-> mailbox'[m].to, instance |-> mailbox'[m].claimed, key |-> mailbox'[m].item] : m \in Claimed}
    BY <1>1 DEF Unpacked, Claimed
  <2>3. \A m \in Claimed : /\ mailbox'[m].to = mailbox[m].to /\ mailbox'[m].item = mailbox[m].item
                           /\ mailbox'[m].claimed = mailbox[m].claimed
    BY DEF Claimed
  <2> QED BY <2>1, <2>2, <2>3
<1>3. Bought' = Bought
  BY DEF Bought
<1>4. Granted' = Granted
  BY <1>2, <1>3, OthersGranted, GrantedIs, GrantedNext DEF GoodsGrants
<1>5. Receipts' = Receipts
  BY <1>1 DEF Receipts
<1> QED BY <1>4, <1>5, AccountedSame

LEMMA PurchaseAccounted ==
    ASSUME Typed, Mailed, Typed', Mailed', Accounted, DOMAIN inventory = Users,
           NEW u \in Users, NEW op, NEW g, NEW quote,
           Purchase(u, op, g, quote), desk \notin UseDesks, UNCHANGED <<desk, entitlements, rewarded>>
    PROVE  Accounted'
<1> DEFINE n == allocated + 1
           r == [uid |-> u, op |-> op, key |-> g, quote |-> quote, instance |-> n]
<1>1. /\ Insert(u, Fresh("goods", g)) /\ shop_receipts' = shop_receipts \cup {r} /\ UNCHANGED mailbox
  BY DEF Purchase, NextInstance, mailVars
<1>2. r.uid = u /\ r.instance = n /\ r.key = g
  OBVIOUS
<1>3. Granted' = Granted \cup {Grant(u, n, Fresh("goods", g))}
  <2>1. Unpacked' = Unpacked
    BY <1>1 DEF Unpacked
  <2>2. Bought' = Bought \cup {[uid |-> u, instance |-> n, key |-> g]}
    <3> HIDE DEF r
    <3> QED BY <1>1, <1>2 DEF Bought
  <2> DEFINE b == [uid |-> u, instance |-> n, key |-> g]
  <2>3. b.uid = u /\ b.instance = n /\ b.key = g
    OBVIOUS
  <2>4. GoodsGrants((Bought \cup {b}) \cup Unpacked) =
            GoodsGrants(Bought \cup Unpacked) \cup {Grant(u, n, Fresh("goods", g))}
    <3> HIDE DEF b
    <3> QED BY <2>3 DEF GoodsGrants, Grant
  <2>5. GoodsGrants(Bought \cup Unpacked)' = GoodsGrants((Bought \cup {b}) \cup Unpacked)
    BY <2>1, <2>2 DEF GoodsGrants
  <2> QED BY <2>4, <2>5, OthersGranted, GrantedIs, GrantedNext
<1>4. Receipts' <= Receipts + 1
  <2>1. Claimed' = Claimed
    BY <1>1 DEF Claimed
  <2>2. Cardinality(shop_receipts') <= Cardinality(shop_receipts) + 1
    <3> HIDE DEF r
    <3>1. Cardinality(shop_receipts) \in Nat
      BY FS_CardinalityType DEF Typed
    <3>2. Cardinality(shop_receipts \cup {r}) =
              IF r \in shop_receipts THEN Cardinality(shop_receipts) ELSE Cardinality(shop_receipts) + 1
      BY FS_AddElement DEF Typed
    <3> QED BY <1>1, <3>1, <3>2
  <2>3. Cardinality(shop_receipts') \in Nat /\ Cardinality(shop_receipts) \in Nat
        /\ Cardinality(Claimed) \in Nat /\ Cardinality(rewarded) \in Nat
    <3>1. IsFiniteSet(Claimed)
      BY CountIs DEF Claimed, Typed, Mailed
    <3> QED BY <3>1, FS_CardinalityType DEF Typed
  <2> QED BY <2>1, <2>2, <2>3 DEF Receipts
<1> HIDE DEF n
<1>5. \E G : Given(G)
  BY <1>1, <1>3, <1>4, InsertGiven, StoreAssumption DEF n
<1> QED BY <1>5, GivenKeeps

\* A mail is claimed for the first time.
LEMMA ClaimAccounted ==
    ASSUME Typed, Mailed, Typed', Mailed', Accounted, DOMAIN inventory = Users,
           NEW u \in Users, NEW m \in Mails(u), mailbox[m].claimed = None,
           Insert(u, Fresh("goods", mailbox[m].item)), MarkClaimed(m, NextInstance),
           desk \notin UseDesks, UNCHANGED <<desk, shop_receipts, entitlements, rewarded>>
    PROVE  Accounted'
<1> DEFINE n == allocated + 1
           item == mailbox[m].item
           b == [uid |-> u, instance |-> n, key |-> item]
           unpacked(x) == [uid |-> mailbox[x].to, instance |-> mailbox[x].claimed, key |-> mailbox[x].item]
           unpackedNext(x) == [uid |-> mailbox'[x].to, instance |-> mailbox'[x].claimed, key |-> mailbox'[x].item]
<1>1. m \in DOMAIN mailbox /\ mailbox[m].to = u /\ mailbox \in Seq(Letters) /\ allocated \in Nat
  BY DEF Mails, Mailed, Typed
<1>2. /\ DOMAIN mailbox' = DOMAIN mailbox
      /\ mailbox'[m].claimed = n /\ mailbox'[m].to = u /\ mailbox'[m].item = item
      /\ \A x \in DOMAIN mailbox : x # m => mailbox'[x] = mailbox[x]
  <2>1. mailbox' = [mailbox EXCEPT ![m].claimed = n]
    BY DEF MarkClaimed, NextInstance
  <2>2. mailbox[m] \in Letters
    BY <1>1
  <2> QED BY <1>1, <2>1, <2>2 DEF Letters
<1>3. n # None /\ n \in Nat
  BY <1>1, StoreAssumption DEF StoreAssumption
<1>4. Claimed' = Claimed \cup {m} /\ m \notin Claimed
  BY <1>1, <1>2, <1>3 DEF Claimed
<1> HIDE DEF n
<1>5. Unpacked = {unpacked(x) : x \in Claimed} /\ Unpacked' = {unpackedNext(x) : x \in Claimed'}
  BY DEF Unpacked, Claimed
<1>6. unpackedNext(m) = b /\ \A x \in Claimed : unpackedNext(x) = unpacked(x)
  BY <1>2, <1>4 DEF Claimed
<1>7. Unpacked' = Unpacked \cup {b}
  <2> HIDE DEF unpacked, unpackedNext, b
  <2> QED BY <1>4, <1>5, <1>6
<1>8. Granted' = Granted \cup {Grant(u, n, Fresh("goods", item))}
  <2>1. Bought' = Bought
    BY DEF Bought
  <2>2. b.uid = u /\ b.instance = n /\ b.key = item
    OBVIOUS
  <2>3. GoodsGrants(Bought \cup (Unpacked \cup {b})) =
            GoodsGrants(Bought \cup Unpacked) \cup {Grant(u, n, Fresh("goods", item))}
    <3> HIDE DEF b, item
    <3> QED BY <2>2 DEF GoodsGrants, Grant
  <2>4. GoodsGrants(Bought \cup Unpacked)' = GoodsGrants(Bought \cup (Unpacked \cup {b}))
    BY <1>7, <2>1 DEF GoodsGrants
  <2> QED BY <2>3, <2>4, OthersGranted, GrantedIs, GrantedNext
<1>9. Receipts' <= Receipts + 1
  <2>1. IsFiniteSet(Claimed)
    BY CountIs DEF Claimed, Typed, Mailed
  <2>2. Cardinality(Claimed') = Cardinality(Claimed) + 1
    BY <1>4, <2>1, FS_AddElement
  <2>3. Cardinality(shop_receipts) \in Nat /\ Cardinality(Claimed) \in Nat /\ Cardinality(rewarded) \in Nat
    BY <2>1, FS_CardinalityType DEF Typed
  <2> QED BY <2>2, <2>3 DEF Receipts
<1>10. \E G : Given(G)
  BY <1>8, <1>9, InsertGiven, StoreAssumption DEF n
<1> QED BY <1>10, GivenKeeps

LEMMA CommerceAccounted ==
    ASSUME Typed, Mailed, Typed', Mailed', Accounted, DOMAIN inventory = Users,
           CommerceNext, desk = "commerce", UNCHANGED <<desk, rewardsOnlyVars>>
    PROVE  Accounted'
<1>1. UNCHANGED <<entitlements, rewarded>> /\ desk \notin UseDesks
  BY DEF rewardsOnlyVars, titleVars, questVars, UseDesks
<1>2. CASE UNCHANGED <<inventory, allocated, shop_receipts, mailbox>>
  BY <1>1, <1>2, MailsSame
<1>3. ASSUME NEW g, Reprice(g) \/ EnableOffer(g) PROVE Accounted'
  BY <1>2, <1>3 DEF Reprice, EnableOffer, storeVars, mailVars
<1>4. ASSUME NEW u \in Buyers, NEW op, NEW g, NEW quote, Purchase(u, op, g, quote) PROVE Accounted'
  BY <1>1, <1>4, PurchaseAccounted, CommerceAssumption DEF CommerceAssumption
<1>5. ASSUME NEW u, NEW d, NEW item, Post(u, d, item), UNCHANGED <<inventory, allocated, shop_receipts>>
      PROVE  Accounted'
  <2> DEFINE letter == [to |-> u, delivery |-> d, item |-> item, claimed |-> None, deleted |-> FALSE]
  <2>1. mailbox' = Append(mailbox, letter) /\ letter.claimed = None /\ mailbox \in Seq(Letters)
    BY <1>5 DEF Post, Mailed
  <2> HIDE DEF letter
  <2>2. \A n \in DOMAIN mailbox : n \in DOMAIN mailbox' /\ mailbox'[n] = mailbox[n]
    BY <2>1
  <2>3. \A n \in DOMAIN mailbox' : n \notin DOMAIN mailbox => mailbox'[n].claimed = None
    BY <2>1
  <2> QED BY <1>1, <1>5, <2>2, <2>3, MailsSame
<1>6. ASSUME NEW u, NEW op, NEW g, NEW quote, NEW to, Gift(u, op, g, quote, to) PROVE Accounted'
  BY <1>5, <1>6 DEF Gift
<1>7. ASSUME NEW u, NEW d, NEW item, Deliver(u, d, item) PROVE Accounted'
  BY <1>5, <1>7 DEF Deliver, storeVars
<1>8. ASSUME NEW u, NEW m, Preview(u, m) \/ CloseMail(u) PROVE Accounted'
  BY <1>2, <1>8 DEF Preview, CloseMail, storeVars
<1>9. ASSUME NEW u, NEW m \in Mails(u), Delete(u, m) PROVE Accounted'
  <2>1. UNCHANGED <<inventory, allocated, shop_receipts>>
    BY <1>9 DEF Delete, storeVars
  <2>2. m \in DOMAIN mailbox /\ mailbox \in Seq(Letters)
    BY DEF Mails, Mailed
  <2>3. CASE UNCHANGED mailbox
    BY <1>2, <2>1, <2>3
  <2>4. CASE mailbox' = [mailbox EXCEPT ![m].deleted = TRUE]
    <3>1. \A n \in DOMAIN mailbox : mailbox[n] \in Letters
      BY <2>2
    <3>2. DOMAIN mailbox' = DOMAIN mailbox
      BY <2>4
    <3>3. \A n \in DOMAIN mailbox :
              /\ mailbox'[n].to = mailbox[n].to /\ mailbox'[n].item = mailbox[n].item
              /\ mailbox'[n].claimed = mailbox[n].claimed
      BY <2>2, <2>4, <3>1 DEF Letters
    <3> QED BY <1>1, <2>1, <3>2, <3>3, MailsSame
  <2> QED BY <1>9, <2>3, <2>4 DEF Delete
<1>10. ASSUME NEW u \in Users, NEW m \in Mails(u), Claim(u, m) PROVE Accounted'
  <2>1. UNCHANGED <<shop_receipts>>
    BY <1>10 DEF Claim
  <2>2. CASE UNCHANGED <<inventory, allocated, mailbox>>
    BY <1>2, <2>1, <2>2
  <2>3. CASE /\ mailbox[m].claimed = None /\ Insert(u, Fresh("goods", mailbox[m].item))
             /\ MarkClaimed(m, NextInstance)
    BY <1>1, <2>1, <2>3, ClaimAccounted
  <2> QED BY <1>10, <2>2, <2>3 DEF Claim
<1> QED BY <1>3, <1>4, <1>6, <1>7, <1>8, <1>9, <1>10 DEF CommerceNext

-----------------------------------------------------------------------------
(* Titles                                                                  *)

\* Of the subsets that a function gives for a finite set, one is smallest.
LEMMA SmallestOf ==
    ASSUME NEW S, IsFiniteSet(S), S # {}, NEW f \in [S -> SUBSET S]
    PROVE  \E x \in S : \A y \in S : f[y] \subseteq f[x] => f[y] = f[x]
<1> DEFINE Bad == {f[x] : x \in S}
<1>1. Bad \subseteq SUBSET S
  OBVIOUS
<1>2. Bad # {}
  OBVIOUS
<1>3. \E T \in Bad : \A U \in Bad : U \subseteq T => U = T
  <2> HIDE DEF Bad
  <2> QED BY <1>1, <1>2, Smallest
<1> QED BY <1>3

\* A finite set of numbers has a largest.
LEMMA MaxIs ==
    ASSUME NEW S, IsFiniteSet(S), S # {}
    PROVE  S \subseteq Int => Max(S) \in S /\ \A y \in S : y <= Max(S)
<1> DEFINE above == [x \in S |-> {y \in S : y > x}]
<1>1. PICK x \in S : \A y \in S : above[y] \subseteq above[x] => above[y] = above[x]
  <2>1. above \in [S -> SUBSET S]
    OBVIOUS
  <2> HIDE DEF above
  <2> QED BY <2>1, SmallestOf
<1>2. SUFFICES ASSUME S \subseteq Int
               PROVE  Max(S) \in S /\ \A y \in S : y <= Max(S)
  OBVIOUS
<1>3. ASSUME NEW y \in S, y > x PROVE FALSE
  <2>1. x \in Int /\ y \in Int
    BY <1>2
  <2>2. y \in above[x] /\ ~(y \in above[y])
    BY <1>3, <2>1
  <2>3. \A z \in S : z > y => z > x
    BY <1>2, <1>3
  <2>4. above[y] \subseteq above[x]
    BY <2>3
  <2>5. above[y] = above[x]
    BY <1>1, <2>4
  <2> HIDE DEF above
  <2> QED BY <2>2, <2>5
<1>4. \E z \in S : \A y \in S : z >= y
  BY <1>2, <1>3
<1> QED BY <1>4 DEF Max

Entitled == [offered : SUBSET Prizes, instance : Nat \cup {None}, chosen : Prizes \cup {0, None}]

\* A title waits, or something it offers was chosen and given; at most one
\* waits, and the profile shows it.
Titled ==
    /\ title \in Nat
    /\ title_rules \in [TitleLevels -> SUBSET Prizes]
    /\ entitlements \in [TitleLevels -> Entitled \cup {None}]
    /\ \A t \in TitleLevels : entitlements[t] # None =>
           /\ entitlements[t].chosen = None => entitlements[t].instance = None
           /\ entitlements[t].instance # None => entitlements[t].chosen \in entitlements[t].offered
    /\ \A t \in Pending : title = t

LEMMA TitledSame ==
    ASSUME Titled, UNCHANGED <<title, title_rules, entitlements>>
    PROVE  Titled'
BY DEF Titled, Pending

LEMMA IssueTitled ==
    ASSUME Titled, NEW level \in TitleLevels, IssueLocked(level), UNCHANGED title_rules
    PROVE  Titled' /\ TitleGrants' = TitleGrants
<1> DEFINE e == [offered |-> title_rules[level], instance |-> None,
                 chosen |-> IF title_rules[level] = {} THEN 0 ELSE None]
<1>1. e \in Entitled /\ e.instance = None
  BY DEF Entitled, Titled
<1>2. /\ entitlements[level] = None /\ Pending = {} /\ title' = level
      /\ entitlements' = [entitlements EXCEPT ![level] = e]
  BY DEF IssueLocked, Grantable
<1> HIDE DEF e
<1>3. /\ entitlements' \in [TitleLevels -> Entitled \cup {None}] /\ entitlements'[level] = e
      /\ \A t \in TitleLevels : t # level => entitlements'[t] = entitlements[t]
  BY <1>1, <1>2 DEF Titled
<1>4. \A t \in Pending' : t = level
  BY <1>2, <1>3 DEF Pending
<1>5. Chosen' = Chosen /\ level \notin Chosen
  BY <1>1, <1>2, <1>3 DEF Chosen
<1>6. TitleGrants' = TitleGrants
  BY <1>3, <1>5 DEF TitleGrants, Chosen
<1>7. level \in Nat
  BY RewardsAssumption DEF RewardsAssumption
<1> QED BY <1>1, <1>2, <1>3, <1>4, <1>6, <1>7 DEF Titled

LEMMA ChosenIs ==
    ASSUME Typed, Titled, NEW key \in Prizes, ClaimTitle(key)
    PROVE  /\ Titled'
           /\ TitleGrants' = TitleGrants \cup {Grant(Keeper, allocated + 1, Fresh("title", title_offer))}
<1> DEFINE l == title_offer
           n == allocated + 1
           e == entitlements[l]
           f == [[e EXCEPT !.chosen = key] EXCEPT !.instance = n]
<1> USE RewardsAssumption, StoreAssumption DEF RewardsAssumption, StoreAssumption
<1>1. /\ l \in TitleLevels /\ e \in Entitled /\ e.chosen = None /\ e.instance = None /\ key \in e.offered
  BY DEF ClaimTitle, Pending, Titled
<1>2. n \in Nat /\ n # None /\ key # None
  BY DEF Typed
<1>3. UNCHANGED <<title, title_rules>> /\ Choose(l, key, n)
  BY DEF ClaimTitle, NextInstance
<1>4. f \in Entitled /\ f.chosen = key /\ f.instance = n /\ f.offered = e.offered /\ f # None
  <2>1. [e EXCEPT !.chosen = key] \in Entitled
    BY <1>1 DEF Entitled
  <2> HIDE DEF n, e
  <2>2. f \in Entitled /\ f.chosen = key /\ f.instance = n /\ f.offered = e.offered
    BY <1>1, <1>2, <2>1 DEF Entitled
  <2> HIDE DEF f
  <2> QED BY <2>2 DEF Entitled
<1>5. entitlements' = [entitlements EXCEPT ![l] = f]
  <2>1. entitlements' = [entitlements EXCEPT ![l].chosen = key, ![l].instance = n]
    BY <1>3 DEF Choose
  <2> HIDE DEF n, l
  <2> QED BY <1>1, <2>1 DEF Titled, Entitled
<1> HIDE DEF f, n
<1>6. /\ entitlements' \in [TitleLevels -> Entitled \cup {None}] /\ entitlements'[l] = f
      /\ \A t \in TitleLevels : t # l => entitlements'[t] = entitlements[t]
  BY <1>1, <1>4, <1>5 DEF Titled
<1>7. Pending' \subseteq Pending
  BY <1>2, <1>4, <1>6 DEF Pending
<1>8. Titled'
  BY <1>1, <1>2, <1>3, <1>4, <1>6, <1>7 DEF Titled
<1>9. Chosen' = Chosen \cup {l} /\ l \notin Chosen
  BY <1>1, <1>2, <1>4, <1>6 DEF Chosen
<1> DEFINE grant(t) == Grant(Keeper, entitlements[t].instance, Fresh("title", t))
           grantNext(t) == Grant(Keeper, entitlements'[t].instance, Fresh("title", t))
<1>10. TitleGrants = {grant(t) : t \in Chosen} /\ TitleGrants' = {grantNext(t) : t \in Chosen'}
  BY DEF TitleGrants, Grant
<1>11. grantNext(l) = Grant(Keeper, n, Fresh("title", l)) /\ \A t \in Chosen : grantNext(t) = grant(t)
  BY <1>4, <1>6, <1>9 DEF Chosen
<1>12. TitleGrants' = TitleGrants \cup {grantNext(l)}
  <2> HIDE DEF grant, grantNext
  <2> QED BY <1>9, <1>10, <1>11
<1> QED BY <1>8, <1>11, <1>12 DEF n

\* The tasks that are rewarded do not raise the title over one that waits.
LEMMA RefreshTitled ==
    ASSUME Titled, Refresh
    PROVE  Titled'
<1> DEFINE done == {q \in DOMAIN Tasks : Complete(q)}
           S == {title} \cup {Tasks[q].title : q \in done}
<1>1. title' = Max(S) /\ UNCHANGED <<title_rules, entitlements>>
  BY DEF Refresh
<1>2. S \subseteq Nat /\ title \in S
  BY RewardsAssumption DEF RewardsAssumption, Titled
<1>3. IsFiniteSet(S)
  <2> DEFINE f == [q \in done |-> Tasks[q].title]
             T == {f[q] : q \in done}
  <2>1. T = {Tasks[q].title : q \in done}
    OBVIOUS
  <2>2. DOMAIN f = done /\ IsFiniteSet(done)
    BY FS_Subset, RewardsAssumption DEF RewardsAssumption
  <2>3. IsFiniteSet(T)
    <3> HIDE DEF f, done
    <3> QED BY <2>2, ImageFinite
  <2>4. S = T \cup {title}
    BY <2>1
  <2> HIDE DEF T, S
  <2> QED BY <2>3, <2>4, FS_AddElement
<1>4. Max(S) \in S /\ \A y \in S : y <= Max(S)
  <2>1. S \subseteq Int
    BY <1>2
  <2>2. S # {}
    OBVIOUS
  <2> HIDE DEF S
  <2> QED BY <1>3, <2>1, <2>2, MaxIs
<1>5. title' \in Nat
  BY <1>1, <1>2, <1>4
<1>6. Pending' = Pending
  BY <1>1 DEF Pending
<1>7. CASE Pending = {}
  BY <1>1, <1>5, <1>6, <1>7 DEF Titled
<1>8. CASE Pending # {}
  <2>1. \A y \in S : y <= title
    <3>1. title \in Nat
      BY DEF Titled
    <3>2. ASSUME NEW q \in done PROVE Tasks[q].title <= title
      <4>1. Tasks[q].title \in Nat
        BY RewardsAssumption DEF RewardsAssumption
      <4>2. ~(Tasks[q].title > title)
        BY <1>8 DEF Complete, Waits
      <4> QED BY <3>1, <4>1, <4>2
    <3> HIDE DEF done
    <3> QED BY <3>1, <3>2
  <2>2. title' = title
    <3> HIDE DEF S
    <3>1. Max(S) <= title /\ title <= Max(S) /\ Max(S) \in Nat /\ title \in Nat
      BY <1>2, <1>4, <2>1
    <3> QED BY <1>1, <3>1
  <2> QED BY <1>1, <2>2, TitledSame
<1> QED BY <1>7, <1>8

-----------------------------------------------------------------------------
(* Tasks                                                                   *)

\* The items of all tasks that are done, each under its number.
LEMMA GrantGiven ==
    ASSUME Typed, Mailed, Accounted, DOMAIN inventory = Users,
           NEW done, done \subseteq DOMAIN Tasks, GrantAll(done),
           UNCHANGED <<desk, shop_receipts, mailbox, entitlements>>
    PROVE  \E G : Given(G)
<1> DEFINE place(q) == allocated + Rank(q, done)
           grant == [q \in done |-> Grant(Keeper, place(q), Fresh("task", q))]
           G == {grant[q] : q \in done}
           places == {place(q) : q \in done}
           new == [i \in places |-> Fresh("task", CHOOSE q \in done : i = place(q))]
           pay == [q \in done |-> Payout(q, done)]
           paid == {pay[q] : q \in done}
           n == Cardinality(done)
<1> USE StoreAssumption, GearAssumption DEF StoreAssumption, GearAssumption
<1>1. /\ IsFiniteSet(done) /\ n \in Nat
      /\ \A q \in done : Rank(q, done) \in 1 .. n
      /\ \A q, r \in done : Rank(q, done) = Rank(r, done) => q = r
  BY RankIs, FS_CardinalityType
<1>2. allocated' = allocated + n /\ allocated \in Nat /\ allocated' \in Nat
  <2>1. allocated' = allocated + n
    BY GrantIs
  <2> HIDE DEF n
  <2> QED BY <1>1, <2>1 DEF Typed
<1>3. /\ \A q \in done : place(q) \in allocated + 1 .. allocated'
      /\ \A q, r \in done : place(q) = place(r) => q = r
  BY <1>1, <1>2
<1>4. \A q \in done : place(q) \in places /\ new[place(q)] = Fresh("task", q)
  <2> SUFFICES ASSUME NEW q \in done PROVE place(q) \in places /\ new[place(q)] = Fresh("task", q)
    OBVIOUS
  <2>1. (CHOOSE r \in done : place(q) = place(r)) = q
    BY <1>3
  <2> HIDE DEF place
  <2> QED BY <2>1
<1>5. /\ Cardinality(DOMAIN Mine) + n <= Capacity
      /\ inventory' = [inventory EXCEPT ![Keeper] = Adding(@, new)]
  BY DEF GrantAll, Rank
<1> HIDE DEF place
<1>6. /\ DOMAIN new = places
      /\ DOMAIN inventory'[Keeper] = DOMAIN Mine \cup places
      /\ \A i \in places : inventory'[Keeper][i] = new[i]
      /\ \A i \in DOMAIN Mine : inventory'[Keeper][i] = Mine[i]
      /\ \A v \in Users : v # Keeper => inventory'[v] = inventory[v]
  <2>1. DOMAIN new = places
    OBVIOUS
  <2>2. \A i \in DOMAIN Mine : i \notin places
    <3>1. DOMAIN Mine \subseteq 1 .. allocated
      BY DEF Accounted, Mine
    <3> QED BY <1>2, <1>3, <3>1
  <2> HIDE DEF new
  <2> QED BY <1>5, <2>1, <2>2 DEF Adding, Mine
<1>7. \A q \in done : /\ grant[q].uid = Keeper /\ grant[q].instance = place(q) /\ grant[q].item = Fresh("task", q)
                      /\ grant[q] = Grant(grant[q].uid, grant[q].instance, grant[q].item)
  BY DEF Grant
<1>8. DOMAIN grant = done /\ DOMAIN pay = done
  OBVIOUS
<1>9. IsFiniteSet(G) /\ Cardinality(G) = n
  <2>1. \A q, r \in done : grant[q] = grant[r] => q = r
    BY <1>3, <1>7
  <2> HIDE DEF grant
  <2> QED BY <1>1, <1>8, <2>1, ImageFinite
<1>10. Granted' = Granted \cup G
  <2>1. rewarded' = rewarded \cup paid
    <3>1. paid = {Payout(q, done) : q \in done}
      OBVIOUS
    <3>2. rewarded' = rewarded \cup {Payout(q, done) : q \in done}
      BY GrantIs
    <3> QED BY <3>1, <3>2
  <2>2. \A q \in done : TaskGrant(pay[q]) = grant[q]
    BY DEF TaskGrant, Payout, Grant, place
  <2>3. TaskGrants' = TaskGrants \cup G
    <3> HIDE DEF pay, grant
    <3> QED BY <2>1, <2>2 DEF TaskGrants, TaskGrant
  <2>4. TitleGrants' = TitleGrants
    BY DEF TitleGrants, Chosen
  <2>5. GoodsGrants(Bought \cup Unpacked)' = GoodsGrants(Bought \cup Unpacked)
    BY DEF GoodsGrants, Bought, Unpacked
  <2> HIDE DEF G
  <2> QED BY <2>3, <2>4, <2>5, GrantedIs, GrantedNext
<1>11. Receipts' <= Receipts + n
  <2>1. Claimed' = Claimed
    BY DEF Claimed
  <2>2. IsFiniteSet(paid) /\ Cardinality(paid) <= n
    <3> HIDE DEF pay
    <3> QED BY <1>1, <1>8, ImageFinite
  <2>3. rewarded' = rewarded \cup paid
    <3>1. paid = {Payout(q, done) : q \in done}
      OBVIOUS
    <3>2. rewarded' = rewarded \cup {Payout(q, done) : q \in done}
      BY GrantIs
    <3> QED BY <3>1, <3>2
  <2> HIDE DEF paid, n
  <2>4. Cardinality(rewarded \cup paid) = Cardinality(rewarded) + Cardinality(paid) - Cardinality(rewarded \cap paid)
    BY <2>2, FS_Union DEF Typed
  <2>5. Cardinality(rewarded \cap paid) \in Nat /\ Cardinality(rewarded) \in Nat /\ Cardinality(paid) \in Nat
    BY <2>2, FS_Intersection, FS_CardinalityType DEF Typed
  <2>6. Cardinality(shop_receipts) \in Nat /\ Cardinality(Claimed) \in Nat
    <3>1. IsFiniteSet(Claimed)
      BY CountIs DEF Claimed, Typed, Mailed
    <3> QED BY <3>1, FS_CardinalityType DEF Typed
  <2> QED BY <1>1, <2>1, <2>2, <2>3, <2>4, <2>5, <2>6 DEF Receipts
<1>12. Cardinality(DOMAIN inventory'[Keeper]) <= Capacity
  <2>1. IsFiniteSet(DOMAIN Mine)
    <3>1. IsFiniteSet(1 .. allocated)
      BY <1>2, FS_Interval
    <3>2. DOMAIN Mine \subseteq 1 .. allocated
      BY DEF Accounted, Mine
    <3> QED BY <3>1, <3>2, FS_Subset
  <2> DEFINE at == [q \in done |-> place(q)]
  <2>2. DOMAIN at = done /\ places = {at[q] : q \in done}
    OBVIOUS
  <2>3. IsFiniteSet(places) /\ Cardinality(places) <= n
    <3> HIDE DEF at, places
    <3> QED BY <1>1, <2>2, ImageFinite
  <2> HIDE DEF places, n
  <2>4. Cardinality(DOMAIN Mine \cup places) =
            Cardinality(DOMAIN Mine) + Cardinality(places) - Cardinality(DOMAIN Mine \cap places)
    BY <2>1, <2>3, FS_Union
  <2>5. Cardinality(DOMAIN Mine) \in Nat /\ Cardinality(places) \in Nat /\ Cardinality(DOMAIN Mine \cap places) \in Nat
    BY <2>1, <2>3, FS_Intersection, FS_CardinalityType
  <2>6. Cardinality(DOMAIN inventory'[Keeper]) = Cardinality(DOMAIN Mine \cup places)
    BY <1>6
  <2>7. Cardinality(DOMAIN Mine) + n <= Capacity /\ n \in Nat
    BY <1>1, <1>5
  <2> QED BY <2>3, <2>4, <2>5, <2>6, <2>7
<1>13. \A u \in Users :
           /\ DOMAIN inventory'[u] = DOMAIN inventory[u] \cup {g.instance : g \in {h \in G : h.uid = u}}
           /\ \A i \in DOMAIN inventory[u] : inventory'[u][i] = inventory[u][i]
           /\ Cardinality(DOMAIN inventory'[u]) <= Capacity
  <2> SUFFICES ASSUME NEW u \in Users
               PROVE  /\ DOMAIN inventory'[u] = DOMAIN inventory[u] \cup {g.instance : g \in {h \in G : h.uid = u}}
                      /\ \A i \in DOMAIN inventory[u] : inventory'[u][i] = inventory[u][i]
                      /\ Cardinality(DOMAIN inventory'[u]) <= Capacity
    OBVIOUS
  <2>1. CASE u # Keeper
    <3>1. {h \in G : h.uid = u} = {}
      BY <1>7, <2>1
    <3> HIDE DEF G
    <3> QED BY <1>6, <2>1, <3>1 DEF Accounted
  <2>2. CASE u = Keeper
    <3>1. {h \in G : h.uid = u} = G
      BY <1>7, <2>2
    <3>2. {g.instance : g \in G} = places
      <4> HIDE DEF grant
      <4> QED BY <1>7
    <3> HIDE DEF G, places
    <3> QED BY <1>6, <1>12, <2>2, <3>1, <3>2 DEF Mine
  <2> QED BY <2>1, <2>2
<1>14. \A g \in G : /\ g.uid \in Users /\ g = Grant(g.uid, g.instance, g.item)
                    /\ g.instance \in allocated + 1 .. allocated'
                    /\ inventory'[g.uid][g.instance] = g.item
  <2> HIDE DEF grant, places, new
  <2> QED BY <1>3, <1>4, <1>6, <1>7
<1>15. \A g, h \in G : g.instance = h.instance => g = h
  <2> HIDE DEF grant
  <2> QED BY <1>3, <1>7
<1>16. Given(G)
  <2>1. allocated <= allocated'
    BY <1>1, <1>2
  <2> HIDE DEF G
  <2> QED BY <1>2, <1>9, <1>10, <1>11, <1>13, <1>14, <1>15, <2>1 DEF Given
<1> QED BY <1>16

\* The parts that reward: what they grant, or what leaves items and grants
\* as they are.
LEMMA RewardsAccounted ==
    ASSUME Typed, Mailed, Typed', Mailed', Accounted, Titled, DOMAIN inventory = Users,
           AtQuests \/ AtTitles \/ AtTraining,
           desk \in {"quests", "titles", "training"}, UNCHANGED <<desk, commerceVars>>
    PROVE  Accounted' /\ Titled'
<1>1. desk \notin UseDesks /\ UNCHANGED <<shop_receipts, mailbox>>
  BY DEF UseDesks, commerceVars, mailVars
<1>2. ASSUME UNCHANGED <<inventory, allocated, rewarded>>, TitleGrants' = TitleGrants
      PROVE  Accounted'
  <2>1. Receipts' = Receipts
    BY <1>1, <1>2 DEF Receipts, Claimed
  <2>2. TaskGrants' = TaskGrants
    BY <1>2 DEF TaskGrants, TaskGrant
  <2>3. GoodsGrants(Bought \cup Unpacked)' = GoodsGrants(Bought \cup Unpacked)
    BY <1>1 DEF GoodsGrants, Bought, Unpacked
  <2>4. Granted' = Granted
    BY <1>2, <2>2, <2>3, GrantedIs, GrantedNext
  <2> QED BY <1>2, <2>1, <2>4, AccountedSame
<1>3. ASSUME UNCHANGED <<inventory, allocated, rewarded, title, title_rules, entitlements>>
      PROVE  Accounted' /\ Titled'
  BY <1>2, <1>3, OthersGranted, TitledSame
<1>4. ASSUME NEW done, done \subseteq DOMAIN Tasks, GrantAll(done), UNCHANGED entitlements
      PROVE  Accounted'
  <2>1. \E G : Given(G)
    BY <1>1, <1>4, GrantGiven
  <2> QED BY <1>1, <2>1, GivenKeeps
<1>5. CASE BattleNext \/ SettleNext \/ RulesNext \/ TrainingNext
  <2> USE DEF storeVars, questVars, titleVars
  <2>1. CASE BattleNext
    BY <1>3, <2>1 DEF BattleNext, Move, StartBattle, EndBattle
  <2>2. CASE SettleNext
    BY <1>3, <2>2 DEF SettleNext, Settle
  <2>3. CASE RulesNext
    BY <1>3, <2>3 DEF RulesNext, SetAvailable, SetRule
  <2>4. CASE TrainingNext
    BY <1>3, <2>4 DEF TrainingNext, Hour, StartTraining, ClaimTraining
  <2> QED BY <1>5, <2>1, <2>2, <2>3, <2>4
<1>6. CASE QuestNext
  <2>1. CASE Forget \/ List("daily") \/ \E q \in DOMAIN Tasks : Accept(q) \/ Cancel(q)
    BY <1>3, <2>1 DEF Forget, List, Accept, Cancel, storeVars, titleVars
  <2>2. ASSUME NEW q \in DOMAIN Tasks, ClaimTask(q) PROVE Accounted' /\ Titled'
    <3>1. GrantAll({q}) /\ {q} \subseteq DOMAIN Tasks /\ UNCHANGED <<title, title_rules, entitlements>>
      BY <2>2 DEF ClaimTask, titleVars
    <3> QED BY <1>4, <3>1, TitledSame
  <2>3. CASE Refresh
    <3> DEFINE done == {q \in DOMAIN Tasks : Complete(q)}
    <3>1. /\ UNCHANGED <<storeVars, rewarded>> \/ GrantAll(done)
          /\ UNCHANGED entitlements
      BY <2>3 DEF Refresh
    <3>2. done \subseteq DOMAIN Tasks
      OBVIOUS
    <3> HIDE DEF done
    <3>3. CASE UNCHANGED <<storeVars, rewarded>>
      BY <1>2, <2>3, <3>1, <3>3, OthersGranted, RefreshTitled DEF storeVars
    <3>4. CASE GrantAll(done)
      BY <1>4, <2>3, <3>1, <3>2, <3>4, RefreshTitled
    <3> QED BY <3>1, <3>3, <3>4
  <2> QED BY <1>6, <2>1, <2>2, <2>3 DEF QuestNext
<1>7. CASE TitleNext
  <2>1. ASSUME NEW level \in TitleLevels, Issue(level) PROVE Accounted' /\ Titled'
    <3>1. IssueLocked(level) /\ UNCHANGED <<inventory, allocated, rewarded, title_rules>>
      BY <2>1 DEF Issue, storeVars, questVars
    <3> QED BY <1>2, <3>1, IssueTitled
  <2>2. CASE CompleteTutorial
    <3>1. UNCHANGED <<inventory, allocated, rewarded, title_rules>>
      BY <2>2 DEF CompleteTutorial, storeVars, questVars
    <3>2. CASE IssueLocked(2) /\ 2 \in TitleLevels
      BY <1>2, <3>1, <3>2, IssueTitled
    <3>3. CASE UNCHANGED <<entitlements, title>>
      BY <1>3, <3>1, <3>3
    <3>4. CASE IssueLocked(2) /\ 2 \notin TitleLevels
      <4>1. entitlements' = entitlements /\ title' = 2 /\ Pending = {}
        BY <3>4 DEF IssueLocked, Grantable, Titled
      <4>2. Titled'
        BY <3>1, <4>1 DEF Titled, Pending
      <4> QED BY <1>2, <3>1, <4>1, <4>2, OthersGranted
    <3> QED BY <2>2, <3>2, <3>3, <3>4 DEF CompleteTutorial
  <2>3. ASSUME NEW level \in ManagedTitles, NEW offered \in SUBSET Prizes, ConfigureTitle(level, offered)
        PROVE  Accounted' /\ Titled'
    <3>1. /\ UNCHANGED <<inventory, allocated, rewarded, title, entitlements>>
          /\ title_rules' = [title_rules EXCEPT ![level] = offered]
      BY <2>3 DEF ConfigureTitle, storeVars, questVars
    <3>2. Titled'
      BY <3>1 DEF Titled, Pending
    <3> QED BY <1>2, <3>1, <3>2, OthersGranted
  <2>4. ASSUME NEW key \in Prizes, ClaimTitle(key) PROVE Accounted' /\ Titled'
    <3>1. /\ Insert(Keeper, Fresh("title", title_offer)) /\ UNCHANGED rewarded
      BY <2>4 DEF ClaimTitle, questVars
    <3>2. TaskGrants' = TaskGrants
      BY <3>1 DEF TaskGrants, TaskGrant
    <3>3. GoodsGrants(Bought \cup Unpacked)' = GoodsGrants(Bought \cup Unpacked)
      BY <1>1 DEF GoodsGrants, Bought, Unpacked
    <3>4. Titled' /\ Granted' = Granted \cup {Grant(Keeper, allocated + 1, Fresh("title", title_offer))}
      BY <2>4, <3>2, <3>3, ChosenIs, GrantedIs, GrantedNext
    <3>5. Receipts' = Receipts /\ Receipts \in Nat
      BY <1>1, <3>1, CountIs DEF Receipts, Claimed, Typed, Mailed
    <3>6. \E G : Given(G)
      BY <3>1, <3>4, <3>5, InsertGiven, StoreAssumption, GearAssumption DEF GearAssumption
    <3> QED BY <1>1, <3>4, <3>6, GivenKeeps
  <2> QED BY <1>7, <2>1, <2>2, <2>3, <2>4 DEF TitleNext
<1> QED BY <1>5, <1>6, <1>7 DEF AtQuests, AtTitles, AtTraining

-----------------------------------------------------------------------------
(* Where items are used up                                                 *)

\* What the Keeper has is what was there before, some of it, or changed.
LEMMA Shrinks ==
    ASSUME DOMAIN inventory = Users, NEW f, DOMAIN f \subseteq DOMAIN Mine,
           inventory' = [inventory EXCEPT ![Keeper] = f]
    PROVE  \A u \in Users : DOMAIN inventory'[u] \subseteq DOMAIN inventory[u]
BY GearAssumption DEF GearAssumption, Mine

LEMMA ReplaceShrinks ==
    ASSUME DOMAIN inventory = Users, NEW i, NEW item, Replace(Keeper, i, item)
    PROVE  \A u \in Users : DOMAIN inventory'[u] \subseteq DOMAIN inventory[u]
BY GearAssumption DEF GearAssumption, Replace

Shrunk == \A u \in Users : DOMAIN inventory'[u] \subseteq DOMAIN inventory[u]

LEMMA UseShrinks ==
    ASSUME DOMAIN inventory = Users, AtLeases \/ AtRepairs \/ AtTalismans \/ AtPotions
    PROVE  Shrunk
<1> USE DEF Shrunk
<1>1. CASE UNCHANGED inventory
  BY <1>1
<1>2. CASE Game \/ Dress
  <2>1. CASE Game
    BY <1>1, <2>1 DEF Game, Move, StartBattle, EndBattle, storeVars
  <2>2. ASSUME NEW i \in DOMAIN Mine, NEW slot, Equip(i, slot) PROVE Shrunk
    <3> DEFINE f == [j \in DOMAIN Mine |-> IF j = i THEN [Mine[j] EXCEPT !.slot = slot]
                                           ELSE IF Mine[j].slot = slot THEN [Mine[j] EXCEPT !.slot = 0]
                                           ELSE Mine[j]]
    <3>1. DOMAIN f \subseteq DOMAIN Mine /\ inventory' = [inventory EXCEPT ![Keeper] = f]
      BY <2>2 DEF Equip
    <3> HIDE DEF f
    <3> QED BY <3>1, Shrinks
  <2>3. ASSUME NEW i, Unequip(i) PROVE Shrunk
    BY <2>3, ReplaceShrinks DEF Unequip
  <2> QED BY <1>2, <2>1, <2>2, <2>3 DEF Dress
<1>3. ASSUME NEW i, NEW success, Attempt(i, success) PROVE Shrunk
  BY <1>3, ReplaceShrinks DEF Attempt
<1>4. CASE Repair
  <2> DEFINE needed == talisman_repair_quote.rule.needed
             left == {i \in DOMAIN Mine : i \notin Materials \/ Taken(i, needed) < Mine[i].quantity}
             f == [i \in left |-> IF i \in Materials THEN [Mine[i] EXCEPT !.quantity = @ - Taken(i, needed)]
                                  ELSE IF i = talisman_repair_quote.instance
                                       THEN [Mine[i] EXCEPT !.quantity = talisman_repair_quote.rule.capacity]
                                  ELSE Mine[i]]
  <2>1. inventory' = [inventory EXCEPT ![Keeper] = f]
    BY <1>4 DEF Repair
  <2>2. DOMAIN f \subseteq DOMAIN Mine
    OBVIOUS
  <2> HIDE DEF f
  <2> QED BY <2>1, <2>2, Shrinks
<1>5. ASSUME NEW i, Confirm(i) PROVE Shrunk
  BY <1>1, <1>5, ReplaceShrinks DEF Confirm
<1>6. ASSUME NEW i, NEW kind, NEW seq, NEW seen, AnnounceUse(i, kind, seq, seen) \/ ForgetUse(i) PROVE Shrunk
  BY <1>1, <1>6 DEF AnnounceUse, ForgetUse, storeVars
<1>7. ASSUME NEW i, NEW seq, Announce(i) \/ Consume(i, seq) PROVE Shrunk
  BY <1>1, <1>7, ReplaceShrinks DEF Announce, Consume, storeVars
<1>8. CASE RecordRenewal \/ QuoteRenewal \/ ExpireRenewal \/ Tick \/ Publish \/ Disconnect \/ ExpireRepair
  BY <1>1, <1>8 DEF RecordRenewal, QuoteRenewal, ExpireRenewal, Tick, Publish, Disconnect, ExpireRepair, storeVars
<1>9. ASSUME NEW days, EnableRenewal(days) \/ ConfigureUpgrades(days) \/ Renew(days) \/ QuoteRepair(days)
      PROVE  Shrunk
  BY <1>1, <1>9 DEF EnableRenewal, ConfigureUpgrades, Renew, QuoteRepair, storeVars
<1>10. ASSUME NEW needed, NEW capacity, ImportRules(needed, capacity) PROVE Shrunk
  BY <1>1, <1>10 DEF ImportRules, storeVars
<1>11. AtLeases => Shrunk
  BY <1>2, <1>3, <1>8, <1>9 DEF AtLeases, LeaseNext
<1>12. AtRepairs => Shrunk
  BY <1>2, <1>4, <1>5, <1>6, <1>8, <1>9, <1>10 DEF AtRepairs, RepairNext, Used
<1>13. AtTalismans => Shrunk
  BY <1>2, <1>5, <1>6 DEF AtTalismans, TalismanNext
<1>14. AtPotions => Shrunk
  BY <1>2, <1>7 DEF AtPotions, PotionNext
<1> QED BY <1>11, <1>12, <1>13, <1>14

LEMMA UseAccounted ==
    ASSUME Typed, Accounted, Shrunk, desk \in UseDesks,
           UNCHANGED <<desk, allocated, commerceVars, rewardsOnlyVars>>
    PROVE  Accounted'
<1>1. First' = First
  BY DEF First, Kinds
<1>2. Receipts' = Receipts /\ Granted' = Granted /\ Granted = {}
  <2>1. UNCHANGED <<shop_receipts, mailbox, entitlements, rewarded>>
    BY DEF commerceVars, mailVars, rewardsOnlyVars, titleVars, questVars
  <2>2. Granted' = Granted
    BY <2>1 DEF Granted, Bought, Unpacked
  <2>3. Receipts' = Receipts
    BY <2>1 DEF Receipts, Claimed
  <2> QED BY <2>2, <2>3 DEF Accounted
<1>3. ASSUME NEW u \in Users
      PROVE  /\ DOMAIN inventory'[u] \subseteq 1 .. allocated
             /\ \A i \in DOMAIN inventory'[u] : u = Keeper /\ i \in DOMAIN First
             /\ Cardinality(DOMAIN inventory'[u]) <= Capacity
  <2>1. DOMAIN inventory'[u] \subseteq DOMAIN inventory[u] /\ DOMAIN inventory[u] \subseteq 1 .. allocated
    BY DEF Shrunk, Accounted
  <2>2. \A i \in DOMAIN inventory[u] : u = Keeper /\ i \in DOMAIN First
    BY <1>2, <2>1 DEF Accounted, Typed
  <2>3. IsFiniteSet(DOMAIN inventory[u])
    <3>1. 1 \in Int /\ allocated \in Int
      BY DEF Typed
    <3>2. IsFiniteSet(1 .. allocated)
      BY <3>1, FS_Interval
    <3> QED BY <2>1, <3>2, FS_Subset
  <2>4. Cardinality(DOMAIN inventory'[u]) <= Cardinality(DOMAIN inventory[u]) /\ IsFiniteSet(DOMAIN inventory'[u])
    BY <2>1, <2>3, FS_Subset
  <2>5. Cardinality(DOMAIN inventory'[u]) \in Nat /\ Cardinality(DOMAIN inventory[u]) \in Nat
    BY <2>3, <2>4, FS_CardinalityType
  <2>6. Cardinality(DOMAIN inventory[u]) <= Capacity /\ Capacity \in Nat
    BY StoreAssumption DEF Accounted, StoreAssumption
  <2> QED BY <2>1, <2>2, <2>4, <2>5, <2>6
<1>4. DOMAIN First \subseteq 1 .. allocated
  BY DEF Accounted
<1>5. IsFiniteSet(Granted) /\ Receipts <= Cardinality(Granted)
  BY DEF Accounted
<1> QED BY <1>1, <1>2, <1>3, <1>4, <1>5 DEF Accounted

LEMMA ItemsStep ==
    ASSUME Typed, Mailed, Typed', Mailed', Accounted, Titled, Geared, [Next]_vars
    PROVE  Accounted' /\ Titled'
<1>1. DOMAIN inventory = Users
  BY DEF Geared, Stocked
<1>2. UNCHANGED rewardsOnlyVars => Titled'
  BY TitledSame DEF rewardsOnlyVars, titleVars
<1>3. CASE UNCHANGED vars
  <2>1. UNCHANGED <<desk, inventory, allocated, shop_receipts, mailbox, entitlements, rewarded, rewardsOnlyVars>>
    BY <1>3 DEF vars, storeVars, commerceVars, mailVars, rewardsOnlyVars, titleVars, questVars
  <2>2. Granted' = Granted /\ Receipts' = Receipts
    BY <2>1 DEF Granted, Bought, Unpacked, Receipts, Claimed
  <2> QED BY <1>2, <2>1, <2>2, AccountedSame
<1>4. CASE Next /\ desk = "commerce"
  BY <1>1, <1>2, <1>4, CommerceAccounted DEF Next
<1>5. CASE Next /\ desk \in UseDesks
  <2>1. /\ AtLeases \/ AtRepairs \/ AtTalismans \/ AtPotions
        /\ AtLeases \/ AtRepairs \/ (UNCHANGED upkeepOnlyVars /\ (AtTalismans \/ AtPotions))
        /\ UNCHANGED <<desk, commerceVars, rewardsOnlyVars>>
    BY <1>5 DEF Next, UseDesks
  <2>2. UNCHANGED allocated
    <3>1. AtLeases => UNCHANGED allocated
      <4>1. LeaseNext \/ Disconnect => UNCHANGED allocated
        BY DEF LeaseNext, RecordRenewal, QuoteRenewal, ExpireRenewal, Tick, Publish, EnableRenewal,
               ConfigureUpgrades, Renew, Attempt, Disconnect, storeVars
      <4> QED BY <4>1, GameSame DEF AtLeases
    <3> QED BY <2>1, <3>1, UseSame
  <2>3. Shrunk
    BY <1>1, <2>1, UseShrinks
  <2> QED BY <1>2, <1>5, <2>1, <2>2, <2>3, UseAccounted
<1>6. CASE Next /\ desk \in {"quests", "titles", "training"}
  <2>1. (AtQuests \/ AtTitles \/ AtTraining) /\ UNCHANGED <<desk, commerceVars>>
    BY <1>6 DEF Next
  <2> QED BY <1>1, <1>6, <2>1, RewardsAccounted
<1> QED BY <1>3, <1>4, <1>5, <1>6 DEF Next, UseDesks

-----------------------------------------------------------------------------
LEMMA OneMore ==
    ASSUME NEW S, IsFiniteSet(S), NEW x, NEW n \in Nat, Cardinality(S) <= n
    PROVE  IsFiniteSet(S \cup {x}) /\ Cardinality(S \cup {x}) <= n + 1
<1>1. /\ IsFiniteSet(S \cup {x})
      /\ Cardinality(S \cup {x}) = IF x \in S THEN Cardinality(S) ELSE Cardinality(S) + 1
  BY FS_AddElement
<1>2. Cardinality(S) \in Nat
  BY FS_CardinalityType
<1> QED BY <1>1, <1>2

LEMMA FourAtMost ==
    ASSUME NEW a, NEW b, NEW c, NEW d
    PROVE  IsFiniteSet({a, b, c, d}) /\ Cardinality({a, b, c, d}) <= 4
<1> DEFINE A == {a}
           B == A \cup {b}
           C == B \cup {c}
           D == C \cup {d}
<1>1. IsFiniteSet(A) /\ Cardinality(A) <= 1
  BY FS_Singleton
<1>2. D = {a, b, c, d}
  OBVIOUS
<1> HIDE DEF A
<1>3. IsFiniteSet(B) /\ Cardinality(B) <= 1 + 1
  BY <1>1, OneMore
<1>4. IsFiniteSet(B) /\ Cardinality(B) <= 2
  BY <1>3
<1> HIDE DEF B
<1>5. IsFiniteSet(C) /\ Cardinality(C) <= 2 + 1
  BY <1>4, OneMore
<1>6. IsFiniteSet(C) /\ Cardinality(C) <= 3
  BY <1>5
<1> HIDE DEF C
<1>7. IsFiniteSet(D) /\ Cardinality(D) <= 3 + 1
  BY <1>6, OneMore
<1> HIDE DEF D
<1> QED BY <1>2, <1>7

LEMMA FirstIs ==
    ASSUME Init
    PROVE  /\ DOMAIN First \subseteq 1 .. allocated
           /\ IsFiniteSet(DOMAIN First) /\ Cardinality(DOMAIN First) <= Capacity
           /\ Mine = First /\ \A u \in Users : u # Keeper => DOMAIN inventory[u] = {}
<1> DEFINE items == [u \in Users |-> IF u = Keeper THEN First ELSE <<>>]
           S == {0} \cup UNION {DOMAIN items[u] : u \in Users}
           all == <<"weapon", "talisman", "talisman", "material", "material", "potion">>
<1>1. allocated = Max(S) /\ inventory = items
  BY DEF Init, StoreInit
<1>2. DOMAIN First = {i \in 1 .. 6 : all[i] \in Kinds}
  <2>1. DOMAIN all = 1 .. 6
    OBVIOUS
  <2>2. DOMAIN First = {i \in DOMAIN all : all[i] \in Kinds}
    BY DEF First, FirstItems
  <2> QED BY <2>1, <2>2
<1>3. \/ DOMAIN First \subseteq {1, 1, 1, 1} \/ DOMAIN First \subseteq {6, 6, 6, 6}
      \/ DOMAIN First \subseteq {2, 3, 4, 5} \/ DOMAIN First \subseteq {2, 3, 6, 6}
  <2>1. all[1] = "weapon" /\ all[2] = "talisman" /\ all[3] = "talisman" /\ all[4] = "material"
        /\ all[5] = "material" /\ all[6] = "potion"
    OBVIOUS
  <2>2. \A i \in 1 .. 6 : i \in {1, 2, 3, 4, 5, 6}
    OBVIOUS
  <2>3. \/ Kinds \subseteq {"weapon"} \/ Kinds \subseteq {"talisman", "material"}
        \/ Kinds \subseteq {"talisman", "potion"} \/ Kinds \subseteq {"potion"}
    BY DEF Kinds
  <2> HIDE DEF all
  <2>4. \A i \in DOMAIN First : i \in {1, 2, 3, 4, 5, 6} /\ all[i] \in Kinds
    BY <1>2, <2>2
  <2>5. CASE Kinds \subseteq {"weapon"}
    BY <2>1, <2>4, <2>5
  <2>6. CASE Kinds \subseteq {"talisman", "material"}
    BY <2>1, <2>4, <2>6
  <2>7. CASE Kinds \subseteq {"talisman", "potion"}
    BY <2>1, <2>4, <2>7
  <2>8. CASE Kinds \subseteq {"potion"}
    BY <2>1, <2>4, <2>8
  <2> QED BY <2>3, <2>5, <2>6, <2>7, <2>8
<1>4. \A A : IsFiniteSet(A) /\ Cardinality(A) <= 4 /\ DOMAIN First \subseteq A
                => IsFiniteSet(DOMAIN First) /\ Cardinality(DOMAIN First) <= Capacity
  <2> SUFFICES ASSUME NEW A, IsFiniteSet(A), Cardinality(A) <= 4, DOMAIN First \subseteq A
               PROVE  IsFiniteSet(DOMAIN First) /\ Cardinality(DOMAIN First) <= Capacity
    OBVIOUS
  <2>1. IsFiniteSet(DOMAIN First) /\ Cardinality(DOMAIN First) <= Cardinality(A)
    BY FS_Subset
  <2>2. Cardinality(DOMAIN First) \in Nat /\ Cardinality(A) \in Nat
    BY <2>1, FS_CardinalityType
  <2> QED BY <2>1, <2>2, DesksAssumption, StoreAssumption DEF DesksAssumption, StoreAssumption
<1>7. IsFiniteSet(DOMAIN First) /\ Cardinality(DOMAIN First) <= Capacity
  BY <1>3, <1>4, FourAtMost
<1>8. Mine = First /\ \A u \in Users : u # Keeper => DOMAIN inventory[u] = {}
  BY <1>1, GearAssumption DEF Mine, GearAssumption
<1>9. DOMAIN First \subseteq S /\ S \subseteq {0} \cup DOMAIN First
  BY <1>1, <1>8, GearAssumption DEF Mine, GearAssumption
<1> HIDE DEF S, items, all
<1>10. IsFiniteSet(S) /\ S # {} /\ S \subseteq Int
  <2>1. IsFiniteSet({0} \cup DOMAIN First)
    <3>1. IsFiniteSet({0})
      BY FS_Singleton
    <3> QED BY <1>7, <3>1, FS_Union
  <2>2. S # {}
    BY DEF S
  <2>3. IsFiniteSet(S)
    BY <1>9, <2>1, FS_Subset
  <2>4. S \subseteq Int
    BY <1>2, <1>9
  <2> QED BY <2>2, <2>3, <2>4
<1>11. \A i \in S : i <= allocated
  BY <1>1, <1>10, MaxIs
<1>12. DOMAIN First \subseteq 1 .. allocated
  <2>1. allocated \in Nat
    BY LargestAllocated
  <2> QED BY <1>2, <1>9, <1>11, <2>1
<1> QED BY <1>7, <1>8, <1>12

LEMMA ItemsInit ==
    ASSUME Init
    PROVE  Accounted /\ Titled
<1>1. Titled
  BY RewardsAssumption DEF Init, RewardsInit, Titled, Pending, RewardsAssumption
<1>2. Granted = {} /\ Receipts = 0
  <2>1. mailbox = <<>> /\ shop_receipts = {} /\ rewarded = {} /\ entitlements = [level \in TitleLevels |-> None]
    BY DEF Init, CommerceInit, RewardsInit
  <2>2. Claimed = {} /\ Cardinality({}) = 0
    BY <2>1, FS_EmptySet DEF Claimed
  <2> QED BY <2>1, <2>2 DEF Granted, Bought, Unpacked, Receipts
<1>3. IsFiniteSet(Granted) /\ Cardinality(Granted) = 0
  BY <1>2, FS_EmptySet
<1>4. /\ DOMAIN First \subseteq 1 .. allocated /\ Mine = First
      /\ \A u \in Users : u # Keeper => DOMAIN inventory[u] = {}
      /\ Cardinality(DOMAIN First) <= Capacity
  BY FirstIs
<1>5. \A u \in Users : Cardinality(DOMAIN inventory[u]) <= Capacity
  BY <1>4, FS_EmptySet, StoreAssumption DEF Mine, StoreAssumption
<1> QED BY <1>1, <1>2, <1>3, <1>4, <1>5 DEF Accounted, Mine

LEMMA AccountedMeans ==
    ASSUME Typed, Accounted
    PROVE  ItemsAccounted
<1> DEFINE new == {x \in Users \X (1 .. allocated) :
                       x[2] \in DOMAIN inventory[x[1]] /\ ~(x[1] = Keeper /\ x[2] \in DOMAIN First)}
           given == {[uid |-> x[1], instance |-> x[2], item |-> inventory[x[1]][x[2]]] : x \in new}
<1>1. given \subseteq Granted
  <2> SUFFICES ASSUME NEW x \in new
               PROVE  [uid |-> x[1], instance |-> x[2], item |-> inventory[x[1]][x[2]]] \in Granted
    OBVIOUS
  <2>1. x[1] \in Users /\ x[2] \in Nat /\ x[2] \in DOMAIN inventory[x[1]] /\ ~(x[1] = Keeper /\ x[2] \in DOMAIN First)
    BY DEF Typed
  <2> QED BY <2>1 DEF Accounted, Grant
<1>2. Granted \subseteq given
  <2> SUFFICES ASSUME NEW g \in Granted PROVE g \in given
    OBVIOUS
  <2> DEFINE x == <<g.uid, g.instance>>
  <2>1. /\ g.uid \in Users /\ g = Grant(g.uid, g.instance, g.item)
        /\ g.instance \in DOMAIN inventory[g.uid] /\ g.item = inventory[g.uid][g.instance]
        /\ ~(g.uid = Keeper /\ g.instance \in DOMAIN First)
    BY DEF Accounted
  <2>2. x \in Users \X (1 .. allocated) /\ x[1] = g.uid /\ x[2] = g.instance
    BY <2>1 DEF Accounted
  <2>3. x \in new
    BY <2>1, <2>2
  <2>4. g = [uid |-> x[1], instance |-> x[2], item |-> inventory[x[1]][x[2]]]
    BY <2>1, <2>2 DEF Grant
  <2> HIDE DEF x, new
  <2> QED BY <2>3, <2>4
<1>3. given = Granted
  BY <1>1, <1>2
<1>4. /\ \A g, h \in Granted : g.instance = h.instance => g = h
      /\ Cardinality(shop_receipts) +
         Cardinality({m \in DOMAIN mailbox : mailbox[m].claimed # None}) +
         Cardinality(rewarded) <= Cardinality(Granted)
      /\ \A u \in Users : Cardinality(DOMAIN inventory[u]) <= Capacity
  BY DEF Accounted, Receipts, Claimed
<1> QED BY <1>3, <1>4 DEF ItemsAccounted

\* The inductive invariant about items.
ItemsInvariant == Typed /\ Mailed /\ Protected /\ Geared /\ Accounted /\ Titled

LEMMA ItemsInductive ==
    /\ Init => ItemsInvariant
    /\ ItemsInvariant /\ [Next]_vars => ItemsInvariant'
<1>1. Init => ItemsInvariant
  BY MailInit, GearInitially, TypedInitially, ItemsInit DEF ItemsInvariant
<1>2. ASSUME ItemsInvariant, [Next]_vars PROVE ItemsInvariant'
  <2>1. Typed /\ Mailed /\ Protected /\ Geared /\ Accounted /\ Titled
    BY <1>2 DEF ItemsInvariant
  <2>2. Typed' /\ Mailed' /\ Protected' /\ Geared'
    BY <1>2, <2>1, TypedStep, AttachmentStep, GearStep
  <2>3. Accounted' /\ Titled'
    BY <1>2, <2>1, <2>2, ItemsStep
  <2> QED BY <2>2, <2>3 DEF ItemsInvariant
<1> QED BY <1>1, <1>2

\* Whatever is bought, given, claimed, chosen and rewarded, in whatever order
\* and however often it is asked for again: what somebody owns beyond the
\* first items has its receipt, each receipt its item under a number of its
\* own, and no inventory grows over its capacity (allocate_instance,
\* insert_locked, claim, grant_locked).
THEOREM ItemsAlwaysAccounted == Spec => []ItemsAccounted
<1>1. ItemsInvariant => ItemsAccounted
  BY AccountedMeans DEF ItemsInvariant
<1> QED BY <1>1, ItemsInductive, PTL DEF Spec

-----------------------------------------------------------------------------
(* The books                                                               *)

PaidFor(receipts, u, c) ==
    SumFunction([r \in {x \in receipts : x.uid = u /\ Currency(x.key) = c} |-> Cost(r.quote)])
Renewed(receipts) == SumFunction([r \in receipts |-> r.paid])
Earnings(payouts) == SumFunction([r \in payouts |-> r.gold])

\* The sums that the books are made of, and one more receipt.
LEMMA PaidMore ==
    ASSUME NEW R, IsFiniteSet(R), \A x \in R : x.quote \in Nat, NEW r, r \notin R, r.quote \in Nat, NEW u, NEW c
    PROVE  /\ PaidFor(R, u, c) \in Int
           /\ PaidFor(R \cup {r}, u, c) =
                  PaidFor(R, u, c) + IF r.uid = u /\ Currency(r.key) = c THEN r.quote ELSE 0
<1> DEFINE S(Q) == {x \in Q : x.uid = u /\ Currency(x.key) = c}
           f == [x \in S(R) |-> Cost(x.quote)]
           e == [x \in S(R \cup {r}) |-> Cost(x.quote)]
<1>1. DOMAIN f = S(R) /\ IsFiniteSet(S(R)) /\ \A x \in S(R) : f[x] \in Int
  BY FS_Subset DEF Cost
<1>2. PaidFor(R, u, c) = SumFunction(f) /\ PaidFor(R \cup {r}, u, c) = SumFunction(e)
  BY DEF PaidFor
<1>3. CASE r.uid = u /\ Currency(r.key) = c
  <2>1. /\ DOMAIN e = DOMAIN f \cup {r} /\ r \notin DOMAIN f /\ e[r] = r.quote /\ r.quote \in Int
        /\ \A x \in DOMAIN f : e[x] = f[x] /\ f[x] \in Int
    BY <1>1, <1>3 DEF Cost
  <2> HIDE DEF f, e, S
  <2>2. SumFunction(e) = SumFunction(f) + e[r] /\ SumFunction(f) \in Int
    BY <1>1, <2>1, SumGrows
  <2> QED BY <1>2, <1>3, <2>1, <2>2
<1>4. CASE ~(r.uid = u /\ Currency(r.key) = c)
  <2>1. S(R \cup {r}) = S(R)
    BY <1>4
  <2>2. e = f
    BY <2>1
  <2>3. SumFunction(f) \in Int
    <3> HIDE DEF f, S
    <3> QED BY <1>1, SumInt DEF SumFunction
  <2> HIDE DEF e, f, S
  <2> QED BY <1>2, <1>4, <2>2, <2>3
<1> QED BY <1>3, <1>4

LEMMA PaidNothing ==
    ASSUME NEW u, NEW c
    PROVE  PaidFor({}, u, c) = 0 /\ Renewed({}) = 0 /\ Earnings({}) = 0
<1> DEFINE S == {x \in {} : x.uid = u /\ Currency(x.key) = c}
           f == [r \in S |-> Cost(r.quote)]
           g == [r \in {} |-> r.paid]
           h == [r \in {} |-> r.gold]
<1>1. DOMAIN f = {} /\ DOMAIN g = {} /\ DOMAIN h = {}
  OBVIOUS
<1>2. PaidFor({}, u, c) = SumFunction(f) /\ Renewed({}) = SumFunction(g) /\ Earnings({}) = SumFunction(h)
  BY DEF PaidFor, Renewed, Earnings
<1> HIDE DEF f, g, h
<1> QED BY <1>1, <1>2, SumEmpty DEF SumFunction

LEMMA RenewedMore ==
    ASSUME NEW R, IsFiniteSet(R), \A x \in R : x.paid \in Nat, NEW r, r \notin R, r.paid \in Nat
    PROVE  Renewed(R \cup {r}) = Renewed(R) + r.paid /\ Renewed(R) \in Int
<1> DEFINE f == [x \in R |-> x.paid]
           e == [x \in R \cup {r} |-> x.paid]
<1>1. /\ DOMAIN f = R /\ DOMAIN e = DOMAIN f \cup {r} /\ e[r] = r.paid
      /\ \A x \in DOMAIN f : e[x] = f[x] /\ f[x] \in Int
  OBVIOUS
<1>2. Renewed(R) = SumFunction(f) /\ Renewed(R \cup {r}) = SumFunction(e)
  BY DEF Renewed
<1> HIDE DEF f, e
<1>3. SumFunction(e) = SumFunction(f) + e[r] /\ SumFunction(f) \in Int
  BY <1>1, SumGrows
<1> QED BY <1>1, <1>2, <1>3

\* A sum over what a function gives, each once.
LEMMA SumImage ==
    ASSUME NEW S, IsFiniteSet(S), NEW g, DOMAIN g = S, \A x, y \in S : g[x] = g[y] => x = y,
           NEW f, NEW e, \A x \in S : e[x] = f[g[x]] /\ e[x] \in Int
    PROVE  SumFunctionOnSet(f, {g[x] : x \in S}) = SumFunctionOnSet(e, S)
<1> DEFINE image(T) == {g[x] : x \in T}
           Bad == {T \in SUBSET S : SumFunctionOnSet(f, image(T)) # SumFunctionOnSet(e, T)}
<1>1. SUFFICES ASSUME Bad # {} PROVE FALSE
  <2>1. S \notin Bad
    BY <1>1
  <2> QED BY <2>1
<1>2. PICK T \in Bad : \A U \in Bad : U \subseteq T => U = T
  <2>1. Bad \subseteq SUBSET S
    OBVIOUS
  <2> HIDE DEF Bad
  <2> QED BY <1>1, <2>1, Smallest
<1>3. T \subseteq S /\ SumFunctionOnSet(f, image(T)) # SumFunctionOnSet(e, T)
  BY <1>2
<1>4. ASSUME T = {} PROVE FALSE
  <2>1. image(T) = {}
    BY <1>4
  <2> QED BY <1>3, <1>4, <2>1, SumEmpty
<1>5. PICK x : x \in T
  BY <1>4
<1> DEFINE U == T \ {x}
<1>6. SumFunctionOnSet(f, image(U)) = SumFunctionOnSet(e, U)
  <2>1. U \in SUBSET S /\ U \subseteq T /\ U # T
    BY <1>3, <1>5
  <2>2. U \notin Bad
    BY <1>2, <2>1
  <2> QED BY <2>1, <2>2
<1>7. IsFiniteSet(T) /\ \A y \in T : e[y] \in Int /\ e[y] = f[g[y]]
  BY <1>3, FS_Subset
<1>8. SumFunctionOnSet(e, T) = e[x] + SumFunctionOnSet(e, U)
  BY <1>5, <1>7, SumRemove
<1>9. image(T) \ {g[x]} = image(U) /\ g[x] \in image(T)
  BY <1>3, <1>5
<1>10. IsFiniteSet(image(T))
  <2> DEFINE h == [y \in T |-> g[y]]
  <2>1. DOMAIN h = T /\ image(T) = {h[y] : y \in T}
    OBVIOUS
  <2> HIDE DEF h, image
  <2>2. IsFiniteSet({h[y] : y \in T})
    BY <1>7, <2>1, ImageFinite
  <2> QED BY <2>1, <2>2
<1>11. \A z \in image(T) : f[z] \in Int
  BY <1>7
<1>12. SumFunctionOnSet(f, image(T)) = f[g[x]] + SumFunctionOnSet(f, image(T) \ {g[x]})
  <2> HIDE DEF image
  <2> QED BY <1>9, <1>10, <1>11, SumRemove
<1>13. SumFunctionOnSet(f, image(T)) = e[x] + SumFunctionOnSet(e, U)
  <2> HIDE DEF image, U
  <2> QED BY <1>5, <1>6, <1>7, <1>9, <1>12
<1> QED BY <1>3, <1>8, <1>13

LEMMA RewardedEarlier ==
    ASSUME Accounted, NEW r \in rewarded
    PROVE  r.instance \in 1 .. allocated
<1>1. TaskGrant(r) \in Granted
  BY GrantedIs DEF TaskGrants
<1>2. TaskGrant(r).uid = Keeper /\ TaskGrant(r).instance = r.instance
  BY DEF TaskGrant
<1> QED BY <1>1, <1>2, GearAssumption DEF Accounted, GearAssumption

LEMMA EarningsGrow ==
    ASSUME Typed, Accounted, NEW done, done \subseteq DOMAIN Tasks, \A q \in done : Reward(q) \in Nat,
           GrantAll(done)
    PROVE  LET due == SumFunction([q \in done |-> Reward(q)])
           IN  /\ Earnings(rewarded') = Earnings(rewarded) + due
               /\ Earnings(rewarded) \in Int /\ due \in Int
<1> DEFINE pay == [q \in done |-> Payout(q, done)]
           new == {pay[q] : q \in done}
           due == [q \in done |-> Reward(q)]
           f == [r \in rewarded |-> r.gold]
           e == [r \in rewarded \cup new |-> r.gold]
<1>1. rewarded' = rewarded \cup new
  <2>1. new = {Payout(q, done) : q \in done}
    OBVIOUS
  <2> HIDE DEF new
  <2> QED BY <2>1, GrantIs
<1>2. IsFiniteSet(done) /\ DOMAIN pay = done /\ DOMAIN due = done
  BY RankIs
<1>3. ASSUME NEW q \in done
      PROVE  /\ pay[q].gold = due[q] /\ due[q] \in Nat /\ pay[q].task = q
             /\ pay[q].instance = allocated + Rank(q, done) /\ pay[q] \notin rewarded
  <2>1. Rank(q, done) \in Nat \ {0}
    <3>1. Rank(q, done) \in 1 .. Cardinality(done)
      BY RankIs
    <3>2. Cardinality(done) \in Nat
      BY <1>2, FS_CardinalityType
    <3> QED BY <3>1, <3>2
  <2>2. pay[q].gold = due[q] /\ due[q] \in Nat /\ pay[q].task = q /\ pay[q].instance = allocated + Rank(q, done)
    BY DEF Payout
  <2>3. allocated + Rank(q, done) \notin 1 .. allocated
    BY <2>1 DEF Typed
  <2> HIDE DEF pay
  <2> QED BY <2>2, <2>3, RewardedEarlier
<1>4. (rewarded \cup new) \ rewarded = new
  BY <1>3
<1>5. \A q, r \in done : pay[q] = pay[r] => q = r
  BY <1>3
<1>6. \A r \in rewarded \cup new : e[r] \in Int
  <2>1. \A r \in rewarded : r.gold \in Nat
    BY DEF Typed, Payouts
  <2> QED BY <1>3, <2>1
<1>7. \A q \in done : due[q] = e[pay[q]] /\ due[q] \in Int
  BY <1>3
<1>8. \A r \in rewarded : f[r] = e[r] /\ f[r] \in Int
  BY <1>6
<1>9. /\ Earnings(rewarded \cup new) = SumFunctionOnSet(e, rewarded \cup new)
      /\ Earnings(rewarded) = SumFunctionOnSet(f, rewarded)
      /\ SumFunction(due) = SumFunctionOnSet(due, done)
  BY DEF Earnings, SumFunction
<1> HIDE DEF f, e, pay, due
<1>10. IsFiniteSet(new) /\ IsFiniteSet(rewarded)
  BY <1>2, ImageFinite DEF Typed
<1>11. SumFunctionOnSet(e, new) = SumFunctionOnSet(due, done)
  BY <1>2, <1>5, <1>7, SumImage
<1> HIDE DEF new
<1>12. IsFiniteSet(rewarded \cup new)
  BY <1>10, FS_Union
<1>13. SumFunctionOnSet(e, rewarded \cup new) =
           SumFunctionOnSet(e, rewarded) + SumFunctionOnSet(e, (rewarded \cup new) \ rewarded)
  <2>1. rewarded \subseteq rewarded \cup new
    OBVIOUS
  <2> QED BY <1>6, <1>12, <2>1, SumUnion
<1>14. SumFunctionOnSet(e, rewarded) = SumFunctionOnSet(f, rewarded)
  BY <1>8, <1>10, SumSame
<1>15. SumFunctionOnSet(f, rewarded) \in Int /\ SumFunctionOnSet(due, done) \in Int
  BY <1>2, <1>7, <1>8, <1>10, SumInt
<1>16. Earnings(rewarded') = SumFunctionOnSet(f, rewarded) + SumFunctionOnSet(due, done)
  BY <1>1, <1>4, <1>9, <1>11, <1>13, <1>14
<1>17. Earnings(rewarded') = Earnings(rewarded) + SumFunction(due) /\ Earnings(rewarded) \in Int /\ SumFunction(due) \in Int
  BY <1>9, <1>15, <1>16
<1> QED BY <1>17 DEF due

-----------------------------------------------------------------------------
\* What the receipts say that a wallet holds.
KeeperHas(c) ==
    IF c = "gold" THEN Earnings(rewarded) - upgrade_receipts ELSE 0 - Renewed(renewal_receipts)
Balance(u, c) ==
    Purse - PaidFor(shop_receipts, u, c) - PaidFor(gift_receipts, u, c)
          + IF u = Keeper THEN KeeperHas(c) ELSE 0
Balanced == \A u \in Users, c \in Currencies : wallet[u][c] = Balance(u, c)

\* All the sums are numbers.
LEMMA SumsAre ==
    ASSUME Typed, NEW u \in Users, NEW c \in Currencies
    PROVE  /\ PaidFor(shop_receipts, u, c) \in Int /\ PaidFor(gift_receipts, u, c) \in Int
           /\ Renewed(renewal_receipts) \in Int /\ Earnings(rewarded) \in Int
           /\ upgrade_receipts \in Int /\ Purse \in Int /\ Balance(u, c) \in Int
<1> DEFINE f == [r \in renewal_receipts |-> r.paid]
           e == [r \in rewarded |-> r.gold]
           S(R) == {x \in R : x.uid = u /\ Currency(x.key) = c}
           g(R) == [r \in S(R) |-> Cost(r.quote)]
<1>1. ASSUME NEW R, IsFiniteSet(R), \A x \in R : x.quote \in Nat
      PROVE  PaidFor(R, u, c) \in Int
  <2>1. IsFiniteSet(S(R)) /\ DOMAIN g(R) = S(R) /\ \A x \in S(R) : g(R)[x] \in Int
    BY <1>1, FS_Subset DEF Cost
  <2>2. PaidFor(R, u, c) = SumFunction(g(R))
    BY DEF PaidFor
  <2> HIDE DEF g, S
  <2> QED BY <2>1, <2>2, SumInt DEF SumFunction
<1>2. PaidFor(shop_receipts, u, c) \in Int /\ PaidFor(gift_receipts, u, c) \in Int
  <2>1. (\A r \in shop_receipts : r.quote \in Nat) /\ (\A r \in gift_receipts : r.quote \in Nat)
    BY DEF Typed, Purchases, Gifts
  <2> QED BY <1>1, <2>1 DEF Typed
<1>3. Renewed(renewal_receipts) \in Int
  <2>1. DOMAIN f = renewal_receipts /\ \A r \in renewal_receipts : f[r] \in Int
    BY DEF Typed
  <2>2. Renewed(renewal_receipts) = SumFunction(f) /\ IsFiniteSet(renewal_receipts)
    BY DEF Renewed, Typed
  <2> HIDE DEF f
  <2> QED BY <2>1, <2>2, SumInt DEF SumFunction
<1>4. Earnings(rewarded) \in Int
  <2>1. DOMAIN e = rewarded /\ \A r \in rewarded : e[r] \in Int
    BY DEF Typed, Payouts
  <2>2. Earnings(rewarded) = SumFunction(e) /\ IsFiniteSet(rewarded)
    BY DEF Earnings, Typed
  <2> HIDE DEF e
  <2> QED BY <2>1, <2>2, SumInt DEF SumFunction
<1>5. upgrade_receipts \in Int /\ Purse \in Int
  BY StoreAssumption DEF Typed, StoreAssumption
<1> QED BY <1>2, <1>3, <1>4, <1>5 DEF Balance, KeeperHas

LEMMA BalanceMeans ==
    ASSUME Typed, Balanced
    PROVE  BooksBalance
<1> SUFFICES ASSUME NEW u \in Users, NEW c \in Currencies
             PROVE  wallet[u][c] >= 0 /\ wallet[u][c] = Purse + Earned(u, c) - Spent(u, c)
  BY DEF BooksBalance
<1>1. wallet[u][c] \in Nat /\ wallet[u][c] = Balance(u, c)
  BY DEF Typed, Balanced
<1>2. Spent(u, c) = PaidFor(shop_receipts, u, c) + PaidFor(gift_receipts, u, c) +
                    (IF u = Keeper THEN IF c = "gold" THEN upgrade_receipts ELSE Renewed(renewal_receipts) ELSE 0)
  BY DEF Spent, SpentInShop, PaidFor, Renewed, Currencies
<1>3. Earned(u, c) = IF u = Keeper /\ c = "gold" THEN Earnings(rewarded) ELSE 0
  BY DEF Earned, Earnings
<1>4. Balance(u, c) = Purse + Earned(u, c) - Spent(u, c)
  BY <1>2, <1>3, SumsAre DEF Balance, KeeperHas
<1> QED BY <1>1, <1>4

LEMMA BalancedSame ==
    ASSUME Balanced,
           UNCHANGED <<wallet, shop_receipts, gift_receipts, renewal_receipts, upgrade_receipts, rewarded>>
    PROVE  Balanced'
BY DEF Balanced, Balance, KeeperHas

LEMMA DebitIs ==
    ASSUME Typed, NEW u \in Users, NEW currency \in Currencies, NEW n \in Nat, Debit(u, currency, n)
    PROVE  \A v \in Users, c \in Currencies :
               wallet'[v][c] = wallet[v][c] - IF v = u /\ c = currency THEN n ELSE 0
<1>1. \A v \in Users : wallet[v] \in [Currencies -> Nat]
  BY DEF Typed
<1>2. wallet' = [wallet EXCEPT ![u][currency] = @ - n] /\ DOMAIN wallet = Users
  BY DEF Debit, Typed
<1> QED BY <1>1, <1>2

LEMMA CreditIs ==
    ASSUME Typed, NEW u \in Users, NEW currency \in Currencies, NEW n \in Int, Credit(u, currency, n)
    PROVE  \A v \in Users, c \in Currencies :
               wallet'[v][c] = wallet[v][c] + IF v = u /\ c = currency THEN n ELSE 0
<1>1. \A v \in Users : wallet[v] \in [Currencies -> Nat]
  BY DEF Typed
<1>2. wallet' = [wallet EXCEPT ![u][currency] = @ + n] /\ DOMAIN wallet = Users
  BY DEF Credit, Typed
<1> QED BY <1>1, <1>2

\* A purchase or a gift: it is charged with its receipt.
LEMMA OrderBalanced ==
    ASSUME Typed, Balanced, NEW u \in Users, NEW g \in Goods, NEW r,
           Debit(u, Currency(g), offers[g]), r.uid = u, r.key = g, r.quote = offers[g],
           \/ /\ shop_receipts' = shop_receipts \cup {r} /\ r \notin shop_receipts
              /\ UNCHANGED gift_receipts
           \/ /\ gift_receipts' = gift_receipts \cup {r} /\ r \notin gift_receipts
              /\ UNCHANGED shop_receipts,
           UNCHANGED <<renewal_receipts, upgrade_receipts, rewarded>>
    PROVE  Balanced'
<1> DEFINE n == offers[g]
<1>1. n \in Nat /\ Currency(g) \in Currencies
  BY CurrencyIs DEF Typed
<1> SUFFICES ASSUME NEW v \in Users, NEW c \in Currencies
             PROVE  wallet'[v][c] = Balance(v, c)'
  BY DEF Balanced
<1> DEFINE paid == IF v = u /\ c = Currency(g) THEN n ELSE 0
<1>2. wallet'[v][c] = wallet[v][c] - paid
  BY <1>1, DebitIs
<1>3. wallet[v][c] = Balance(v, c) /\ KeeperHas(c)' = KeeperHas(c) /\ paid \in Int
  BY <1>1 DEF Balanced, KeeperHas
<1>4. /\ IsFiniteSet(shop_receipts) /\ \A x \in shop_receipts : x.quote \in Nat
      /\ IsFiniteSet(gift_receipts) /\ \A x \in gift_receipts : x.quote \in Nat
  BY DEF Typed, Purchases, Gifts
<1>5. CASE /\ shop_receipts' = shop_receipts \cup {r} /\ r \notin shop_receipts
           /\ UNCHANGED gift_receipts
  <2>1. PaidFor(shop_receipts', v, c) = PaidFor(shop_receipts, v, c) + paid
    BY <1>1, <1>4, <1>5, PaidMore
  <2>2. PaidFor(gift_receipts', v, c) = PaidFor(gift_receipts, v, c)
    BY <1>5
  <2>3. Balance(v, c)' = Balance(v, c) - paid
    <3> HIDE DEF paid
    <3> QED BY <1>3, <2>1, <2>2, SumsAre DEF Balance, KeeperHas
  <2> QED BY <1>2, <1>3, <2>3
<1>6. CASE /\ gift_receipts' = gift_receipts \cup {r} /\ r \notin gift_receipts
           /\ UNCHANGED shop_receipts
  <2>1. PaidFor(gift_receipts', v, c) = PaidFor(gift_receipts, v, c) + paid
    BY <1>1, <1>4, <1>6, PaidMore
  <2>2. PaidFor(shop_receipts', v, c) = PaidFor(shop_receipts, v, c)
    BY <1>6
  <2>3. Balance(v, c)' = Balance(v, c) - paid
    <3> HIDE DEF paid
    <3> QED BY <1>3, <2>1, <2>2, SumsAre DEF Balance, KeeperHas
  <2> QED BY <1>2, <1>3, <2>3
<1> QED BY <1>5, <1>6

LEMMA CommerceBalanced ==
    ASSUME Typed, Balanced, CommerceNext, UNCHANGED <<upkeepOnlyVars, rewardsOnlyVars>>
    PROVE  Balanced'
<1> USE DEF upkeepOnlyVars, renewalVars, upgradeVars, rewardsOnlyVars, questVars
<1>1. ASSUME NEW g, Reprice(g) \/ EnableOffer(g) PROVE Balanced'
  BY <1>1, BalancedSame DEF Reprice, EnableOffer, storeVars
<1>2. ASSUME NEW u \in Buyers, NEW op, NEW g \in Goods, NEW quote, Purchase(u, op, g, quote) PROVE Balanced'
  <2> DEFINE r == [uid |-> u, op |-> op, key |-> g, quote |-> quote, instance |-> NextInstance]
  <2>1. /\ r.uid = u /\ r.key = g /\ r.quote = offers[g] /\ r \notin shop_receipts
    BY <1>2 DEF Purchase, Ordered, Current, Cost
  <2>2. /\ shop_receipts' = shop_receipts \cup {r} /\ UNCHANGED gift_receipts
        /\ Debit(u, Currency(g), offers[g]) /\ u \in Users
    BY <1>2, CommerceAssumption DEF Purchase, Cost, CommerceAssumption
  <2> HIDE DEF r
  <2> QED BY <2>1, <2>2, OrderBalanced
<1>3. ASSUME NEW u \in Buyers, NEW op, NEW g \in Goods, NEW quote, NEW to, Gift(u, op, g, quote, to) PROVE Balanced'
  <2> DEFINE r == [uid |-> u, op |-> op, key |-> g, quote |-> quote, mail |-> Len(mailbox) + 1]
  <2>1. /\ r.uid = u /\ r.key = g /\ r.quote = offers[g] /\ r \notin gift_receipts
    BY <1>3 DEF Gift, Ordered, Current, Cost
  <2>2. /\ gift_receipts' = gift_receipts \cup {r} /\ UNCHANGED shop_receipts
        /\ Debit(u, Currency(g), offers[g]) /\ u \in Users
    BY <1>3, CommerceAssumption DEF Gift, Cost, Currency, CommerceAssumption
  <2> HIDE DEF r
  <2> QED BY <2>1, <2>2, OrderBalanced
<1>4. ASSUME NEW u, NEW d, NEW item, Deliver(u, d, item) PROVE Balanced'
  BY <1>4, BalancedSame DEF Deliver, storeVars
<1>5. ASSUME NEW u, NEW m, Preview(u, m) \/ Delete(u, m) \/ CloseMail(u) \/ Claim(u, m) PROVE Balanced'
  BY <1>5, BalancedSame DEF Preview, Delete, CloseMail, Claim, storeVars
<1> QED BY <1>1, <1>2, <1>3, <1>4, <1>5 DEF CommerceNext

LEMMA LeaseBalanced ==
    ASSUME Typed, Balanced, AtLeases, UNCHANGED <<commerceVars, rewardsOnlyVars>>
    PROVE  Balanced'
<1> USE DEF commerceVars, rewardsOnlyVars, questVars
<1>1. CASE RecordRenewal \/ QuoteRenewal \/ ExpireRenewal \/ Tick \/ Publish \/ Disconnect
  BY <1>1, BalancedSame
     DEF RecordRenewal, QuoteRenewal, ExpireRenewal, Tick, Publish, Disconnect, storeVars, renewalVars, upgradeVars
<1>2. ASSUME NEW x, EnableRenewal(x) \/ ConfigureUpgrades(x) PROVE Balanced'
  BY <1>2, BalancedSame DEF EnableRenewal, ConfigureUpgrades, storeVars, renewalVars, upgradeVars
<1>3. CASE UNCHANGED upkeepOnlyVars /\ (Game \/ Dress)
  BY <1>3, BalancedSame, GameSame DEF upkeepOnlyVars, renewalVars, upgradeVars
<1>4. ASSUME NEW i, Renew(i) PROVE Balanced'
  <2> DEFINE r == [operation |-> renewal_quote.operation, paid |-> renewal_quote.offer.record]
  <2>1. /\ r.paid = renewal_record /\ r \notin renewal_receipts
        /\ renewal_receipts' = renewal_receipts \cup {r}
    BY <1>4 DEF Renew, Unchanged, Executable
  <2>2. Debit(Keeper, "ticket", renewal_record) /\ Keeper \in Users /\ "ticket" \in Currencies
    BY <1>4, GearAssumption DEF Renew, Unchanged, Currencies, GearAssumption
  <2>3. UNCHANGED <<shop_receipts, gift_receipts, upgrade_receipts, rewarded>>
    BY <1>4 DEF Renew, upgradeVars
  <2> HIDE DEF r
  <2> SUFFICES ASSUME NEW v \in Users, NEW c \in Currencies
               PROVE  wallet'[v][c] = Balance(v, c)'
    BY DEF Balanced
  <2>4. Renewed(renewal_receipts') = Renewed(renewal_receipts) + renewal_record /\ renewal_record \in Nat
    BY <2>1, RenewedMore DEF Typed
  <2>5. wallet'[v][c] = wallet[v][c] - IF v = Keeper /\ c = "ticket" THEN renewal_record ELSE 0
    BY <2>2, <2>4, DebitIs
  <2>6. Balance(v, c)' = Balance(v, c) - IF v = Keeper /\ c = "ticket" THEN renewal_record ELSE 0
    BY <2>3, <2>4, SumsAre DEF Balance, KeeperHas, Currencies
  <2> QED BY <2>5, <2>6 DEF Balanced
<1>5. ASSUME NEW i, NEW success, Attempt(i, success) PROVE Balanced'
  <2>1. wallet[Keeper]["gold"] >= 1 /\ wallet' = [wallet EXCEPT ![Keeper]["gold"] = @ - 1]
    BY <1>5 DEF Attempt, Afforded
  <2>2. Debit(Keeper, "gold", 1) /\ Keeper \in Users /\ "gold" \in Currencies
    BY <2>1, GearAssumption DEF Debit, Currencies, GearAssumption
  <2>3. UNCHANGED <<shop_receipts, gift_receipts, renewal_receipts, rewarded>> /\ upgrade_receipts' = upgrade_receipts + 1
    BY <1>5 DEF Attempt, renewalVars
  <2> SUFFICES ASSUME NEW v \in Users, NEW c \in Currencies
               PROVE  wallet'[v][c] = Balance(v, c)'
    BY DEF Balanced
  <2>4. wallet'[v][c] = wallet[v][c] - IF v = Keeper /\ c = "gold" THEN 1 ELSE 0
    BY <2>2, DebitIs
  <2>5. Balance(v, c)' = Balance(v, c) - IF v = Keeper /\ c = "gold" THEN 1 ELSE 0
    BY <2>3, SumsAre DEF Balance, KeeperHas, Currencies
  <2> QED BY <2>4, <2>5 DEF Balanced
<1> QED BY <1>1, <1>2, <1>3, <1>4, <1>5 DEF AtLeases, LeaseNext

LEMMA GrantBalanced ==
    ASSUME Typed, Accounted, Balanced, NEW done, done \subseteq DOMAIN Tasks, \A q \in done : Reward(q) \in Nat,
           GrantAll(done), UNCHANGED <<shop_receipts, gift_receipts, renewal_receipts, upgrade_receipts>>
    PROVE  Balanced'
<1> DEFINE due == SumFunction([q \in done |-> Reward(q)])
<1>1. Earnings(rewarded') = Earnings(rewarded) + due /\ due \in Int
  BY EarningsGrow
<1>2. Credit(Keeper, "gold", due) /\ Keeper \in Users /\ "gold" \in Currencies
  BY GrantIs, GearAssumption DEF Currencies, GearAssumption
<1> HIDE DEF due
<1> SUFFICES ASSUME NEW v \in Users, NEW c \in Currencies
             PROVE  wallet'[v][c] = Balance(v, c)'
  BY DEF Balanced
<1>3. wallet'[v][c] = wallet[v][c] + IF v = Keeper /\ c = "gold" THEN due ELSE 0
  BY <1>1, <1>2, CreditIs
<1>4. Balance(v, c)' = Balance(v, c) + IF v = Keeper /\ c = "gold" THEN due ELSE 0
  BY <1>1, SumsAre DEF Balance, KeeperHas, Currencies
<1> QED BY <1>3, <1>4 DEF Balanced

LEMMA RewardsBalanced ==
    ASSUME Typed, Accounted, Balanced, AtQuests \/ AtTitles \/ AtTraining, UNCHANGED <<commerceVars, upkeepOnlyVars>>
    PROVE  Balanced'
<1> USE DEF commerceVars, upkeepOnlyVars, renewalVars, upgradeVars
<1>1. CASE \/ BattleNext \/ TrainingNext \/ Forget \/ List("daily") \/ CompleteTutorial
           \/ \E q : SetAvailable(q)
           \/ \E level, offered : Issue(level) \/ ConfigureTitle(level, offered)
  BY <1>1, RewardsSame, BalancedSame
<1>2. ASSUME NEW outcome, Settle(outcome) PROVE Balanced'
  BY <1>2, BalancedSame DEF Settle, storeVars
<1>3. ASSUME NEW q, NEW gold, Accept(q) \/ Cancel(q) \/ SetRule(q, gold) \/ ClaimTitle(q) PROVE Balanced'
  BY <1>3, BalancedSame DEF Accept, Cancel, SetRule, ClaimTitle, storeVars, questVars
<1>4. ASSUME Refresh PROVE Balanced'
  <2> DEFINE done == {q \in DOMAIN Tasks : Complete(q)}
  <2>1. UNCHANGED <<storeVars, rewarded>> \/ GrantAll(done)
    BY <1>4 DEF Refresh
  <2>2. done \subseteq DOMAIN Tasks /\ \A q \in done : Reward(q) \in Nat
    BY DueIs DEF Complete
  <2> HIDE DEF done
  <2> QED BY <2>1, <2>2, GrantBalanced, BalancedSame DEF storeVars
<1>5. ASSUME NEW q \in DOMAIN Tasks, ClaimTask(q) PROVE Balanced'
  <2>1. Reward(q) \in Nat /\ GrantAll({q})
    BY <1>5, DueIs DEF ClaimTask
  <2>2. {q} \subseteq DOMAIN Tasks /\ \A r \in {q} : Reward(r) \in Nat
    BY <2>1
  <2> QED BY <2>1, <2>2, GrantBalanced
<1> QED BY <1>1, <1>2, <1>3, <1>4, <1>5
        DEF AtQuests, AtTitles, AtTraining, SettleNext, QuestNext, TitleNext, RulesNext

LEMMA BalancedStep ==
    ASSUME Typed, Accounted, Balanced, [Next]_vars
    PROVE  Balanced'
<1>1. CASE UNCHANGED vars
  BY <1>1, BalancedSame DEF vars, storeVars, commerceVars, upkeepOnlyVars, renewalVars, upgradeVars,
     rewardsOnlyVars, questVars
<1>2. ASSUME AtRepairs \/ (UNCHANGED upkeepOnlyVars /\ (AtTalismans \/ AtPotions)),
             UNCHANGED <<commerceVars, rewardsOnlyVars>>
      PROVE  Balanced'
  BY <1>2, UseSame, BalancedSame DEF commerceVars, rewardsOnlyVars, questVars
<1>3. CASE Next
  BY <1>2, <1>3, CommerceBalanced, LeaseBalanced, RewardsBalanced DEF Next
<1> QED BY <1>1, <1>3

LEMMA BalancedInitially ==
    ASSUME Init
    PROVE  Balanced
<1>1. /\ shop_receipts = {} /\ gift_receipts = {} /\ renewal_receipts = {} /\ rewarded = {} /\ upgrade_receipts = 0
      /\ wallet = [u \in Users |-> [c \in Currencies |-> Purse]]
  BY DEF Init, StoreInit, CommerceInit, UpkeepInit, RewardsInit
<1>2. Purse \in Int
  BY StoreAssumption DEF StoreAssumption
<1>3. ASSUME NEW u \in Users, NEW c \in Currencies
      PROVE  wallet[u][c] = Balance(u, c)
  <2>1. PaidFor({}, u, c) = 0 /\ Renewed({}) = 0 /\ Earnings({}) = 0
    BY PaidNothing
  <2> QED BY <1>1, <1>2, <2>1 DEF Balance, KeeperHas
<1> QED BY <1>3 DEF Balanced

\* However purchases, gifts, renewals, upgrades and rewards follow each other,
\* and however often one is sent again: every wallet is what its receipts say,
\* and none is overdrawn (Store.transaction; commerce.purchase, gift;
\* renewal.execute; grant_locked).
THEOREM BooksAlwaysBalance == Spec => []BooksBalance
<1> DEFINE Inv == ItemsInvariant /\ Balanced
<1>1. Init => Inv
  BY ItemsInductive, BalancedInitially
<1>2. Inv /\ [Next]_vars => Inv'
  BY ItemsInductive, BalancedStep DEF ItemsInvariant
<1>3. Inv => BooksBalance
  BY BalanceMeans DEF ItemsInvariant
<1> QED BY <1>1, <1>2, <1>3, PTL DEF Spec

-----------------------------------------------------------------------------
(* What is earned: tasks                                                   *)

\* The battles that count for a task since it was accepted.
Counting(q, before, battles) ==
    {b \in DOMAIN battles \ before : Daily(q) => battles[b] = "win"}
Since(q) == Counting(q, accepted[q].settled, settled)

Working(q) == State(q) \in {2, 4}

\* A task that is being worked on has no more to show than what was settled
\* since; one that is rewarded had enough, and is not begun again.
Worked ==
    /\ IsFiniteSet(DOMAIN settled)
    /\ DOMAIN accepted = DOMAIN Tasks
    /\ \A q \in DOMAIN Tasks : Working(q) =>
           /\ progress[q].rule = accepted[q].rule
           /\ accepted[q].settled \subseteq DOMAIN settled
           /\ ~Daily(q) => plays - progress[q].baseline <= Cardinality(Since(q))
           /\ Daily(q) => /\ progress[q].count <= Cardinality(Since(q))
                          /\ State(q) = 4 => Cardinality(Since(q)) >= Tasks[q].needed
    /\ \A r \in rewarded :
           /\ State(r.task) = 3
           /\ r.gold = accepted[r.task].rule
           /\ Cardinality(Since(r.task)) >= Tasks[r.task].needed
           /\ \A s \in rewarded : s.task = r.task => s = r

LEMMA WorkedMeans ==
    ASSUME Worked
    PROVE  TasksEarned
BY DEF Worked, TasksEarned, Since, Counting

LEMMA WorkedSame ==
    ASSUME Worked, UNCHANGED <<settled, accepted, progress, plays, rewarded>>
    PROVE  Worked'
BY DEF Worked, Working, State, Since, Counting

\* One more battle.
LEMMA CountingGrows ==
    ASSUME NEW q, NEW before, NEW battles, IsFiniteSet(DOMAIN battles), NEW b, b \notin DOMAIN battles,
           NEW outcome, NEW more, DOMAIN more = DOMAIN battles \cup {b}, more[b] = outcome,
           \A x \in DOMAIN battles : more[x] = battles[x]
    PROVE  /\ Cardinality(Counting(q, before, battles)) \in Nat /\ Cardinality(Counting(q, before, more)) \in Nat
           /\ Cardinality(Counting(q, before, battles)) <= Cardinality(Counting(q, before, more))
           /\ before \subseteq DOMAIN battles /\ (Daily(q) => outcome = "win")
                  => Cardinality(Counting(q, before, more)) = Cardinality(Counting(q, before, battles)) + 1
<1> DEFINE old == Counting(q, before, battles)
           new == Counting(q, before, more)
<1>1. /\ DOMAIN more = DOMAIN battles \cup {b} /\ more[b] = outcome
      /\ \A x \in DOMAIN battles : more[x] = battles[x]
  OBVIOUS
<1>2. IsFiniteSet(DOMAIN more)
  BY <1>1, FS_AddElement
<1>3. old \subseteq DOMAIN battles /\ new \subseteq DOMAIN more /\ old \subseteq new
  BY <1>1 DEF Counting
<1>4. IsFiniteSet(old) /\ IsFiniteSet(new) /\ Cardinality(old) <= Cardinality(new)
  BY <1>2, <1>3, FS_Subset
<1>5. Cardinality(old) \in Nat /\ Cardinality(new) \in Nat
  BY <1>4, FS_CardinalityType
<1>6. ASSUME before \subseteq DOMAIN battles, Daily(q) => outcome = "win"
      PROVE  Cardinality(new) = Cardinality(old) + 1
  <2>1. new = old \cup {b} /\ b \notin old
    BY <1>1, <1>6 DEF Counting
  <2> HIDE DEF new, old
  <2> QED BY <1>4, <2>1, FS_AddElement
<1> HIDE DEF new, old
<1>7. /\ Cardinality(old) \in Nat /\ Cardinality(new) \in Nat
      /\ Cardinality(old) <= Cardinality(new)
      /\ before \subseteq DOMAIN battles /\ (Daily(q) => outcome = "win")
             => Cardinality(new) = Cardinality(old) + 1
  BY <1>4, <1>5, <1>6
<1> QED BY <1>7 DEF new, old

LEMMA SettleWorked ==
    ASSUME Typed, Worked, NEW outcome, Settle(outcome)
    PROVE  Worked'
<1>1. /\ settled' = Adding(settled, [b \in {serial} |-> outcome]) /\ serial \notin DOMAIN settled
      /\ UNCHANGED <<accepted, rewarded>>
      /\ progress' = [q \in DOMAIN Tasks |-> IF Counts(q) THEN Counted(q, outcome) ELSE progress[q]]
      /\ plays' \in Nat /\ plays \in Nat /\ plays' <= plays + 1
  BY DEF Settle, Unsettled, questVars, Typed
<1>2. IsFiniteSet(DOMAIN settled') /\ DOMAIN settled' = DOMAIN settled \cup {serial}
  <2>1. DOMAIN settled' = DOMAIN settled \cup {serial}
    BY <1>1 DEF Adding
  <2> QED BY <2>1, FS_AddElement DEF Worked
<1>3. ASSUME NEW q
      PROVE  /\ Cardinality(Since(q)) \in Nat /\ Cardinality(Since(q)') \in Nat
             /\ Cardinality(Since(q)) <= Cardinality(Since(q)')
             /\ accepted[q].settled \subseteq DOMAIN settled /\ (Daily(q) => outcome = "win")
                      => Cardinality(Since(q)') = Cardinality(Since(q)) + 1
  <2>1. Since(q)' = Counting(q, accepted[q].settled, settled')
    BY <1>1 DEF Since, Counting
  <2>2. IsFiniteSet(DOMAIN settled) /\ serial \notin DOMAIN settled
        /\ DOMAIN settled' = DOMAIN settled \cup {serial} /\ settled'[serial] = outcome
        /\ \A b \in DOMAIN settled : settled'[b] = settled[b]
    BY <1>1 DEF Worked, Adding
  <2> DEFINE before == accepted[q].settled
  <2>3. /\ Cardinality(Counting(q, before, settled)) \in Nat /\ Cardinality(Counting(q, before, settled')) \in Nat
        /\ Cardinality(Counting(q, before, settled)) <= Cardinality(Counting(q, before, settled'))
        /\ before \subseteq DOMAIN settled /\ (Daily(q) => outcome = "win")
               => Cardinality(Counting(q, before, settled')) = Cardinality(Counting(q, before, settled)) + 1
    <3> HIDE DEF before
    <3>1. \A p : Cardinality(Counting(q, p, settled)) \in Nat
      BY <2>2, CountingGrows
    <3>2. Cardinality(Counting(q, before, settled)) <= Cardinality(Counting(q, before, settled'))
      BY <2>2, CountingGrows
    <3>3. before \subseteq DOMAIN settled /\ (Daily(q) => outcome = "win")
               => Cardinality(Counting(q, before, settled')) = Cardinality(Counting(q, before, settled)) + 1
      BY <2>2, CountingGrows
    <3>4. Cardinality(Counting(q, before, settled')) \in Nat
      BY <2>2, CountingGrows
    <3> QED BY <3>1, <3>2, <3>3, <3>4
  <2> QED BY <2>1, <2>3 DEF Since
<1>4. ASSUME NEW q \in DOMAIN Tasks
      PROVE  /\ State(q)' = 3 <=> State(q) = 3
             /\ Working(q)' <=> Working(q)
             /\ Working(q) => progress'[q].rule = progress[q].rule /\ progress'[q].baseline = progress[q].baseline
             /\ ~Daily(q) => progress'[q] = progress[q]
             /\ Daily(q) /\ Working(q) =>
                    \/ State(q)' = State(q) /\ progress'[q].count = progress[q].count
                    \/ /\ progress'[q].count <= progress[q].count + (IF outcome = "win" THEN 1 ELSE 0)
                       /\ State(q)' = 4 => progress'[q].count >= Tasks[q].needed
  <2>1. CASE Counts(q)
    <3>1. LET p == progress[q]
              new == Counted(q, outcome)
          IN  /\ p \in Rows /\ p.state = 2 /\ p.rule \in Nat
              /\ new \in Rows /\ new.rule = p.rule /\ new.baseline = p.baseline
              /\ new.count <= p.count + (IF outcome = "win" THEN 1 ELSE 0)
              /\ \/ new.state = 2
                 \/ new.state = 4 /\ new.count >= Tasks[q].needed
      BY <2>1, CountedIs
    <3>2. progress'[q] = Counted(q, outcome) /\ progress'[q] # None /\ progress[q] # None /\ Daily(q)
      BY <1>1, <2>1, <3>1, RowIs DEF Counts
    <3>3. State(q) = progress[q].state /\ State(q)' = progress'[q].state
      BY <3>2 DEF State
    <3> QED BY <3>1, <3>2, <3>3 DEF Working
  <2>2. CASE ~Counts(q)
    <3>1. progress'[q] = progress[q]
      BY <1>1, <2>2
    <3> QED BY <3>1 DEF State, Working
  <2> QED BY <2>1, <2>2
<1>5. ASSUME NEW q \in DOMAIN Tasks, Working(q)'
      PROVE  /\ progress'[q].rule = accepted'[q].rule
             /\ accepted'[q].settled \subseteq DOMAIN settled'
             /\ ~Daily(q) => plays' - progress'[q].baseline <= Cardinality(Since(q)')
             /\ Daily(q) => /\ progress'[q].count <= Cardinality(Since(q)')
                            /\ State(q)' = 4 => Cardinality(Since(q)') >= Tasks[q].needed
  <2>1. /\ Working(q) /\ progress[q].rule = accepted[q].rule /\ accepted[q].settled \subseteq DOMAIN settled
        /\ ~Daily(q) => plays - progress[q].baseline <= Cardinality(Since(q))
        /\ Daily(q) => /\ progress[q].count <= Cardinality(Since(q))
                       /\ State(q) = 4 => Cardinality(Since(q)) >= Tasks[q].needed
    BY <1>4, <1>5 DEF Worked
  <2>2. progress[q] \in Rows /\ (progress'[q] \in Rows \/ ~Daily(q))
    <3>1. progress[q] \in Rows
      BY <2>1, StateIs DEF Working
    <3>2. Counts(q) => Counted(q, outcome) \in Rows
      BY CountedIs
    <3> QED BY <1>1, <3>1, <3>2
  <2>3. progress[q].baseline \in Nat /\ progress[q].count \in Nat /\ Tasks[q].needed \in Nat
    <3>1. progress[q] \in Rows
      BY <2>1, StateIs DEF Working
    <3> QED BY <3>1, RewardsAssumption DEF Rows, RewardsAssumption
  <2>4. ~Daily(q) => plays' - progress'[q].baseline <= Cardinality(Since(q)')
    BY <1>1, <1>3, <1>4, <2>1, <2>3
  <2>5. ASSUME Daily(q)
        PROVE  /\ progress'[q].count <= Cardinality(Since(q)')
               /\ State(q)' = 4 => Cardinality(Since(q)') >= Tasks[q].needed
    <3>1. progress'[q].count \in Nat
      BY <2>2, <2>5 DEF Rows
    <3>2. CASE outcome = "win"
      <4>1. Cardinality(Since(q)') = Cardinality(Since(q)) + 1
        BY <1>3, <2>1, <3>2
      <4> QED BY <1>3, <1>4, <2>1, <2>3, <2>5, <3>1, <3>2, <4>1
    <3>3. CASE outcome # "win"
      BY <1>3, <1>4, <2>1, <2>3, <2>5, <3>1, <3>3
    <3> QED BY <3>2, <3>3
  <2> QED BY <1>1, <1>2, <1>4, <2>1, <2>4, <2>5
<1>6. ASSUME NEW r \in rewarded'
      PROVE  /\ State(r.task)' = 3
             /\ r.gold = accepted'[r.task].rule
             /\ Cardinality(Since(r.task)') >= Tasks[r.task].needed
             /\ \A s \in rewarded' : s.task = r.task => s = r
  <2>1. r \in rewarded /\ r.task \in DOMAIN Tasks
    BY <1>1 DEF Typed, Payouts
  <2>2. Tasks[r.task].needed \in Nat
    BY <2>1, RewardsAssumption DEF RewardsAssumption
  <2>3. Cardinality(Since(r.task)) >= Tasks[r.task].needed
    BY <2>1 DEF Worked
  <2>4. Cardinality(Since(r.task)') >= Tasks[r.task].needed
    BY <1>3, <2>2, <2>3
  <2>5. State(r.task)' = 3
    BY <1>4, <2>1 DEF Worked
  <2> QED BY <1>1, <2>1, <2>4, <2>5 DEF Worked
<1>7. DOMAIN accepted' = DOMAIN Tasks
  BY <1>1 DEF Worked
<1> QED BY <1>2, <1>5, <1>6, <1>7 DEF Worked

LEMMA AcceptWorked ==
    ASSUME Typed, Worked, NEW q \in DOMAIN Tasks, Accept(q) \/ Cancel(q)
    PROVE  Worked'
<1>1. UNCHANGED <<settled, plays, rewarded>> /\ State(q) \in {1, 2}
  BY DEF Accept, Cancel, progressVars
<1>2. /\ \A r \in rewarded : r.task # q /\ r.task \in DOMAIN Tasks
      /\ \A t \in DOMAIN Tasks : t # q => accepted'[t] = accepted[t] /\ progress'[t] = progress[t]
      /\ DOMAIN accepted' = DOMAIN Tasks
  BY <1>1 DEF Accept, Cancel, Worked, Typed, Payouts
<1>3. /\ \A t \in DOMAIN Tasks : t # q => State(t)' = State(t) /\ Since(t)' = Since(t)
      /\ \A r \in rewarded : State(r.task)' = 3
  BY <1>1, <1>2 DEF State, Since, Counting, Worked
<1>4. /\ progress'[q].rule = accepted'[q].rule
      /\ accepted'[q].settled \subseteq DOMAIN settled'
      /\ ~Daily(q) => plays' - progress'[q].baseline <= Cardinality(Since(q)')
      /\ Daily(q) => /\ progress'[q].count <= Cardinality(Since(q)')
                     /\ State(q)' = 4 => Cardinality(Since(q)') >= Tasks[q].needed
      \/ ~Working(q)'
  <2>1. CASE Accept(q)
    <3> DEFINE row == [state |-> 2, baseline |-> plays, count |-> 0, rule |-> rules[q]]
    <3>1. progress'[q] = row /\ accepted'[q].settled = DOMAIN settled /\ accepted'[q].rule = rules[q]
      BY <2>1 DEF Accept, Typed, Worked
    <3>2. row \in Rows /\ row.baseline = plays /\ row.count = 0 /\ row.rule = rules[q] /\ row.state = 2
      BY DEF Typed, Rows
    <3> HIDE DEF row
    <3>3. State(q)' = 2
      BY <3>1, <3>2, RowIs DEF State
    <3>4. Since(q)' = {}
      BY <1>1, <3>1 DEF Since, Counting
    <3>5. Cardinality(Since(q)') = 0
      BY <3>4, FS_EmptySet
    <3>6. plays - plays <= 0 /\ plays' = plays
      BY <1>1 DEF Typed
    <3> QED BY <1>1, <3>1, <3>2, <3>3, <3>5, <3>6
  <2>2. CASE Cancel(q)
    <3>1. progress'[q] = Dropped(q) /\ Dropped(q) \in Rows /\ Dropped(q).state = 1
      BY <2>2, DroppedIs DEF Cancel, Typed
    <3>2. State(q)' = 1
      BY <3>1, RowIs DEF State
    <3> QED BY <3>2 DEF Working
  <2> QED BY <2>1, <2>2
<1>5. ASSUME NEW t \in DOMAIN Tasks, Working(t)', t # q
      PROVE  /\ progress'[t].rule = accepted'[t].rule
             /\ accepted'[t].settled \subseteq DOMAIN settled'
             /\ ~Daily(t) => plays' - progress'[t].baseline <= Cardinality(Since(t)')
             /\ Daily(t) => /\ progress'[t].count <= Cardinality(Since(t)')
                            /\ State(t)' = 4 => Cardinality(Since(t)') >= Tasks[t].needed
  <2>1. Working(t)
    BY <1>3, <1>5 DEF Working
  <2> QED BY <1>1, <1>2, <1>3, <1>5, <2>1 DEF Worked
<1>6. ASSUME NEW r \in rewarded'
      PROVE  /\ State(r.task)' = 3
             /\ r.gold = accepted'[r.task].rule
             /\ Cardinality(Since(r.task)') >= Tasks[r.task].needed
             /\ \A s \in rewarded' : s.task = r.task => s = r
  BY <1>1, <1>2, <1>3 DEF Worked
<1>7. IsFiniteSet(DOMAIN settled')
  BY <1>1 DEF Worked
<1> QED BY <1>2, <1>4, <1>5, <1>6, <1>7 DEF Worked

\* Tasks are rewarded that had enough.
LEMMA GrantWorked ==
    ASSUME Typed, Worked, NEW done, done \subseteq DOMAIN Tasks,
           \A q \in done : Working(q) /\ Cardinality(Since(q)) >= Tasks[q].needed,
           rewarded' = rewarded \cup {Payout(q, done) : q \in done},
           \A q \in DOMAIN Tasks : IF q \in done THEN State(q)' = 3 ELSE progress'[q] = progress[q],
           UNCHANGED <<settled, accepted, plays>>
    PROVE  Worked'
<1>1. \A q \in done : /\ Payout(q, done).task = q /\ Payout(q, done).gold = progress[q].rule
  BY DEF Payout, Reward
<1>2. \A q : Since(q)' = Since(q)
  BY DEF Since, Counting
<1>3. \A q \in DOMAIN Tasks : Working(q)' => /\ q \notin done /\ Working(q) /\ State(q)' = State(q)
                                             /\ progress'[q] = progress[q]
  BY DEF Working, State
<1>4. \A r \in rewarded : r.task \in DOMAIN Tasks /\ r.task \notin done /\ State(r.task)' = 3
  <2> SUFFICES ASSUME NEW r \in rewarded
               PROVE  r.task \in DOMAIN Tasks /\ r.task \notin done /\ State(r.task)' = 3
    OBVIOUS
  <2>1. r.task \in DOMAIN Tasks /\ State(r.task) = 3
    BY DEF Typed, Payouts, Worked
  <2>2. r.task \notin done
    BY <2>1 DEF Working
  <2> QED BY <2>1, <2>2 DEF State
<1>5. ASSUME NEW r \in rewarded'
      PROVE  /\ State(r.task)' = 3
             /\ r.gold = accepted'[r.task].rule
             /\ Cardinality(Since(r.task)') >= Tasks[r.task].needed
             /\ \A s \in rewarded' : s.task = r.task => s = r
  <2>1. CASE r \in rewarded
    BY <1>1, <1>2, <1>4, <2>1 DEF Worked
  <2>2. CASE r \notin rewarded
    <3>1. PICK q \in done : r = Payout(q, done)
      BY <2>2
    <3>2. progress[q].rule = accepted[q].rule
      BY DEF Worked
    <3> QED BY <1>1, <1>2, <1>4, <3>1, <3>2
  <2> QED BY <2>1, <2>2
<1>6. ASSUME NEW q \in DOMAIN Tasks, Working(q)'
      PROVE  /\ progress'[q].rule = accepted'[q].rule
             /\ accepted'[q].settled \subseteq DOMAIN settled'
             /\ ~Daily(q) => plays' - progress'[q].baseline <= Cardinality(Since(q)')
             /\ Daily(q) => /\ progress'[q].count <= Cardinality(Since(q)')
                            /\ State(q)' = 4 => Cardinality(Since(q)') >= Tasks[q].needed
  BY <1>2, <1>3, <1>6 DEF Worked
<1> QED BY <1>5, <1>6 DEF Worked

LEMMA RefreshWorked ==
    ASSUME Typed, Worked, Refresh
    PROVE  Worked'
<1> DEFINE done == {q \in DOMAIN Tasks : Complete(q)}
           rows == [q \in DOMAIN Tasks |-> IF q \in done THEN [progress[q] EXCEPT !.state = 3] ELSE progress[q]]
<1>1. /\ progress' = rows /\ UNCHANGED <<settled, accepted, plays>>
      /\ (done = {} /\ UNCHANGED rewarded) \/ GrantAll(done)
  BY DEF Refresh, progressVars
<1>2. ASSUME NEW q \in done
      PROVE  Working(q) /\ Cardinality(Since(q)) >= Tasks[q].needed /\ State(q)' = 3
  <2>1. /\ q \in DOMAIN Tasks /\ State(q) = 2 /\ ~Daily(q) /\ Working(q)
        /\ plays - progress[q].baseline >= Tasks[q].needed
    BY DEF Complete, Working
  <2>2. progress[q] \in Rows /\ progress[q].baseline \in Nat /\ Tasks[q].needed \in Nat /\ plays \in Nat
    BY <2>1, StateIs, RewardsAssumption DEF Rows, RewardsAssumption, Typed
  <2>3. plays - progress[q].baseline <= Cardinality(Since(q))
    BY <2>1 DEF Worked
  <2>4. Cardinality(Since(q)) \in Nat
    <3>1. Since(q) \subseteq DOMAIN settled /\ IsFiniteSet(DOMAIN settled)
      BY DEF Since, Counting, Worked
    <3>2. IsFiniteSet(Since(q))
      BY <3>1, FS_Subset
    <3> QED BY <3>2, FS_CardinalityType
  <2>5. progress'[q] = [progress[q] EXCEPT !.state = 3]
    BY <1>1, <2>1
  <2>6. 3 \in 1 .. 4
    OBVIOUS
  <2>7. progress'[q] \in Rows /\ progress'[q].state = 3
    <3>1. [progress[q] EXCEPT !.state = 3] \in Rows /\ [progress[q] EXCEPT !.state = 3].state = 3
      BY <2>2, <2>6, Restated
    <3> QED BY <2>5, <3>1
  <2>8. State(q)' = 3
    BY <2>7, RowIs DEF State
  <2>9. Cardinality(Since(q)) >= Tasks[q].needed
    <3> HIDE DEF done
    <3> QED BY <2>1, <2>2, <2>3, <2>4
  <2> QED BY <2>1, <2>8, <2>9
<1>3. \A q \in DOMAIN Tasks : q \notin done => progress'[q] = progress[q]
  BY <1>1
<1>4. done \subseteq DOMAIN Tasks
  OBVIOUS
<1> HIDE DEF done, rows
<1>5. rewarded' = rewarded \cup {Payout(q, done) : q \in done}
  BY <1>1, GrantIs
<1> QED BY <1>1, <1>2, <1>3, <1>4, <1>5, GrantWorked

LEMMA ClaimTaskWorked ==
    ASSUME Typed, Worked, NEW q \in DOMAIN Tasks, ClaimTask(q)
    PROVE  Worked'
<1>1. /\ GrantAll({q}) /\ UNCHANGED <<settled, accepted, plays>> /\ Daily(q) /\ State(q) = 4 /\ Working(q)
      /\ progress' = [progress EXCEPT ![q].state = 3]
  BY DEF ClaimTask, progressVars, Working
<1>2. Cardinality(Since(q)) >= Tasks[q].needed
  BY <1>1 DEF Worked
<1>3. progress[q] \in Rows /\ 3 \in 1 .. 4
  BY <1>1, StateIs
<1>4. progress'[q] = [progress[q] EXCEPT !.state = 3] /\ \A t \in DOMAIN Tasks : t # q => progress'[t] = progress[t]
  BY <1>1 DEF Typed
<1>5. progress'[q] \in Rows /\ progress'[q].state = 3
  <2>1. [progress[q] EXCEPT !.state = 3] \in Rows /\ [progress[q] EXCEPT !.state = 3].state = 3
    BY <1>3, Restated
  <2> QED BY <1>4, <2>1
<1>6. State(q)' = 3
  BY <1>5, RowIs DEF State
<1>7. rewarded' = rewarded \cup {Payout(t, {q}) : t \in {q}}
  BY <1>1, GrantIs
<1> DEFINE done == {q}
<1>8. /\ done \subseteq DOMAIN Tasks /\ \A t \in done : Working(t) /\ Cardinality(Since(t)) >= Tasks[t].needed
      /\ rewarded' = rewarded \cup {Payout(t, done) : t \in done}
      /\ \A t \in DOMAIN Tasks : IF t \in done THEN State(t)' = 3 ELSE progress'[t] = progress[t]
  BY <1>1, <1>2, <1>4, <1>6, <1>7
<1> HIDE DEF done
<1> QED BY <1>1, <1>8, GrantWorked

-----------------------------------------------------------------------------
(* What is earned: points                                                  *)

LEMMA MinIs ==
    ASSUME NEW a \in Int, NEW b \in Int
    PROVE  Min({a, b}) = IF a <= b THEN a ELSE b
<1> DEFINE m == IF a <= b THEN a ELSE b
<1>1. m \in {a, b} /\ \A y \in {a, b} : m <= y
  OBVIOUS
<1>2. \A x \in {a, b} : (\A y \in {a, b} : x <= y) => x = m
  OBVIOUS
<1> HIDE DEF m
<1>3. Min({a, b}) = m
  BY <1>1, <1>2 DEF Min
<1> QED BY <1>3 DEF m

LEMMA LeastIs ==
    ASSUME NEW a \in Int, NEW b \in Int, NEW c \in Int
    PROVE  LET m == Min({a, b, c}) IN m \in Int /\ m <= a /\ m <= b /\ m <= c
<1> DEFINE S == {a, b, c}
<1>1. \E x \in S : \A y \in S : x <= y
  OBVIOUS
<1>2. Min(S) \in S /\ \A y \in S : Min(S) <= y
  BY <1>1 DEF Min
<1> QED BY <1>2

Awards == SumFunction([b \in DOMAIN settled |-> Rate(settled[b])])
Wages == SumFunction([t \in DOMAIN training_claims |-> training_claims[t].points])

Hired == [hours : Nat \ {0}, points : Nat]

\* The intervals of training follow each other, and none reaches beyond now,
\* or into the one that runs.
Trained ==
    /\ hours \in Nat /\ training \in Nat \cup {None} /\ (training # None => training <= hours)
    /\ IsFiniteSet(DOMAIN training_claims)
    /\ \A t \in DOMAIN training_claims :
           /\ t \in Nat /\ training_claims[t] \in Hired
           /\ t + training_claims[t].hours <= hours
           /\ training # None => t + training_claims[t].hours <= training
           /\ training_claims[t].points <= training_claims[t].hours * PointsPerHour
           /\ \A s \in DOMAIN training_claims : s < t => s + training_claims[s].hours <= t

Scored == Trained /\ points = Min({MaxPoints, Awards + Wages})

LEMMA ScoredMeans ==
    ASSUME Scored
    PROVE  PointsEarned
<1> DEFINE paid(start) == (start + 1) .. (start + training_claims[start].hours)
<1> SUFFICES ASSUME NEW t \in DOMAIN training_claims
             PROVE  /\ paid(t) \subseteq 1 .. hours
                    /\ training_claims[t].points <= training_claims[t].hours * PointsPerHour
                    /\ \A s \in DOMAIN training_claims : s # t => paid(s) \cap paid(t) = {}
                    /\ training # None => paid(t) \cap (training + 1 .. hours) = {}
  BY DEF Scored, PointsEarned, Awards, Wages
<1>1. /\ \A s \in DOMAIN training_claims : s \in Nat /\ training_claims[s].hours \in Nat
      /\ hours \in Nat /\ t \in Nat /\ (training # None => training \in Nat)
  BY DEF Scored, Trained, Hired
<1>2. paid(t) \subseteq 1 .. hours
  BY <1>1 DEF Scored, Trained
<1>3. training_claims[t].points <= training_claims[t].hours * PointsPerHour
  BY DEF Scored, Trained
<1>4. ASSUME NEW s \in DOMAIN training_claims, s # t
      PROVE  paid(s) \cap paid(t) = {}
  <2>1. s + training_claims[s].hours <= t \/ t + training_claims[t].hours <= s
    <3>1. s < t \/ t < s
      BY <1>1, <1>4
    <3> QED BY <3>1 DEF Scored, Trained
  <2>2. s \in Nat /\ training_claims[s].hours \in Nat /\ training_claims[t].hours \in Nat
    BY <1>1
  <2> QED BY <1>1, <2>1, <2>2
<1>5. training # None => paid(t) \cap (training + 1 .. hours) = {}
  BY <1>1 DEF Scored, Trained
<1> QED BY <1>2, <1>3, <1>4, <1>5

LEMMA SumsScored ==
    ASSUME Worked, Trained
    PROVE  Awards \in Int /\ Wages \in Int /\ MaxPoints \in Int
<1> DEFINE f == [b \in DOMAIN settled |-> Rate(settled[b])]
           e == [t \in DOMAIN training_claims |-> training_claims[t].points]
<1>1. DOMAIN f = DOMAIN settled /\ \A b \in DOMAIN settled : f[b] \in Int
  BY DEF Rate
<1>2. DOMAIN e = DOMAIN training_claims /\ \A t \in DOMAIN training_claims : e[t] \in Int
  BY DEF Trained, Hired
<1>3. Awards = SumFunction(f) /\ Wages = SumFunction(e)
  BY DEF Awards, Wages
<1> HIDE DEF f, e
<1>4. SumFunction(f) \in Int
  BY <1>1, SumInt DEF SumFunction, Worked
<1>5. SumFunction(e) \in Int
  BY <1>2, SumInt DEF SumFunction, Trained
<1> QED BY <1>3, <1>4, <1>5, RewardsAssumption DEF RewardsAssumption

LEMMA ScoredSame ==
    ASSUME Scored, UNCHANGED <<points, settled, hours, training, training_claims>>
    PROVE  Scored'
BY DEF Scored, Trained, Awards, Wages

LEMMA SettleScored ==
    ASSUME Worked, Scored, NEW outcome, Settle(outcome)
    PROVE  Scored'
<1> DEFINE f == [b \in DOMAIN settled |-> Rate(settled[b])]
           e == [b \in DOMAIN settled' |-> Rate(settled'[b])]
           n == Rate(outcome)
<1>1. /\ settled' = Adding(settled, [b \in {serial} |-> outcome]) /\ serial \notin DOMAIN settled
      /\ points' = Min({points + n, MaxPoints}) /\ UNCHANGED <<hours, training, training_claims>>
  BY DEF Settle, Unsettled
<1>2. /\ DOMAIN settled' = DOMAIN settled \cup {serial} /\ settled'[serial] = outcome
      /\ \A b \in DOMAIN settled : settled'[b] = settled[b]
  BY <1>1 DEF Adding
<1>3. /\ DOMAIN f = DOMAIN settled /\ DOMAIN e = DOMAIN f \cup {serial} /\ e[serial] = n
      /\ \A b \in DOMAIN f : e[b] = f[b] /\ f[b] \in Int
  BY <1>2 DEF Rate
<1>4. n \in Nat
  BY DEF Rate
<1>5. Awards = SumFunction(f) /\ Awards' = SumFunction(e) /\ Wages' = Wages /\ Trained'
  BY <1>1 DEF Awards, Wages, Scored, Trained
<1> HIDE DEF f, e, n
<1>6. Awards' = Awards + n
  BY <1>1, <1>3, <1>4, <1>5, SumGrows DEF Worked
<1>7. Awards \in Int /\ Wages \in Int /\ MaxPoints \in Int /\ points = Min({MaxPoints, Awards + Wages})
  BY SumsScored DEF Scored
<1> DEFINE x == Awards + Wages
           y == Awards' + Wages'
<1>8. x \in Int /\ y \in Int /\ y = x + n
  BY <1>4, <1>5, <1>6, <1>7
<1> HIDE DEF x, y
<1>9. points = (IF MaxPoints <= x THEN MaxPoints ELSE x) /\ Min({MaxPoints, y}) = (IF MaxPoints <= y THEN MaxPoints ELSE y)
  <2>1. points = Min({MaxPoints, x})
    BY <1>7 DEF x
  <2> QED BY <1>7, <1>8, <2>1, MinIs
<1>10. points + n \in Int
  BY <1>4, <1>7, <1>8, <1>9
<1>11. points' = IF points + n <= MaxPoints THEN points + n ELSE MaxPoints
  BY <1>1, <1>7, <1>10, MinIs
<1>12. points' = Min({MaxPoints, y})
  BY <1>4, <1>7, <1>8, <1>9, <1>11
<1> QED BY <1>5, <1>12 DEF Scored, y

LEMMA TrainingScored ==
    ASSUME Worked, Scored, ClaimTraining
    PROVE  Scored'
<1> DEFINE h == hours - training
           product == h * PointsPerHour
           n == Min({product, PointsCap, MaxPoints - points})
           claim == [hours |-> h, points |-> n]
           f == [t \in DOMAIN training_claims |-> training_claims[t].points]
           e == [t \in DOMAIN training_claims' |-> training_claims'[t].points]
<1>1. /\ training # None /\ hours > training /\ training \notin DOMAIN training_claims /\ n > 0
      /\ points' = points + n /\ training' = None /\ UNCHANGED <<settled, hours>>
      /\ training_claims' = Adding(training_claims, [t \in {training} |-> claim])
  BY DEF ClaimTraining, Ended
<1>2. hours \in Nat /\ training \in Nat /\ h \in Nat \ {0} /\ training + h = hours
  BY <1>1 DEF Scored, Trained
<1>3. Awards \in Int /\ Wages \in Int /\ MaxPoints \in Int /\ points = Min({MaxPoints, Awards + Wages})
  BY SumsScored DEF Scored
<1> DEFINE x == Awards + Wages
<1>4. x \in Int /\ points = IF MaxPoints <= x THEN MaxPoints ELSE x
  BY <1>3, MinIs
<1>5. points \in Int /\ MaxPoints - points \in Int
  BY <1>3, <1>4
<1>6. n \in Nat \ {0} /\ n <= product /\ n <= MaxPoints - points
  <2>1. product \in Int /\ PointsCap \in Int
    BY <1>2, RewardsAssumption DEF RewardsAssumption
  <2> HIDE DEF product
  <2>2. n \in Int /\ n <= product /\ n <= MaxPoints - points
    BY <1>5, <2>1, LeastIs
  <2> HIDE DEF n
  <2> QED BY <1>1, <2>2
<1>7. /\ DOMAIN training_claims' = DOMAIN training_claims \cup {training} /\ training_claims'[training] = claim
      /\ \A t \in DOMAIN training_claims : training_claims'[t] = training_claims[t]
  BY <1>1 DEF Adding
<1> HIDE DEF n, h
<1>8. claim \in Hired /\ claim.hours = h /\ claim.points = n
  BY <1>2, <1>6 DEF Hired
<1> HIDE DEF claim
<1>9. Trained'
  <2>1. IsFiniteSet(DOMAIN training_claims')
    BY <1>7, FS_AddElement DEF Scored, Trained
  <2>2. ASSUME NEW t \in DOMAIN training_claims'
        PROVE  /\ t \in Nat /\ training_claims'[t] \in Hired
               /\ t + training_claims'[t].hours <= hours'
               /\ training_claims'[t].points <= training_claims'[t].hours * PointsPerHour
               /\ \A s \in DOMAIN training_claims' : s < t => s + training_claims'[s].hours <= t
    <3>1. \A s \in DOMAIN training_claims : /\ s \in Nat /\ training_claims[s].hours \in Nat
                                            /\ s + training_claims[s].hours <= training
      BY <1>1 DEF Scored, Trained, Hired
    <3>2. CASE t = training
      <4>1. training_claims'[t].points <= training_claims'[t].hours * PointsPerHour
        BY <1>6, <1>7, <1>8, <3>2
      <4> HIDE DEF product
      <4> QED BY <1>1, <1>2, <1>7, <1>8, <3>1, <3>2, <4>1
    <3>3. CASE t # training
      <4>1. t \in DOMAIN training_claims /\ training_claims'[t] = training_claims[t]
        BY <1>7, <3>3
      <4>2. ASSUME NEW s \in DOMAIN training_claims', s < t
            PROVE  s + training_claims'[s].hours <= t
        <5>1. CASE s = training
          <6>1. t <= training
            BY <1>2, <3>1, <4>1
          <6> QED BY <1>2, <3>1, <4>1, <4>2, <5>1, <6>1
        <5>2. CASE s # training
          BY <1>7, <4>1, <4>2, <5>2 DEF Scored, Trained
        <5> QED BY <5>1, <5>2
      <4> QED BY <1>1, <4>1, <4>2 DEF Scored, Trained
    <3> QED BY <3>2, <3>3
  <2> QED BY <1>1, <2>1, <2>2 DEF Scored, Trained
<1>10. /\ DOMAIN f = DOMAIN training_claims /\ DOMAIN e = DOMAIN f \cup {training} /\ e[training] = n
       /\ \A t \in DOMAIN f : e[t] = f[t] /\ f[t] \in Int
  BY <1>7, <1>8 DEF Scored, Trained, Hired
<1>11. Wages = SumFunction(f) /\ Wages' = SumFunction(e) /\ Awards' = Awards
  BY <1>1 DEF Awards, Wages
<1> HIDE DEF f, e, x, product
<1>12. Wages' = Wages + n
  BY <1>1, <1>6, <1>10, <1>11, SumGrows DEF Scored, Trained
<1>13. points = x /\ Awards' + Wages' = x + n /\ x + n <= MaxPoints
  <2>1. Awards' + Wages' = x + n
    BY <1>3, <1>6, <1>11, <1>12 DEF x
  <2> QED BY <1>3, <1>4, <1>6, <2>1
<1>14. points' = Min({MaxPoints, Awards' + Wages'})
  <2>1. x + n \in Int
    BY <1>4, <1>6
  <2>2. Min({MaxPoints, x + n}) = IF MaxPoints <= x + n THEN MaxPoints ELSE x + n
    BY <1>3, <2>1, MinIs
  <2> QED BY <1>1, <1>3, <1>13, <2>1, <2>2
<1> QED BY <1>9, <1>14 DEF Scored

LEMMA EarnedStep ==
    ASSUME Typed, Worked, Scored, [Next]_vars
    PROVE  Worked' /\ Scored'
<1>1. CASE UNCHANGED rewardsOnlyVars
  BY <1>1, WorkedSame, ScoredSame DEF rewardsOnlyVars, progressVars, questVars
<1>2. CASE AtQuests \/ AtTitles \/ AtTraining
  <2>1. ASSUME NEW outcome, Settle(outcome) PROVE Worked' /\ Scored'
    BY <2>1, SettleWorked, SettleScored
  <2>2. ASSUME NEW q \in DOMAIN Tasks, Accept(q) \/ Cancel(q) \/ ClaimTask(q) PROVE Worked' /\ Scored'
    <3>1. UNCHANGED progressVars
      BY <2>2 DEF Accept, Cancel, ClaimTask
    <3> QED BY <2>2, <3>1, AcceptWorked, ClaimTaskWorked, ScoredSame DEF progressVars
  <2>3. CASE Refresh
    <3>1. UNCHANGED progressVars
      BY <2>3 DEF Refresh
    <3> QED BY <2>3, <3>1, RefreshWorked, ScoredSame DEF progressVars
  <2>4. CASE BattleNext
    BY <2>4, WorkedSame, ScoredSame DEF BattleNext, progressVars, questVars
  <2>5. CASE Forget \/ List("daily") \/ CompleteTutorial
    BY <2>5, WorkedSame, ScoredSame DEF Forget, List, CompleteTutorial, progressVars, questVars
  <2>6. ASSUME NEW level, NEW x, Issue(level) \/ ConfigureTitle(level, x) \/ ClaimTitle(level) PROVE Worked' /\ Scored'
    BY <2>6, WorkedSame, ScoredSame DEF Issue, ConfigureTitle, ClaimTitle, progressVars, questVars
  <2>7. ASSUME NEW q, NEW gold, SetAvailable(q) \/ SetRule(q, gold) PROVE Worked' /\ Scored'
    BY <2>7, WorkedSame, ScoredSame DEF SetAvailable, SetRule, progressVars, questVars
  <2>8. CASE Hour \/ StartTraining
    <3>1. UNCHANGED <<points, settled, training_claims, accepted, progress, plays, rewarded>>
      BY <2>8 DEF Hour, StartTraining, questVars
    <3>2. Trained'
      <4>1. /\ hours \in Nat /\ training \in Nat \cup {None} /\ (training # None => training <= hours)
            /\ \A t \in DOMAIN training_claims : t \in Nat /\ training_claims[t].hours \in Nat
            /\ None \notin Nat
        BY StoreAssumption DEF Scored, Trained, Hired, StoreAssumption
      <4>2. CASE Hour
        <5>1. hours' = hours + 1 /\ training' = training
          BY <4>2 DEF Hour
        <5> QED BY <3>1, <4>1, <5>1 DEF Scored, Trained
      <4>3. CASE StartTraining
        <5>1. hours' = hours /\ training' = hours
          BY <4>3 DEF StartTraining
        <5> QED BY <3>1, <4>1, <5>1 DEF Scored, Trained
      <4> QED BY <2>8, <4>2, <4>3
    <3>3. Awards' = Awards /\ Wages' = Wages
      BY <3>1 DEF Awards, Wages
    <3> QED BY <3>1, <3>2, <3>3, WorkedSame DEF Scored
  <2>9. CASE ClaimTraining
    <3>1. UNCHANGED <<settled, accepted, progress, plays, rewarded>>
      BY <2>9 DEF ClaimTraining, questVars
    <3> QED BY <2>9, <3>1, TrainingScored, WorkedSame
  <2> QED BY <1>2, <2>1, <2>2, <2>3, <2>4, <2>5, <2>6, <2>7, <2>8, <2>9
          DEF AtQuests, AtTitles, AtTraining, SettleNext, TrainingNext, QuestNext, TitleNext, RulesNext
<1>3. CASE UNCHANGED vars
  BY <1>1, <1>3 DEF vars
<1> QED BY <1>1, <1>2, <1>3 DEF Next

LEMMA EarnedInitially ==
    ASSUME Init
    PROVE  Worked /\ Scored
<1>1. /\ settled = <<>> /\ training_claims = <<>> /\ rewarded = {} /\ hours = 0 /\ training = None /\ points = 0
      /\ progress = [q \in DOMAIN Tasks |-> None] /\ accepted = [q \in DOMAIN Tasks |-> None]
  BY DEF Init, RewardsInit
<1>2. DOMAIN settled = {} /\ DOMAIN training_claims = {} /\ IsFiniteSet({})
  BY <1>1, FS_EmptySet
<1>3. Worked
  BY <1>1, <1>2 DEF Worked, Working, State
<1> DEFINE f == [b \in DOMAIN settled |-> Rate(settled[b])]
           e == [t \in DOMAIN training_claims |-> training_claims[t].points]
<1>4. DOMAIN f = {} /\ DOMAIN e = {} /\ Awards = SumFunction(f) /\ Wages = SumFunction(e)
  BY <1>2 DEF Awards, Wages
<1> HIDE DEF f, e
<1>5. Awards = 0 /\ Wages = 0
  BY <1>4, SumEmpty DEF SumFunction
<1>6. MaxPoints \in Nat
  BY RewardsAssumption DEF RewardsAssumption
<1>7. points = Min({MaxPoints, Awards + Wages})
  <2>1. Awards + Wages = 0
    BY <1>5
  <2>2. Min({MaxPoints, 0}) = 0
    <3>1. Min({MaxPoints, 0}) = IF MaxPoints <= 0 THEN MaxPoints ELSE 0
      BY <1>6, MinIs
    <3> QED BY <1>6, <3>1
  <2> QED BY <1>1, <2>1, <2>2
<1>8. Trained
  BY <1>1, <1>2, StoreAssumption DEF Trained, StoreAssumption
<1> QED BY <1>3, <1>7, <1>8 DEF Scored

\* Whatever the order of battles, refreshes, claims, changed rules and
\* disconnections: a task is rewarded once, at the terms of the day it was
\* accepted and for enough battles settled since; the score is what battles
\* and training earned, no hour of it twice; and of the titles at most one
\* waits for a choice, the one that the profile shows (settled_locked,
\* grant_locked, claim_training, issue_locked).
THEOREM RewardsAlwaysEarned == Spec => []RewardsEarned
<1> DEFINE Inv == ItemsInvariant /\ Worked /\ Scored
<1>1. Init => Inv
  BY ItemsInductive, EarnedInitially
<1>2. Inv /\ [Next]_vars => Inv'
  BY ItemsInductive, EarnedStep DEF ItemsInvariant
<1>3. Inv => RewardsEarned
  BY WorkedMeans, ScoredMeans DEF ItemsInvariant, Titled, RewardsEarned
<1> QED BY <1>1, <1>2, <1>3, PTL DEF Spec

-----------------------------------------------------------------------------
(* Stocks                                                                  *)

OfKind(items, kind) == {j \in DOMAIN items : items[j].kind = kind}

LEMMA QuantityIs ==
    ASSUME NEW items, IsFiniteSet(DOMAIN items), NEW kind, \A j \in OfKind(items, kind) : items[j].quantity \in Int
    PROVE  Quantity(items, kind) \in Int
<1> DEFINE f == [j \in OfKind(items, kind) |-> items[j].quantity]
<1>1. Quantity(items, kind) = SumFunction(f) /\ DOMAIN f = OfKind(items, kind) /\ \A j \in DOMAIN f : f[j] \in Int
  BY DEF Quantity, OfKind
<1>2. IsFiniteSet(OfKind(items, kind))
  BY FS_Subset DEF OfKind
<1> HIDE DEF f
<1> QED BY <1>1, <1>2, SumInt DEF SumFunction

\* The same things in the same numbers.
LEMMA QuantitySame ==
    ASSUME NEW a, IsFiniteSet(DOMAIN a), NEW b, DOMAIN b = DOMAIN a, NEW kind,
           \A j \in DOMAIN a : b[j].kind = a[j].kind /\ b[j].quantity = a[j].quantity
    PROVE  Quantity(b, kind) = Quantity(a, kind)
<1> DEFINE f == [j \in OfKind(a, kind) |-> a[j].quantity]
           e == [j \in OfKind(b, kind) |-> b[j].quantity]
<1>1. Quantity(a, kind) = SumFunction(f) /\ Quantity(b, kind) = SumFunction(e)
  BY DEF Quantity, OfKind
<1>2. OfKind(b, kind) = OfKind(a, kind)
  BY DEF OfKind
<1>3. IsFiniteSet(OfKind(a, kind)) /\ DOMAIN f = OfKind(a, kind) /\ DOMAIN e = DOMAIN f
  BY <1>2, FS_Subset DEF OfKind
<1>4. \A j \in DOMAIN f : f[j] = e[j]
  BY <1>2 DEF OfKind
<1> HIDE DEF f, e
<1> QED BY <1>1, <1>3, <1>4, SumSame DEF SumFunction

\* One thing changes its number.
LEMMA QuantityChanges ==
    ASSUME NEW a, IsFiniteSet(DOMAIN a), NEW b, DOMAIN b = DOMAIN a, NEW kind, NEW i \in DOMAIN a,
           \A j \in DOMAIN a : b[j].kind = a[j].kind /\ (j # i => b[j].quantity = a[j].quantity),
           \A j \in OfKind(a, kind) : a[j].quantity \in Int /\ b[j].quantity \in Int
    PROVE  /\ Quantity(a, kind) \in Int
           /\ Quantity(b, kind) =
                  IF a[i].kind = kind THEN Quantity(a, kind) - a[i].quantity + b[i].quantity ELSE Quantity(a, kind)
<1> DEFINE f == [j \in OfKind(a, kind) |-> a[j].quantity]
           e == [j \in OfKind(b, kind) |-> b[j].quantity]
<1>1. Quantity(a, kind) = SumFunction(f) /\ Quantity(b, kind) = SumFunction(e)
  BY DEF Quantity, OfKind
<1>2. OfKind(b, kind) = OfKind(a, kind)
  BY DEF OfKind
<1>3. IsFiniteSet(OfKind(a, kind)) /\ DOMAIN f = OfKind(a, kind) /\ DOMAIN e = DOMAIN f
  BY <1>2, FS_Subset DEF OfKind
<1>4. \A j \in DOMAIN f : f[j] \in Int /\ e[j] \in Int /\ (j # i => e[j] = f[j])
  BY <1>2 DEF OfKind
<1>5. CASE a[i].kind = kind
  <2>1. i \in DOMAIN f /\ f[i] = a[i].quantity /\ e[i] = b[i].quantity
    BY <1>2, <1>5 DEF OfKind
  <2> HIDE DEF f, e
  <2>2. SumFunction(e) = SumFunction(f) - f[i] + e[i] /\ SumFunction(f) \in Int
    BY <1>3, <1>4, <2>1, SumChanges
  <2> QED BY <1>1, <1>5, <2>1, <2>2
<1>6. CASE a[i].kind # kind
  <2>1. \A j \in DOMAIN f : f[j] = e[j]
    BY <1>4, <1>6 DEF OfKind
  <2> HIDE DEF f, e
  <2>2. SumFunction(e) = SumFunction(f) /\ SumFunction(f) \in Int
    BY <1>3, <1>4, <2>1, SumSame, SumInt DEF SumFunction
  <2> QED BY <1>1, <1>6, <2>2
<1> QED BY <1>5, <1>6

\* What is taken of the stacks: the first first, and needed in all.
LEMMA TakenIs ==
    ASSUME NEW n \in Nat, IsFiniteSet(Materials), \A i \in Materials : i \in Int /\ Mine[i].quantity \in Nat
    PROVE  LET f == [i \in Materials |-> Mine[i].quantity]
               g == [i \in Materials |-> Taken(i, n)]
           IN  /\ \A i \in Materials : g[i] \in Nat /\ g[i] <= f[i]
               /\ SumFunction(f) \in Int /\ (SumFunction(f) >= n => SumFunction(g) = n)
<1> DEFINE f == [i \in Materials |-> Mine[i].quantity]
           g == [i \in Materials |-> Taken(i, n)]
           below(i) == {k \in Materials : k < i}
           before(i) == SumFunctionOnSet(f, below(i))
           Prefix(P) == P \subseteq Materials /\ \A i \in P : below(i) \subseteq P
           least(x) == IF x <= n THEN x ELSE n
           Bad == {P \in SUBSET Materials : Prefix(P) /\ SumFunctionOnSet(g, P) # least(SumFunctionOnSet(f, P))}
<1>1. \A P \in SUBSET Materials : IsFiniteSet(P) /\ SumFunctionOnSet(f, P) \in Nat
  <2> SUFFICES ASSUME NEW P \in SUBSET Materials PROVE IsFiniteSet(P) /\ SumFunctionOnSet(f, P) \in Nat
    OBVIOUS
  <2>1. IsFiniteSet(P)
    BY FS_Subset
  <2>2. \A i \in P : f[i] \in Nat
    OBVIOUS
  <2> HIDE DEF f
  <2> QED BY <2>1, <2>2, SumNat
<1>2. ASSUME NEW i \in Materials
      PROVE  LET rest == n - before(i)
             IN  /\ before(i) \in Nat
                 /\ g[i] = IF rest <= 0 THEN 0 ELSE IF f[i] <= rest THEN f[i] ELSE rest
  <2> DEFINE h == [j \in below(i) |-> Mine[j].quantity]
             rest == n - before(i)
             m == Min({f[i], rest})
  <2>1. before(i) \in Nat /\ IsFiniteSet(below(i))
    BY <1>1
  <2>2. DOMAIN h = below(i) /\ \A j \in below(i) : h[j] = f[j]
    OBVIOUS
  <2>3. SumFunction(h) = before(i)
    <3> HIDE DEF h, f, below
    <3> QED BY <2>1, <2>2, SumSame DEF SumFunction
  <2>4. g[i] = Max({0, Min({Mine[i].quantity, n - SumFunction(h)})})
    BY DEF Taken
  <2>5. g[i] = Max({0, m})
    <3> HIDE DEF h, g, below
    <3> QED BY <2>3, <2>4
  <2>6. f[i] \in Nat /\ rest \in Int
    BY <2>1
  <2> HIDE DEF rest, f, g, h, before
  <2>7. m \in Int /\ m = IF f[i] <= rest THEN f[i] ELSE rest
    BY <2>6, MinIs
  <2> HIDE DEF m
  <2>8. Max({0, m}) = IF m <= 0 THEN 0 ELSE m
    <3> DEFINE S == {0, m}
               top == IF m <= 0 THEN 0 ELSE m
    <3>1. top \in S /\ (\A y \in S : top >= y) /\ \A x \in S : (\A y \in S : x >= y) => x = top
      BY <2>7
    <3> HIDE DEF top, S
    <3>2. Max(S) = top
      BY <3>1 DEF Max
    <3> QED BY <3>2 DEF top, S
  <2>9. g[i] = IF rest <= 0 THEN 0 ELSE IF f[i] <= rest THEN f[i] ELSE rest
    BY <2>5, <2>6, <2>7, <2>8
  <2> QED BY <2>1, <2>9 DEF rest
<1>3. \A i \in Materials : f[i] \in Nat
  OBVIOUS
<1>4. \A i \in Materials : g[i] \in Nat /\ g[i] <= f[i]
  <2> HIDE DEF f, g, before
  <2> QED BY <1>2, <1>3
<1>5. ASSUME Bad # {} PROVE FALSE
  <2>1. PICK P \in Bad : \A U \in Bad : U \subseteq P => U = P
    <3>1. Bad \subseteq SUBSET Materials
      OBVIOUS
    <3> HIDE DEF Bad
    <3> QED BY <1>5, <3>1, Smallest
  <2>2. P \subseteq Materials /\ Prefix(P) /\ SumFunctionOnSet(g, P) # least(SumFunctionOnSet(f, P))
    BY <2>1
  <2>3. P # {}
    <3>1. SumFunctionOnSet(g, {}) = 0 /\ SumFunctionOnSet(f, {}) = 0
      BY SumEmpty
    <3>2. least(0) = 0
      OBVIOUS
    <3> HIDE DEF f, g, least
    <3> QED BY <2>2, <3>1, <3>2
  <2> DEFINE i == Max(P)
             Q == P \ {i}
  <2>4. i \in P /\ \A y \in P : y <= i
    <3>1. IsFiniteSet(P) /\ P \subseteq Int
      BY <1>1, <2>2
    <3> QED BY <2>3, <3>1, MaxIs
  <2> HIDE DEF i
  <2>5. Q = below(i) /\ i \in Materials
    <3>1. \A k \in Q : k \in Materials /\ k < i
      BY <2>2, <2>4
    <3>2. \A k \in below(i) : k \in Q
      BY <2>2, <2>4
    <3> QED BY <2>2, <2>4, <3>1, <3>2
  <2>6. Q \in SUBSET Materials /\ Q \notin Bad /\ Prefix(Q)
    <3>1. Q \subseteq P /\ Q # P /\ Q \in SUBSET Materials
      BY <2>2, <2>4
    <3>2. Q \notin Bad
      <4> HIDE DEF Bad, Q
      <4> QED BY <2>1, <3>1
    <3>3. \A k \in Q : below(k) \subseteq Q
      <4> SUFFICES ASSUME NEW k \in Q, NEW l \in below(k) PROVE l \in Q
        OBVIOUS
      <4>1. k < i /\ l < k /\ l \in Materials /\ k \in Materials
        BY <2>5
      <4>2. l < i
        BY <2>5, <4>1
      <4> QED BY <2>5, <4>1, <4>2
    <3> QED BY <3>1, <3>2, <3>3
  <2>7. SumFunctionOnSet(g, Q) = least(before(i))
    <3>1. SumFunctionOnSet(g, Q) = least(SumFunctionOnSet(f, Q))
      BY <2>6
    <3> HIDE DEF f, g, least, Q, below
    <3> QED BY <2>5, <3>1
  <2>8. SumFunctionOnSet(g, P) = g[i] + SumFunctionOnSet(g, Q)
    <3>1. IsFiniteSet(P) /\ \A k \in P : g[k] \in Int
      <4> HIDE DEF g, f
      <4> QED BY <1>1, <1>4, <2>2
    <3> HIDE DEF g
    <3> QED BY <2>4, <3>1, SumRemove
  <2>9. SumFunctionOnSet(f, P) = f[i] + before(i)
    <3>1. IsFiniteSet(P) /\ \A k \in P : f[k] \in Int
      <4> HIDE DEF f
      <4> QED BY <1>1, <1>3, <2>2
    <3> HIDE DEF f, below
    <3>2. SumFunctionOnSet(f, P) = f[i] + SumFunctionOnSet(f, Q)
      BY <2>4, <3>1, SumRemove
    <3> QED BY <2>5, <3>2
  <2>10. /\ before(i) \in Nat /\ f[i] \in Nat
         /\ g[i] = IF n - before(i) <= 0 THEN 0 ELSE IF f[i] <= n - before(i) THEN f[i] ELSE n - before(i)
    BY <1>2, <1>3, <2>5
  <2>11. SumFunctionOnSet(g, P) = g[i] + least(before(i))
    BY <2>7, <2>8
  <2> HIDE DEF f, g, before
  <2>12. g[i] + least(before(i)) = least(f[i] + before(i))
    BY <2>10
  <2> HIDE DEF least
  <2> QED BY <2>2, <2>9, <2>11, <2>12
<1>6. SumFunctionOnSet(g, Materials) = least(SumFunctionOnSet(f, Materials))
  <2>1. Prefix(Materials) /\ Materials \in SUBSET Materials
    OBVIOUS
  <2>2. Materials \notin Bad
    <3> HIDE DEF Bad
    <3> QED BY <1>5
  <2> HIDE DEF f, g, least
  <2> QED BY <2>1, <2>2
<1>7. SumFunction(f) = SumFunctionOnSet(f, Materials) /\ SumFunction(g) = SumFunctionOnSet(g, Materials)
  BY DEF SumFunction
<1>8. SumFunctionOnSet(f, Materials) \in Nat
  BY <1>1
<1>9. /\ \A i \in Materials : g[i] \in Nat /\ g[i] <= f[i]
      /\ SumFunction(f) \in Int /\ (SumFunction(f) >= n => SumFunction(g) = n)
  <2> HIDE DEF f, g
  <2> QED BY <1>4, <1>6, <1>7, <1>8
<1> QED BY <1>9 DEF f, g

\* What is left of the potions is what was not used, and each use was announced.
PotionsKept ==
    /\ IsFiniteSet(consume_intents) /\ IsFiniteSet(consumption_events) /\ intents \in Nat
    /\ Quantity(Mine, "potion") = Quantity(First, "potion") - Cardinality(consumption_events)
    /\ Cardinality(consumption_events) + Cardinality(consume_intents) <= intents

\* What is left of the talismans and materials is what the receipts leave.
Tallied ==
    /\ IsFiniteSet(talisman_repairs) /\ \A r \in talisman_repairs : r.needed \in Int /\ r.filled \in Int
    /\ IsFiniteSet(talisman_uses)
    /\ \A j \in Materials : Mine[j].quantity \in Nat
    /\ Quantity(Mine, "material") =
           Quantity(First, "material") - SumFunction([r \in talisman_repairs |-> r.needed])
    /\ Quantity(Mine, "talisman") =
           Quantity(First, "talisman") + SumFunction([r \in talisman_repairs |-> r.filled])
                                       - SumFunction([r \in talisman_uses |-> UseCost(r.kind)])

\* What the rule and the quote of a repair name.
Quotable ==
    /\ repair_rule # None => repair_rule.needed \in Nat
    /\ talisman_repair_quote # None => /\ talisman_repair_quote.rule.needed \in Nat
                                       /\ talisman_repair_quote.instance \in Owned("talisman")

\* What waits to be confirmed, and what was acknowledged.
Waiting ==
    /\ \A i \in DOMAIN talisman_pending : talisman_pending[i] # None =>
           /\ talisman_pending[i].kind \in Uses /\ talisman_pending[i].seq \in Nat
           /\ talisman_pending[i].cost = UseCost(talisman_pending[i].kind)
    /\ talisman_sequences \in [(DOMAIN talisman_pending) \X Uses -> Nat]

\* A use that the others were told of has its billing, and is not newer than
\* the last one acknowledged in its battle.
Receipt(r) == [battle |-> r.battle, instance |-> r.instance, kind |-> r.kind,
               seq |-> IF r.kind = "passive" THEN 0 ELSE r.seq]
Replicas == [battle : Nat, instance : DOMAIN talisman_pending, kind : Uses, seq : Nat]
Told ==
    /\ serial \in Nat /\ replicas \in Seq(Replicas)
    /\ \A k \in DOMAIN replicas :
           /\ replicas[k].battle <= serial /\ Receipt(replicas[k]) \in talisman_uses
           /\ Fighting /\ replicas[k].battle = serial =>
                  replicas[k].seq <= talisman_sequences[<<replicas[k].instance, replicas[k].kind>>]
    /\ \A k, l \in DOMAIN replicas : replicas[k] = replicas[l] => k = l

StockKept ==
    /\ desk = "potions" => PotionsKept
    /\ desk \in {"repairs", "talismans"} => Tallied /\ Quotable /\ Waiting /\ Told

LEMMA MineFinite ==
    ASSUME Typed, Accounted
    PROVE  IsFiniteSet(DOMAIN Mine) /\ \A j \in DOMAIN Mine : j \in Int
<1>1. DOMAIN Mine \subseteq 1 .. allocated
  BY GearAssumption DEF GearAssumption, Accounted, Mine
<1>2. allocated \in Int /\ 1 \in Int
  BY DEF Typed
<1>3. IsFiniteSet(1 .. allocated)
  BY <1>2, FS_Interval
<1>4. IsFiniteSet(DOMAIN Mine)
  BY <1>1, <1>3, FS_Subset
<1> QED BY <1>1, <1>2, <1>4

\* The first things are few and counted.
LEMMA FirstCounted ==
    /\ IsFiniteSet(DOMAIN First) /\ \A j \in DOMAIN First : First[j].quantity \in Nat
    /\ \A kind : Quantity(First, kind) \in Int
<1> DEFINE all == <<"weapon", "talisman", "talisman", "material", "material", "potion">>
           owned == {i \in DOMAIN all : all[i] \in Kinds}
<1>1. DOMAIN First \subseteq {1, 2, 3, 4} \cup {5, 6, 6, 6}
  <2>1. DOMAIN all = 1 .. 6
    OBVIOUS
  <2>2. DOMAIN First = owned
    BY DEF First, FirstItems
  <2> QED BY <2>1, <2>2
<1>2. IsFiniteSet({1, 2, 3, 4}) /\ IsFiniteSet({5, 6, 6, 6})
  BY FourAtMost
<1>3. IsFiniteSet({1, 2, 3, 4} \cup {5, 6, 6, 6})
  BY <1>2, FS_Union
<1>4. IsFiniteSet(DOMAIN First)
  BY <1>1, <1>3, FS_Subset
<1>5. ASSUME NEW j \in DOMAIN First PROVE First[j].quantity \in Nat
  <2>1. First = [i \in owned |-> Item(all[i], IF all[i] = "material" THEN 1 ELSE 2)]
    BY DEF First, FirstItems
  <2>2. First[j] = Item(all[j], IF all[j] = "material" THEN 1 ELSE 2)
    BY <2>1
  <2> QED BY <2>2 DEF Item
<1>6. ASSUME NEW kind PROVE Quantity(First, kind) \in Int
  <2>1. \A j \in OfKind(First, kind) : First[j].quantity \in Int
    BY <1>5 DEF OfKind
  <2> QED BY <1>4, <2>1, QuantityIs
<1> QED BY <1>4, <1>5, <1>6

\* Nothing is used up and nothing is filled.
Untouched ==
    /\ DOMAIN Mine' = DOMAIN Mine
    /\ \A j \in DOMAIN Mine : Mine'[j].kind = Mine[j].kind /\ Mine'[j].quantity = Mine[j].quantity

LEMMA UntouchedQuantities ==
    ASSUME Typed, Accounted, Untouched, UNCHANGED desk
    PROVE  /\ \A kind : Quantity(Mine', kind) = Quantity(Mine, kind)
           /\ First' = First
           /\ \A kind : Owned(kind)' = Owned(kind)
<1>1. IsFiniteSet(DOMAIN Mine)
  BY MineFinite
<1>2. ASSUME NEW kind PROVE Quantity(Mine', kind) = Quantity(Mine, kind)
  BY <1>1, QuantitySame DEF Untouched
<1>3. First' = First
  BY DEF First, Kinds
<1>4. ASSUME NEW kind PROVE Owned(kind)' = Owned(kind)
  BY DEF Owned, Untouched
<1> QED BY <1>2, <1>3, <1>4

LEMMA TalliedSame ==
    ASSUME Typed, Accounted, Untouched, UNCHANGED <<desk, talisman_repairs, talisman_uses>>, Tallied
    PROVE  Tallied'
<1>1. /\ Quantity(Mine', "material") = Quantity(Mine, "material")
      /\ Quantity(Mine', "talisman") = Quantity(Mine, "talisman")
      /\ First' = First
  BY UntouchedQuantities
<1>2. Materials' = Materials
  BY UntouchedQuantities DEF Materials
<1>3. \A j \in Materials : j \in DOMAIN Mine /\ Mine'[j].quantity = Mine[j].quantity
  BY DEF Untouched, Materials, Owned
<1> QED BY <1>1, <1>2, <1>3 DEF Tallied

LEMMA QuotableSame ==
    ASSUME Typed, Accounted, Untouched, UNCHANGED desk, Quotable,
           UNCHANGED repair_rule, UNCHANGED talisman_repair_quote \/ talisman_repair_quote' = None
    PROVE  Quotable'
<1>1. Owned("talisman")' = Owned("talisman")
  BY UntouchedQuantities
<1> QED BY <1>1 DEF Quotable

LEMMA WaitingSame ==
    ASSUME Waiting, UNCHANGED <<talisman_pending, talisman_sequences>> \/ Cleared
    PROVE  Waiting'
<1>1. CASE UNCHANGED <<talisman_pending, talisman_sequences>>
  BY <1>1 DEF Waiting
<1>2. CASE Cleared
  <2>1. DOMAIN talisman_pending' = DOMAIN talisman_pending /\ \A i \in DOMAIN talisman_pending' : talisman_pending'[i] = None
    BY <1>2 DEF Cleared
  <2>2. talisman_sequences' = [x \in (DOMAIN talisman_pending) \X Uses |-> 0]
    BY <1>2 DEF Cleared, Waiting
  <2>3. talisman_sequences' \in [(DOMAIN talisman_pending') \X Uses -> Nat]
    BY <2>1, <2>2
  <2> QED BY <2>1, <2>3 DEF Waiting
<1> QED BY <1>1, <1>2

LEMMA ToldSame ==
    ASSUME Told, UNCHANGED <<talisman_uses, replicas>>, DOMAIN talisman_pending' = DOMAIN talisman_pending,
           \/ UNCHANGED serial /\ (~Fighting' \/ UNCHANGED <<stage, talisman_sequences>>)
           \/ serial' = serial + 1
    PROVE  Told'
<1>1. serial \in Nat /\ replicas \in Seq(Replicas)
  BY DEF Told
<1>2. Replicas' = Replicas
  BY DEF Replicas
<1>3. \A k \in DOMAIN replicas : replicas[k].battle \in Nat /\ replicas[k].battle <= serial
  <2>1. \A k \in DOMAIN replicas : replicas[k] \in Replicas
    BY <1>1
  <2> QED BY <2>1 DEF Told, Replicas
<1>4. /\ serial' \in Nat
      /\ \A k \in DOMAIN replicas : replicas[k].battle <= serial'
      /\ serial' = serial \/ \A k \in DOMAIN replicas : replicas[k].battle # serial'
  BY <1>1, <1>3
<1>5. \A k \in DOMAIN replicas :
         Fighting' /\ replicas[k].battle = serial' =>
             replicas[k].seq <= talisman_sequences'[<<replicas[k].instance, replicas[k].kind>>]
  BY <1>4 DEF Told, Fighting
<1> QED BY <1>1, <1>2, <1>4, <1>5 DEF Told, Receipt

\* The game moves on, or a connection ends.
LEMMA GameKeepsStock ==
    ASSUME Typed, Accounted, Game \/ Disconnect, UNCHANGED desk, UNCHANGED <<repair_rule, talisman_repairs>>,
           UNCHANGED talisman_repair_quote \/ talisman_repair_quote' = None, StockKept
    PROVE  StockKept'
<1>1. UNCHANGED <<inventory, consumption_events, intents, talisman_uses, replicas>>
  BY DEF Game, Move, StartBattle, EndBattle, Disconnect, storeVars, potionVars, talismanVars
<1>2. /\ consume_intents' = consume_intents \/ consume_intents' = {}
      /\ UNCHANGED <<talisman_pending, talisman_sequences>> \/ Cleared
      /\ (UNCHANGED serial /\ ~Fighting') \/ serial' = serial + 1
  BY DEF Game, Move, StartBattle, EndBattle, Disconnect, potionVars, talismanVars, Fighting
<1>3. Untouched
  BY <1>1 DEF Untouched, Mine
<1>4. ASSUME PotionsKept PROVE PotionsKept'
  <2>1. Quantity(Mine', "potion") = Quantity(Mine, "potion") /\ First' = First
    BY <1>3, UntouchedQuantities
  <2>2. IsFiniteSet({}) /\ Cardinality({}) = 0 /\ Cardinality(consume_intents) \in Nat
    BY <1>4, FS_EmptySet, FS_CardinalityType DEF PotionsKept
  <2>3. Cardinality(consumption_events) \in Nat
    BY <1>4, FS_CardinalityType DEF PotionsKept
  <2>4. /\ IsFiniteSet(consume_intents') /\ Cardinality(consume_intents') \in Nat
        /\ Cardinality(consume_intents') <= Cardinality(consume_intents)
    BY <1>2, <1>4, <2>2 DEF PotionsKept
  <2> QED BY <1>1, <1>4, <2>1, <2>2, <2>3, <2>4 DEF PotionsKept
<1>5. ASSUME Tallied, Quotable, Waiting, Told PROVE Tallied' /\ Quotable' /\ Waiting' /\ Told'
  <2>1. Tallied'
    BY <1>1, <1>3, <1>5, TalliedSame
  <2>2. Quotable'
    BY <1>3, <1>5, QuotableSame
  <2>3. Waiting'
    BY <1>2, <1>5, WaitingSame
  <2>4. DOMAIN talisman_pending' = DOMAIN talisman_pending
    BY <1>2 DEF Cleared
  <2>5. Told'
    BY <1>1, <1>2, <1>5, <2>4, ToldSame
  <2> QED BY <2>1, <2>2, <2>3, <2>5
<1> QED BY <1>4, <1>5 DEF StockKept

\* Equipment moves things from slot to slot.
LEMMA DressUntouched ==
    ASSUME Geared, Dress
    PROVE  Untouched
<1>0. \A j \in DOMAIN Mine : Tidy(Mine[j])
  BY DEF Geared, Stocked
<1>1. ASSUME NEW i \in DOMAIN Mine, Unequip(i) PROVE Untouched
  <2>1. Record(Mine[i]) /\ Mine[i].kind \in Garments /\ Mine[i].quantity \in Nat
    BY <1>1, WornIs DEF Geared, Unequip
  <2> DEFINE item == [Mine[i] EXCEPT !.slot = 0]
  <2>2. Tidy(item) /\ item.kind = Mine[i].kind /\ item.quantity = Mine[i].quantity
    BY <2>1, Reslotted DEF Tidy
  <2>3. Replace(Keeper, i, item)
    BY <1>1 DEF Unequip
  <2> HIDE DEF item
  <2>4. /\ DOMAIN Mine' = DOMAIN Mine /\ Mine'[i] = item
        /\ \A j \in DOMAIN Mine : Mine'[j].kind = Mine[j].kind /\ (j # i => Mine'[j] = Mine[j])
    BY <2>2, <2>3, ReplaceTidy
  <2> QED BY <2>2, <2>4 DEF Untouched
<1>2. ASSUME NEW i \in DOMAIN Mine, NEW slot \in Slots(Mine[i].kind), Equip(i, slot) PROVE Untouched
  <2>1. slot \in Nat \ {0} /\ Mine[i].kind \in Garments
    BY DEF Slots, Garments
  <2> DEFINE dressed == [j \in DOMAIN Mine |-> IF j = i THEN [Mine[j] EXCEPT !.slot = slot]
                                              ELSE IF Mine[j].slot = slot THEN [Mine[j] EXCEPT !.slot = 0]
                                              ELSE Mine[j]]
  <2>2. Mine' = dressed
    BY <1>2, GearAssumption DEF Equip, Mine, Geared, Stocked, GearAssumption
  <2>3. ASSUME NEW j \in DOMAIN Mine
        PROVE  dressed[j].kind = Mine[j].kind /\ dressed[j].quantity = Mine[j].quantity
    <3>1. CASE j = i
      <4>1. Record(Mine[i])
        BY <1>0, <2>1 DEF Tidy, Garments
      <4>2. dressed[j] = [Mine[i] EXCEPT !.slot = slot]
        BY <3>1
      <4>3. /\ [Mine[i] EXCEPT !.slot = slot].kind = Mine[i].kind
            /\ [Mine[i] EXCEPT !.slot = slot].quantity = Mine[i].quantity
        BY <4>1, Reslotted
      <4> QED BY <3>1, <4>2, <4>3
    <3>2. CASE j # i /\ Mine[j].slot = slot
      <4>1. Record(Mine[j])
        BY <1>0, <2>1, <3>2 DEF Tidy
      <4>2. /\ [Mine[j] EXCEPT !.slot = 0].kind = Mine[j].kind
            /\ [Mine[j] EXCEPT !.slot = 0].quantity = Mine[j].quantity
        BY <4>1, Reslotted
      <4> QED BY <3>2, <4>2
    <3>3. CASE j # i /\ Mine[j].slot # slot
      BY <3>3
    <3> QED BY <3>1, <3>2, <3>3
  <2>4. DOMAIN dressed = DOMAIN Mine
    OBVIOUS
  <2> HIDE DEF dressed
  <2> QED BY <2>2, <2>3, <2>4 DEF Untouched
<1> QED BY <1>1, <1>2 DEF Dress

LEMMA DressKeepsStock ==
    ASSUME Typed, Accounted, Geared, Dress, UNCHANGED desk,
           UNCHANGED <<repair_rule, talisman_repair_quote, talisman_repairs>>, StockKept
    PROVE  StockKept'
<1>1. Untouched /\ UNCHANGED gearVars
  BY DressUntouched DEF Dress, Unequip, Equip
<1>2. UNCHANGED <<stage, serial, consume_intents, consumption_events, intents, talisman_pending,
                  talisman_sequences, talisman_uses, replicas>>
  BY <1>1 DEF gearVars, talismanVars, potionVars
<1>3. ASSUME PotionsKept PROVE PotionsKept'
  <2>1. Quantity(Mine', "potion") = Quantity(Mine, "potion") /\ First' = First
    BY <1>1, UntouchedQuantities
  <2> QED BY <1>2, <1>3, <2>1 DEF PotionsKept
<1>4. ASSUME Tallied, Quotable, Waiting, Told PROVE Tallied' /\ Quotable' /\ Waiting' /\ Told'
  BY <1>1, <1>2, <1>4, TalliedSame, QuotableSame, WaitingSame, ToldSame
<1> QED BY <1>3, <1>4 DEF StockKept

-----------------------------------------------------------------------------
(* Potions                                                                 *)

\* One thing of a kind becomes less or more.
LEMMA QuantityMoves ==
    ASSUME Typed, Accounted, Geared, NEW i \in DOMAIN Mine, Mine[i].kind \in Garments, NEW n \in Nat,
           Replace(Keeper, i, [Mine[i] EXCEPT !.quantity = n])
    PROVE  /\ DOMAIN Mine' = DOMAIN Mine /\ Mine'[i].quantity = n
           /\ \A j \in DOMAIN Mine : Mine'[j].kind = Mine[j].kind /\ (j # i => Mine'[j] = Mine[j])
           /\ Quantity(Mine, Mine[i].kind) \in Int
           /\ Quantity(Mine', Mine[i].kind) = Quantity(Mine, Mine[i].kind) - Mine[i].quantity + n
<1> DEFINE item == [Mine[i] EXCEPT !.quantity = n]
           kind == Mine[i].kind
<1>1. \A j \in DOMAIN Mine : Tidy(Mine[j])
  BY DEF Geared, Stocked
<1>2. Record(Mine[i]) /\ Mine[i].slot \in Nat /\ Mine[i].quantity \in Nat
  BY <1>1 DEF Tidy, Garments
<1>3. Tidy(item) /\ item.kind = Mine[i].kind /\ item.quantity = n
  BY <1>2, Requantified DEF Tidy
<1>4. Replace(Keeper, i, item)
  OBVIOUS
<1> HIDE DEF item
<1>5. /\ DOMAIN Mine' = DOMAIN Mine /\ Mine'[i] = item
      /\ \A j \in DOMAIN Mine : Mine'[j].kind = Mine[j].kind /\ (j # i => Mine'[j] = Mine[j])
  BY <1>3, <1>4, ReplaceTidy
<1>6. IsFiniteSet(DOMAIN Mine)
  BY MineFinite
<1>7. \A j \in OfKind(Mine, kind) : Mine[j].quantity \in Int /\ Mine'[j].quantity \in Int
  <2>1. \A j \in OfKind(Mine, kind) : j \in DOMAIN Mine /\ Mine[j].quantity \in Nat
    BY <1>1 DEF OfKind, Tidy, Garments
  <2>2. Mine'[i].quantity \in Int
    BY <1>3, <1>5
  <2> QED BY <1>5, <2>1, <2>2
<1>8. \A j \in DOMAIN Mine : Mine'[j].kind = Mine[j].kind /\ (j # i => Mine'[j].quantity = Mine[j].quantity)
  BY <1>5
<1>9. Quantity(Mine, kind) \in Int
  BY <1>5, <1>6, <1>7, <1>8, QuantityChanges
<1>10. Quantity(Mine', kind) = Quantity(Mine, kind) - Mine[i].quantity + Mine'[i].quantity
  BY <1>5, <1>6, <1>7, <1>8, QuantityChanges
<1> QED BY <1>3, <1>5, <1>9, <1>10

LEMMA PotionsStepKept ==
    ASSUME Typed, Accounted, Geared, PotionNext, UNCHANGED desk, PotionsKept
    PROVE  PotionsKept'
<1>1. /\ Cardinality(consume_intents) \in Nat /\ Cardinality(consumption_events) \in Nat /\ intents \in Nat
      /\ IsFiniteSet(consume_intents) /\ IsFiniteSet(consumption_events)
  BY FS_CardinalityType DEF PotionsKept
<1>2. First' = First
  BY DEF First, Kinds
<1>3. ASSUME NEW i \in DOMAIN Mine, Announce(i) PROVE PotionsKept'
  <2>1. /\ UNCHANGED <<inventory, consumption_events>> /\ i \notin consume_intents
        /\ consume_intents' = consume_intents \cup {i} /\ intents' = intents + 1
    BY <1>3 DEF Announce, storeVars
  <2>2. IsFiniteSet(consume_intents') /\ Cardinality(consume_intents') = Cardinality(consume_intents) + 1
    BY <1>1, <2>1, FS_AddElement
  <2>3. Mine' = Mine
    BY <2>1 DEF Mine
  <2> QED BY <1>1, <1>2, <2>1, <2>2, <2>3 DEF PotionsKept
<1>4. ASSUME NEW i \in DOMAIN Mine, NEW seq, Consume(i, seq) PROVE PotionsKept'
  <2>1. /\ consume_intents' = consume_intents \ {i} /\ UNCHANGED intents /\ Mine[i].kind = "potion"
    BY <1>4 DEF Consume, Owned
  <2>2. /\ IsFiniteSet(consume_intents') /\ Cardinality(consume_intents') \in Nat
        /\ Cardinality(consume_intents') =
               IF i \in consume_intents THEN Cardinality(consume_intents) - 1 ELSE Cardinality(consume_intents)
    BY <1>1, <2>1, FS_RemoveElement, FS_CardinalityType
  <2>3. CASE UNCHANGED <<inventory, consumption_events>>
    <3>1. Mine' = Mine
      BY <2>3 DEF Mine
    <3> QED BY <1>1, <1>2, <2>1, <2>2, <2>3, <3>1 DEF PotionsKept
  <2>4. CASE /\ Due(i, seq) /\ Mine[i].quantity > 0
             /\ Replace(Keeper, i, [Mine[i] EXCEPT !.quantity = @ - 1])
             /\ consumption_events' = consumption_events \cup {[battle |-> serial, seq |-> seq, instance |-> i]}
    <3> DEFINE event == [battle |-> serial, seq |-> seq, instance |-> i]
               n == Mine[i].quantity - 1
    <3>1. event \notin consumption_events /\ i \in consume_intents
      BY <2>4 DEF Due
    <3>2. /\ IsFiniteSet(consumption_events')
          /\ Cardinality(consumption_events') = Cardinality(consumption_events) + 1
      BY <1>1, <2>4, <3>1, FS_AddElement
    <3>3. Mine[i].quantity \in Nat /\ n \in Nat
      BY <2>1, <2>4 DEF Geared, Stocked, Tidy
    <3>4. Replace(Keeper, i, [Mine[i] EXCEPT !.quantity = n]) /\ Mine[i].kind \in Garments
      BY <2>1, <2>4 DEF Garments
    <3> HIDE DEF n
    <3>5. /\ Quantity(Mine, "potion") \in Int
          /\ Quantity(Mine', "potion") = Quantity(Mine, "potion") - Mine[i].quantity + n
      BY <2>1, <3>3, <3>4, QuantityMoves
    <3>6. Quantity(Mine', "potion") = Quantity(Mine, "potion") - 1
      BY <3>3, <3>5 DEF n
    <3>7. Quantity(First, "potion") \in Int
      BY FirstCounted
    <3> QED BY <1>1, <1>2, <2>1, <2>2, <3>1, <3>2, <3>5, <3>6, <3>7 DEF PotionsKept
  <2> QED BY <1>4, <2>3, <2>4 DEF Consume
<1> QED BY <1>3, <1>4 DEF PotionNext

-----------------------------------------------------------------------------
(* Talismans                                                               *)

Talismans == Tallied /\ Quotable /\ Waiting /\ Told

LEMMA AnnouncedWaits ==
    ASSUME Waiting, NEW i \in DOMAIN talisman_pending, NEW kind \in Uses, NEW seq \in Nat,
           NEW seen \in BOOLEAN, AnnounceUse(i, kind, seq, seen), Promised
    PROVE  Waiting'
<1> DEFINE new == [kind |-> kind, seq |-> seq, cost |-> UseCost(kind), seen |-> seen]
<1>1. UNCHANGED talisman_sequences /\ DOMAIN talisman_pending' = DOMAIN talisman_pending
  BY DEF AnnounceUse
<1>2. \A j \in DOMAIN talisman_pending : j # i => talisman_pending'[j] = talisman_pending[j]
  BY DEF AnnounceUse
<1>3. /\ talisman_pending'[i].kind \in Uses /\ talisman_pending'[i].seq \in Nat
      /\ talisman_pending'[i].cost = UseCost(talisman_pending'[i].kind)
  <2>1. CASE talisman_pending' = [talisman_pending EXCEPT ![i] = new]
    <3>1. talisman_pending'[i] = new
      BY <2>1
    <3> QED BY <3>1
  <2>2. CASE talisman_pending[i] # None /\ talisman_pending' = [talisman_pending EXCEPT ![i].seen = TRUE]
    <3> DEFINE p == talisman_pending[i]
               yes == TRUE
    <3>1. p = Use(p) /\ p.kind \in Uses /\ p.seq \in Nat /\ p.cost = UseCost(p.kind)
      BY <2>2 DEF Promised, Waiting
    <3>2. talisman_pending'[i] = [p EXCEPT !.seen = yes]
      BY <2>2
    <3> HIDE DEF yes, p
    <3>3. /\ [p EXCEPT !.seen = yes].kind = p.kind /\ [p EXCEPT !.seen = yes].seq = p.seq
          /\ [p EXCEPT !.seen = yes].cost = p.cost
      BY <3>1 DEF Use
    <3> QED BY <3>1, <3>2, <3>3
  <2> QED BY <2>1, <2>2 DEF AnnounceUse
<1> QED BY <1>1, <1>2, <1>3 DEF Waiting

\* A use is announced, or forgotten.
LEMMA PendingKeeps ==
    ASSUME Typed, Accounted, Geared, NEW i \in DOMAIN talisman_pending, Talismans,
           UNCHANGED <<desk, repair_rule, talisman_repair_quote, talisman_repairs>>,
           \/ ForgetUse(i)
           \/ \E kind \in Uses, seq \in Nat, seen \in BOOLEAN : AnnounceUse(i, kind, seq, seen)
    PROVE  Talismans'
<1>1. /\ UNCHANGED <<inventory, stage, serial, talisman_sequences, talisman_uses, replicas>>
      /\ DOMAIN talisman_pending' = DOMAIN talisman_pending
  BY DEF ForgetUse, AnnounceUse, storeVars
<1>2. Untouched
  BY <1>1 DEF Untouched, Mine
<1>3. Tallied' /\ Quotable' /\ Told'
  BY <1>1, <1>2, TalliedSame, QuotableSame, ToldSame DEF Talismans
<1>4. CASE ForgetUse(i)
  <2>1. talisman_pending' = [talisman_pending EXCEPT ![i] = None]
    BY <1>4 DEF ForgetUse
  <2>2. Waiting'
    BY <1>1, <2>1 DEF Talismans, Waiting
  <2> QED BY <1>3, <2>2 DEF Talismans
<1>5. ASSUME NEW kind \in Uses, NEW seq \in Nat, NEW seen \in BOOLEAN, AnnounceUse(i, kind, seq, seen)
      PROVE  Talismans'
  <2>1. Waiting'
    BY <1>5, AnnouncedWaits DEF Talismans, Geared
  <2> QED BY <1>3, <2>1 DEF Talismans
<1> QED BY <1>4, <1>5

\* A use that is paid: one billing more, and its cost less.
LEMMA PaidUse ==
    ASSUME Typed, Accounted, Geared, Tallied, NEW i \in DOMAIN Mine, Mine[i].kind = "talisman",
           NEW bill, bill \notin talisman_uses, talisman_uses' = talisman_uses \cup {bill},
           Mine[i].quantity >= UseCost(bill.kind), UNCHANGED <<desk, talisman_repairs>>,
           Replace(Keeper, i, [Mine[i] EXCEPT !.quantity = @ - UseCost(bill.kind)])
    PROVE  Tallied' /\ Owned("talisman")' = Owned("talisman")
<1> DEFINE n == Mine[i].quantity - UseCost(bill.kind)
           f == [r \in talisman_uses |-> UseCost(r.kind)]
           e == [r \in talisman_uses' |-> UseCost(r.kind)]
<1>1. \A kind : UseCost(kind) \in Nat
  BY GearAssumption DEF GearAssumption, UseCost
<1>2. Mine[i].quantity \in Nat /\ n \in Nat
  <2>1. Mine[i].quantity \in Nat
    BY DEF Geared, Stocked, Tidy
  <2> QED BY <1>1, <2>1
<1>3. Replace(Keeper, i, [Mine[i] EXCEPT !.quantity = n]) /\ Mine[i].kind \in Garments
  BY DEF Garments
<1>4. n = Mine[i].quantity - UseCost(bill.kind)
  OBVIOUS
<1> HIDE DEF n
<1>5. /\ DOMAIN Mine' = DOMAIN Mine /\ Mine'[i].quantity = n
      /\ \A j \in DOMAIN Mine : Mine'[j].kind = Mine[j].kind /\ (j # i => Mine'[j] = Mine[j])
      /\ Quantity(Mine, "talisman") \in Int
      /\ Quantity(Mine', "talisman") = Quantity(Mine, "talisman") - Mine[i].quantity + n
  BY <1>2, <1>3, QuantityMoves
<1>6. Quantity(Mine', "material") = Quantity(Mine, "material")
  <2>1. IsFiniteSet(DOMAIN Mine)
    BY MineFinite
  <2>2. \A j \in OfKind(Mine, "material") : Mine[j].quantity \in Int /\ Mine'[j].quantity \in Int
    <3>1. \A j \in OfKind(Mine, "material") : j \in Materials /\ j # i /\ j \in DOMAIN Mine
      BY DEF OfKind, Materials, Owned
    <3>2. \A j \in OfKind(Mine, "material") : Mine[j].quantity \in Nat
      BY <3>1 DEF Tallied
    <3> QED BY <1>5, <3>1, <3>2
  <2>3. \A j \in DOMAIN Mine : Mine'[j].kind = Mine[j].kind /\ (j # i => Mine'[j].quantity = Mine[j].quantity)
    BY <1>5
  <2> QED BY <1>5, <2>1, <2>2, <2>3, QuantityChanges
<1>7. \A kind : Owned(kind)' = Owned(kind)
  BY <1>5 DEF Owned
<1>8. \A j \in Materials' : Mine'[j].quantity \in Nat
  <2>1. Materials' = Materials /\ \A j \in Materials : j \in DOMAIN Mine /\ j # i
    BY <1>7 DEF Materials, Owned
  <2> QED BY <1>5, <2>1 DEF Tallied
<1>9. /\ SumFunction(e) = SumFunction(f) + UseCost(bill.kind) /\ SumFunction(f) \in Int
      /\ IsFiniteSet(talisman_uses')
  <2>1. IsFiniteSet(talisman_uses) /\ IsFiniteSet(talisman_uses')
    BY FS_AddElement DEF Tallied
  <2>2. DOMAIN f = talisman_uses /\ DOMAIN e = DOMAIN f \cup {bill}
    OBVIOUS
  <2>3. \A y \in DOMAIN f : e[y] = f[y] /\ f[y] \in Int
    BY <1>1
  <2>4. e[bill] = UseCost(bill.kind) /\ e[bill] \in Int
    BY <1>1
  <2> HIDE DEF e, f
  <2> QED BY <2>1, <2>2, <2>3, <2>4, SumGrows
<1>10. First' = First
  BY DEF First, Kinds
<1>11. Quantity(Mine', "talisman") = Quantity(Mine, "talisman") - UseCost(bill.kind)
  BY <1>1, <1>2, <1>4, <1>5
<1> DEFINE filled == SumFunction([r \in talisman_repairs |-> r.filled])
<1>12. filled \in Int
  <2> DEFINE h == [r \in talisman_repairs |-> r.filled]
  <2>1. IsFiniteSet(DOMAIN h) /\ \A r \in DOMAIN h : h[r] \in Int
    BY DEF Tallied
  <2> HIDE DEF h
  <2>2. SumFunction(h) \in Int
    BY <2>1, SumInt DEF SumFunction
  <2> QED BY <2>2 DEF h
<1>13. Quantity(First, "talisman") \in Int
  BY FirstCounted
<1>14. Quantity(Mine, "talisman") = Quantity(First, "talisman") + filled - SumFunction(f)
  BY DEF Tallied
<1> HIDE DEF e, f, filled
<1>15. Quantity(Mine', "talisman") = Quantity(First, "talisman") + filled - SumFunction(e)
  BY <1>1, <1>9, <1>11, <1>12, <1>13, <1>14
<1>16. Quantity(Mine', "talisman") =
           Quantity(First', "talisman") + SumFunction([r \in talisman_repairs' |-> r.filled])
                                        - SumFunction([r \in talisman_uses' |-> UseCost(r.kind)])
  BY <1>10, <1>15 DEF e, filled
<1>17. Quantity(Mine', "material") =
           Quantity(First', "material") - SumFunction([r \in talisman_repairs' |-> r.needed])
  BY <1>6, <1>10 DEF Tallied
<1> QED BY <1>7, <1>8, <1>9, <1>16, <1>17 DEF Tallied

\* What the others are told of a use: it is newer than all they were told of
\* that talisman in this battle.
LEMMA ConfirmedTold ==
    ASSUME Waiting, Told, NEW i \in DOMAIN talisman_pending, Confirm(i)
    PROVE  Waiting' /\ Told'
<1> DEFINE p == talisman_pending[i]
           at == <<i, p.kind>>
           told == [battle |-> serial, instance |-> i, kind |-> p.kind, seq |-> p.seq]
<1>1. /\ p # None /\ UNCHANGED <<stage, serial>> /\ Fighting
      /\ talisman_pending' = [talisman_pending EXCEPT ![i] = None]
  BY DEF Confirm
<1>2. /\ p.kind \in Uses /\ p.seq \in Nat /\ p.cost = UseCost(p.kind)
      /\ at \in (DOMAIN talisman_pending) \X Uses
      /\ talisman_sequences \in [(DOMAIN talisman_pending) \X Uses -> Nat]
  BY <1>1 DEF Waiting
<1>3. \/ UNCHANGED talisman_sequences
      \/ talisman_sequences' = [talisman_sequences EXCEPT ![at] = p.seq] /\ p.seq > talisman_sequences[at]
  BY DEF Confirm, News
<1>4. DOMAIN talisman_pending' = DOMAIN talisman_pending
  BY <1>1
<1>5. Waiting'
  <2>1. talisman_sequences' \in [(DOMAIN talisman_pending) \X Uses -> Nat]
    BY <1>2, <1>3
  <2> QED BY <1>1, <1>4, <2>1 DEF Waiting
<1>6. \A x \in (DOMAIN talisman_pending) \X Uses : talisman_sequences[x] <= talisman_sequences'[x]
  BY <1>2, <1>3
<1>7. talisman_uses \subseteq talisman_uses'
  BY DEF Confirm
<1>8. /\ serial \in Nat /\ replicas \in Seq(Replicas)
      /\ \A k \in DOMAIN replicas : replicas[k] \in Replicas
  BY DEF Told
<1>9. Replicas' = Replicas
  BY <1>4 DEF Replicas
<1>10. \A k \in DOMAIN replicas :
          /\ replicas[k].battle <= serial /\ Receipt(replicas[k]) \in talisman_uses'
          /\ replicas[k].battle = serial =>
                 replicas[k].seq <= talisman_sequences'[<<replicas[k].instance, replicas[k].kind>>]
  <2> SUFFICES ASSUME NEW k \in DOMAIN replicas
               PROVE  /\ replicas[k].battle <= serial /\ Receipt(replicas[k]) \in talisman_uses'
                      /\ replicas[k].battle = serial =>
                             replicas[k].seq <= talisman_sequences'[<<replicas[k].instance, replicas[k].kind>>]
    OBVIOUS
  <2> DEFINE x == <<replicas[k].instance, replicas[k].kind>>
  <2>1. x \in (DOMAIN talisman_pending) \X Uses /\ replicas[k].seq \in Nat
    BY <1>8 DEF Replicas
  <2>2. talisman_sequences[x] \in Nat /\ talisman_sequences'[x] \in Nat
    BY <1>2, <1>3, <2>1
  <2>3. replicas[k].battle = serial => replicas[k].seq <= talisman_sequences[x]
    BY <1>1 DEF Told
  <2>4. talisman_sequences[x] <= talisman_sequences'[x]
    BY <1>6, <2>1
  <2> HIDE DEF x
  <2>5. replicas[k].battle = serial => replicas[k].seq <= talisman_sequences'[x]
    BY <2>1, <2>2, <2>3, <2>4
  <2>6. replicas[k].battle <= serial /\ Receipt(replicas[k]) \in talisman_uses'
    BY <1>7 DEF Told
  <2> QED BY <2>5, <2>6 DEF x
<1>11. CASE UNCHANGED replicas
  <2>1. \A k \in DOMAIN replicas' :
           /\ replicas'[k].battle <= serial' /\ Receipt(replicas'[k]) \in talisman_uses'
           /\ replicas'[k].battle = serial' =>
                  replicas'[k].seq <= talisman_sequences'[<<replicas'[k].instance, replicas'[k].kind>>]
    BY <1>1, <1>10, <1>11
  <2>2. /\ serial' \in Nat /\ replicas' \in Seq(Replicas')
        /\ \A k, l \in DOMAIN replicas' : replicas'[k] = replicas'[l] => k = l
    BY <1>1, <1>8, <1>9, <1>11 DEF Told
  <2> QED BY <1>5, <2>1, <2>2 DEF Told, Receipt
<1>12. CASE replicas' = Append(replicas, told) /\ p.seq > talisman_sequences[at]
            /\ talisman_sequences' = [talisman_sequences EXCEPT ![at] = p.seq]
            /\ Billing(i, p.kind, p.seq) \in talisman_uses'
  <2>1. told \in Replicas
    BY <1>2, <1>8 DEF Replicas
  <2>2. Receipt(told) \in talisman_uses'
    BY <1>12 DEF Receipt, Billing
  <2>3. talisman_sequences'[at] = p.seq /\ <<told.instance, told.kind>> = at /\ told.seq = p.seq /\ told.battle = serial
    BY <1>2, <1>12
  <2>4. \A k \in DOMAIN replicas : replicas[k] # told
    <3> SUFFICES ASSUME NEW k \in DOMAIN replicas, replicas[k] = told PROVE FALSE
      OBVIOUS
    <3>1. replicas[k].battle = serial /\ replicas[k].seq = p.seq
          /\ <<replicas[k].instance, replicas[k].kind>> = at
      BY <2>3
    <3>2. replicas[k].seq <= talisman_sequences[<<replicas[k].instance, replicas[k].kind>>]
      BY <1>1, <3>1 DEF Told
    <3>3. talisman_sequences[at] \in Nat
      BY <1>2
    <3>4. talisman_sequences[<<replicas[k].instance, replicas[k].kind>>] = talisman_sequences[at]
      BY <3>1
    <3>5. p.seq <= talisman_sequences[at] /\ p.seq > talisman_sequences[at]
      BY <1>12, <3>1, <3>2, <3>4
    <3> HIDE DEF at, p
    <3> QED BY <1>2, <3>3, <3>5
  <2> HIDE DEF told
  <2>5. /\ replicas' \in Seq(Replicas) /\ DOMAIN replicas' = 1 .. Len(replicas) + 1
        /\ DOMAIN replicas = 1 .. Len(replicas) /\ Len(replicas) \in Nat
        /\ \A k \in DOMAIN replicas : replicas'[k] = replicas[k]
        /\ replicas'[Len(replicas) + 1] = told
    BY <1>8, <1>12, <2>1
  <2>6. \A k \in DOMAIN replicas' : k \in DOMAIN replicas \/ (k = Len(replicas) + 1 /\ replicas'[k] = told)
    BY <2>5
  <2>7. ASSUME NEW k \in DOMAIN replicas'
        PROVE  /\ replicas'[k].battle <= serial' /\ Receipt(replicas'[k]) \in talisman_uses'
               /\ replicas'[k].battle = serial' =>
                      replicas'[k].seq <= talisman_sequences'[<<replicas'[k].instance, replicas'[k].kind>>]
    <3>1. CASE k \in DOMAIN replicas
      BY <1>1, <1>10, <2>5, <3>1
    <3>2. CASE replicas'[k] = told
      <4>1. p.seq \in Nat /\ serial \in Nat
        BY <1>2, <1>8
      <4> HIDE DEF p, at
      <4> QED BY <1>1, <2>2, <2>3, <3>2, <4>1
    <3> QED BY <2>6, <3>1, <3>2
  <2>8. ASSUME NEW k \in DOMAIN replicas', NEW l \in DOMAIN replicas', replicas'[k] = replicas'[l]
        PROVE  k = l
    <3>1. CASE k \in DOMAIN replicas /\ l \in DOMAIN replicas
      <4>1. replicas[k] = replicas[l]
        BY <2>5, <2>8, <3>1
      <4> QED BY <3>1, <4>1 DEF Told
    <3>2. CASE k \notin DOMAIN replicas /\ l \in DOMAIN replicas
      BY <2>4, <2>5, <2>6, <2>8, <3>2
    <3>3. CASE k \in DOMAIN replicas /\ l \notin DOMAIN replicas
      BY <2>4, <2>5, <2>6, <2>8, <3>3
    <3>4. CASE k \notin DOMAIN replicas /\ l \notin DOMAIN replicas
      BY <2>6, <3>4
    <3> QED BY <3>1, <3>2, <3>3, <3>4
  <2>9. serial' \in Nat /\ replicas' \in Seq(Replicas')
    BY <1>1, <1>8, <1>9, <2>5
  <2> QED BY <1>5, <2>7, <2>8, <2>9 DEF Told, Receipt
<1>13. UNCHANGED replicas \/
       (/\ replicas' = Append(replicas, told) /\ p.seq > talisman_sequences[at]
        /\ talisman_sequences' = [talisman_sequences EXCEPT ![at] = p.seq]
        /\ Billing(i, p.kind, p.seq) \in talisman_uses')
  BY DEF Confirm, News, Paid
<1> QED BY <1>5, <1>11, <1>12, <1>13

LEMMA ConfirmKeeps ==
    ASSUME Typed, Accounted, Geared, NEW i \in DOMAIN talisman_pending, Confirm(i), Talismans,
           UNCHANGED <<desk, repair_rule, talisman_repair_quote, talisman_repairs>>
    PROVE  Talismans'
<1> DEFINE p == talisman_pending[i]
           bill == Billing(i, p.kind, p.seq)
<1>1. /\ p # None /\ i \in DOMAIN Mine /\ Mine[i].kind = "talisman"
      /\ p.cost = UseCost(p.kind)
  BY DEF Confirm, Geared, Promised, Talismans, Waiting
<1>2. Waiting' /\ Told'
  BY ConfirmedTold DEF Talismans
<1>3. CASE UNCHANGED <<inventory, talisman_uses>>
  <2>1. Untouched
    BY <1>3 DEF Untouched, Mine
  <2> QED BY <1>2, <1>3, <2>1, TalliedSame, QuotableSame DEF Talismans
<1>4. CASE /\ bill \notin talisman_uses /\ talisman_uses' = talisman_uses \cup {bill}
           /\ Mine[i].quantity >= p.cost
           /\ Replace(Keeper, i, [Mine[i] EXCEPT !.quantity = @ - p.cost])
  <2>1. bill.kind = p.kind
    BY DEF Billing
  <2>2. UseCost(bill.kind) = p.cost
    BY <1>1, <2>1
  <2> HIDE DEF bill, p
  <2>3. /\ Mine[i].quantity >= UseCost(bill.kind)
        /\ Replace(Keeper, i, [Mine[i] EXCEPT !.quantity = @ - UseCost(bill.kind)])
    BY <1>4, <2>2
  <2>4. Tallied' /\ Owned("talisman")' = Owned("talisman")
    BY <1>1, <1>4, <2>3, PaidUse DEF Talismans
  <2>5. Quotable'
    BY <2>4 DEF Talismans, Quotable
  <2> QED BY <1>2, <2>4, <2>5 DEF Talismans
<1>5. \/ UNCHANGED <<inventory, talisman_uses>>
      \/ /\ bill \notin talisman_uses /\ talisman_uses' = talisman_uses \cup {bill}
         /\ Mine[i].quantity >= p.cost
         /\ Replace(Keeper, i, [Mine[i] EXCEPT !.quantity = @ - p.cost])
  BY DEF Confirm, Paid
<1> QED BY <1>3, <1>4, <1>5

\* A repair takes what it needs of the materials and fills its talisman.
LEMMA RepairKeeps ==
    ASSUME Typed, Accounted, Geared, Tallied, Quotable, Repair, UNCHANGED desk
    PROVE  Tallied' /\ Owned("talisman")' = Owned("talisman")
<1> DEFINE quote == talisman_repair_quote
           needed == quote.rule.needed
           capacity == quote.rule.capacity
           at == quote.instance
           left == {i \in DOMAIN Mine : i \notin Materials \/ Taken(i, needed) < Mine[i].quantity}
           rest(i) == Mine[i].quantity - Taken(i, needed)
           kept == [i \in left |-> IF i \in Materials THEN [Mine[i] EXCEPT !.quantity = rest(i)]
                                   ELSE IF i = at THEN [Mine[i] EXCEPT !.quantity = capacity]
                                   ELSE Mine[i]]
           receipt == [operation |-> quote.operation, needed |-> needed,
                       filled |-> capacity - quote.record.quantity]
           f == [i \in Materials |-> Mine[i].quantity]
           g == [i \in Materials |-> Taken(i, needed)]
           h == [i \in OfKind(kept, "material") |-> kept[i].quantity]
           a == [i \in OfKind(Mine, "talisman") |-> Mine[i].quantity]
           b == [i \in OfKind(kept, "talisman") |-> kept[i].quantity]
<1>1. /\ quote # None /\ Mine[at] = quote.record /\ Unrepaired(quote)
      /\ SumFunction(f) >= needed
      /\ inventory' = [inventory EXCEPT ![Keeper] = kept]
      /\ talisman_repairs' = talisman_repairs \cup {receipt} /\ UNCHANGED talisman_uses
  BY DEF Repair, AsQuoted, gearVars, talismanVars
<1>2. /\ needed \in Nat /\ capacity \in Nat /\ at \in DOMAIN Mine /\ Mine[at].kind = "talisman"
  BY <1>1 DEF Quotable, Owned, Geared, Quoted
<1>3. Mine' = kept
  BY <1>1, GearAssumption DEF Mine, Geared, Stocked, GearAssumption
<1>4. /\ IsFiniteSet(DOMAIN Mine) /\ \A j \in DOMAIN Mine : j \in Int /\ Tidy(Mine[j])
  BY MineFinite DEF Geared, Stocked
<1>5. /\ IsFiniteSet(Materials) /\ Materials \subseteq DOMAIN Mine
      /\ \A i \in Materials : i \in Int /\ Mine[i].quantity \in Nat /\ Mine[i].kind = "material" /\ Record(Mine[i])
  <2>1. Materials \subseteq DOMAIN Mine /\ \A i \in Materials : Mine[i].kind = "material"
    BY DEF Materials, Owned
  <2>2. IsFiniteSet(Materials)
    BY <1>4, <2>1, FS_Subset
  <2>3. \A i \in Materials : Record(Mine[i])
    BY <1>4, <2>1 DEF Tidy, Garments
  <2> QED BY <1>4, <2>1, <2>2, <2>3 DEF Tallied
<1>6. /\ \A i \in Materials : g[i] \in Nat /\ g[i] <= f[i]
      /\ SumFunction(f) \in Int /\ (SumFunction(f) >= needed => SumFunction(g) = needed)
  <2> HIDE DEF needed
  <2> QED BY <1>2, <1>5, TakenIs
<1>7. \A i \in left : i \in Materials =>
          /\ kept[i].kind = "material" /\ kept[i].quantity = f[i] - g[i]
  <2> SUFFICES ASSUME NEW i \in left, i \in Materials
               PROVE  kept[i].kind = "material" /\ kept[i].quantity = f[i] - g[i]
    OBVIOUS
  <2>1. kept[i] = [Mine[i] EXCEPT !.quantity = rest(i)]
    OBVIOUS
  <2>2. /\ [Mine[i] EXCEPT !.quantity = rest(i)].kind = Mine[i].kind
        /\ [Mine[i] EXCEPT !.quantity = rest(i)].quantity = rest(i)
    BY <1>5, Requantified
  <2> QED BY <1>5, <2>1, <2>2
<1>8. /\ at \in left /\ kept[at].kind = "talisman" /\ kept[at].quantity = capacity
      /\ Mine[at].quantity \in Nat
  <2>1. at \notin Materials /\ at \in left
    BY <1>2, <1>5
  <2>2. Record(Mine[at]) /\ Mine[at].quantity \in Nat
    BY <1>2, <1>4 DEF Tidy
  <2>3. kept[at] = [Mine[at] EXCEPT !.quantity = capacity]
    BY <2>1
  <2> HIDE DEF kept, at, capacity
  <2>4. /\ [Mine[at] EXCEPT !.quantity = capacity].kind = Mine[at].kind
        /\ [Mine[at] EXCEPT !.quantity = capacity].quantity = capacity
    BY <2>2, Requantified
  <2> QED BY <1>2, <2>1, <2>2, <2>3, <2>4
<1>9. \A i \in DOMAIN Mine : i \notin Materials /\ i # at => i \in left /\ kept[i] = Mine[i]
  OBVIOUS
<1>10. DOMAIN kept = left /\ left \subseteq DOMAIN Mine
  OBVIOUS
<1>11. \A i \in Materials : i \notin left => g[i] = f[i]
  <2>1. \A i \in Materials : i \notin left => ~(g[i] < f[i])
    BY <1>5
  <2>2. \A i \in Materials : g[i] \in Nat /\ f[i] \in Nat /\ g[i] <= f[i]
    BY <1>5, <1>6
  <2> HIDE DEF left, g, f
  <2> QED BY <2>1, <2>2
<1> HIDE DEF kept, left, receipt, needed, capacity, at, quote, f, g
<1>12. OfKind(kept, "material") = left \cap Materials
  <2>1. \A i \in OfKind(kept, "material") : i \in left /\ i \in Materials
    BY <1>8, <1>9, <1>10 DEF OfKind, Materials, Owned
  <2>2. \A i \in left \cap Materials : i \in OfKind(kept, "material")
    BY <1>7, <1>10 DEF OfKind
  <2> QED BY <2>1, <2>2
<1>13. OfKind(kept, "talisman") = OfKind(Mine, "talisman")
  <2>1. \A i \in OfKind(kept, "talisman") : i \in OfKind(Mine, "talisman")
    BY <1>2, <1>7, <1>9, <1>10 DEF OfKind
  <2>2. \A i \in OfKind(Mine, "talisman") : i \in OfKind(kept, "talisman")
    BY <1>5, <1>8, <1>9, <1>10 DEF OfKind
  <2> QED BY <2>1, <2>2
<1>14. Quantity(kept, "material") = Quantity(Mine, "material") - needed
  <2>1. Quantity(kept, "material") = SumFunction(h) /\ DOMAIN h = left \cap Materials
    BY <1>12 DEF Quantity, OfKind
  <2>2. Quantity(Mine, "material") = SumFunction(f) /\ DOMAIN f = Materials /\ DOMAIN g = Materials
    BY DEF Quantity, Materials, Owned, f, g
  <2>3. \A i \in left \cap Materials : h[i] = f[i] - g[i]
    BY <1>7, <1>12
  <2>4. \A i \in Materials : f[i] \in Int /\ g[i] \in Int
    BY <1>5, <1>6 DEF f
  <2>5. \A i \in Materials \ (left \cap Materials) : g[i] = f[i]
    BY <1>11
  <2>6. left \cap Materials \subseteq Materials
    OBVIOUS
  <2> HIDE DEF h
  <2>7. SumFunctionOnSet(h, left \cap Materials) = SumFunctionOnSet(f, Materials) - SumFunctionOnSet(g, Materials)
    BY <1>5, <2>3, <2>4, <2>5, <2>6, SumLeft
  <2>8. SumFunction(h) = SumFunction(f) - SumFunction(g)
    BY <2>1, <2>2, <2>7 DEF SumFunction
  <2> QED BY <1>1, <1>6, <2>1, <2>2, <2>8
<1>15. /\ Quantity(kept, "talisman") = Quantity(Mine, "talisman") - Mine[at].quantity + capacity
       /\ Quantity(Mine, "talisman") \in Int
  <2>1. Quantity(kept, "talisman") = SumFunction(b) /\ Quantity(Mine, "talisman") = SumFunction(a)
    BY DEF Quantity, OfKind
  <2>2. IsFiniteSet(OfKind(Mine, "talisman"))
    BY <1>4, FS_Subset DEF OfKind
  <2>3. DOMAIN a = OfKind(Mine, "talisman") /\ DOMAIN b = DOMAIN a /\ at \in DOMAIN a
    BY <1>2, <1>13 DEF OfKind
  <2>4. a[at] = Mine[at].quantity /\ b[at] = capacity
    BY <1>8, <1>13, <2>3
  <2>5. \A i \in DOMAIN a : a[i] \in Int
    BY <1>4 DEF OfKind, Tidy, Garments
  <2>6. \A i \in DOMAIN a : i # at => b[i] = a[i]
    <3>1. \A i \in DOMAIN a : i # at => kept[i] = Mine[i]
      BY <1>5, <1>9, <2>3 DEF OfKind
    <3> QED BY <1>13, <3>1
  <2> HIDE DEF a, b
  <2>7. \A i \in DOMAIN a : a[i] \in Int /\ b[i] \in Int /\ (i # at => b[i] = a[i])
    BY <1>2, <2>4, <2>5, <2>6
  <2>8. SumFunction(b) = SumFunction(a) - a[at] + b[at] /\ SumFunction(a) \in Int
    BY <2>2, <2>3, <2>7, SumChanges
  <2> QED BY <2>1, <2>4, <2>8
<1>16. receipt \notin talisman_repairs /\ receipt.needed = needed /\ receipt.filled = capacity - Mine[at].quantity
  BY <1>1 DEF Unrepaired, receipt
<1> DEFINE need == [r \in talisman_repairs |-> r.needed]
           needs == [r \in talisman_repairs' |-> r.needed]
           fill == [r \in talisman_repairs |-> r.filled]
           fills == [r \in talisman_repairs' |-> r.filled]
<1>17. /\ SumFunction(needs) = SumFunction(need) + needed /\ SumFunction(need) \in Int
       /\ SumFunction(fills) = SumFunction(fill) + (capacity - Mine[at].quantity) /\ SumFunction(fill) \in Int
  <2>1. receipt.needed \in Int /\ receipt.filled \in Int /\ IsFiniteSet(talisman_repairs)
    BY <1>2, <1>8, <1>16 DEF Tallied
  <2>2. /\ DOMAIN need = talisman_repairs /\ DOMAIN needs = DOMAIN need \cup {receipt}
        /\ \A r \in DOMAIN need : needs[r] = need[r] /\ need[r] \in Int
        /\ needs[receipt] = receipt.needed
    BY <1>1 DEF Tallied
  <2>3. /\ DOMAIN fill = talisman_repairs /\ DOMAIN fills = DOMAIN fill \cup {receipt}
        /\ \A r \in DOMAIN fill : fills[r] = fill[r] /\ fill[r] \in Int
        /\ fills[receipt] = receipt.filled
    BY <1>1 DEF Tallied
  <2> HIDE DEF need, needs, fill, fills
  <2>4. SumFunction(needs) = SumFunction(need) + needs[receipt] /\ SumFunction(need) \in Int
    BY <1>16, <2>1, <2>2, SumGrows
  <2>5. SumFunction(fills) = SumFunction(fill) + fills[receipt] /\ SumFunction(fill) \in Int
    BY <1>16, <2>1, <2>3, SumGrows
  <2> QED BY <1>16, <2>2, <2>3, <2>4, <2>5
<1> DEFINE spent == SumFunction([r \in talisman_uses |-> UseCost(r.kind)])
<1>18. /\ Quantity(Mine, "material") = Quantity(First, "material") - SumFunction(need)
       /\ Quantity(Mine, "talisman") = Quantity(First, "talisman") + SumFunction(fill) - spent
  BY DEF Tallied
<1>19. spent \in Int
  <2> DEFINE cost == [r \in talisman_uses |-> UseCost(r.kind)]
  <2>1. IsFiniteSet(DOMAIN cost) /\ \A r \in DOMAIN cost : cost[r] \in Int
    BY GearAssumption DEF GearAssumption, UseCost, Tallied
  <2> HIDE DEF cost
  <2>2. SumFunction(cost) \in Int
    BY <2>1, SumInt DEF SumFunction
  <2> QED BY <2>2 DEF cost
<1>20. Quantity(First, "material") \in Int /\ Quantity(First, "talisman") \in Int
  BY FirstCounted
<1> HIDE DEF need, needs, fill, fills, spent
<1>21. /\ Quantity(kept, "material") = Quantity(First, "material") - SumFunction(needs)
       /\ Quantity(kept, "talisman") = Quantity(First, "talisman") + SumFunction(fills) - spent
  BY <1>2, <1>8, <1>14, <1>15, <1>17, <1>18, <1>19, <1>20
<1>22. First' = First
  BY DEF First, Kinds
<1>23. /\ Quantity(Mine', "material") =
              Quantity(First', "material") - SumFunction([r \in talisman_repairs' |-> r.needed])
       /\ Quantity(Mine', "talisman") =
              Quantity(First', "talisman") + SumFunction([r \in talisman_repairs' |-> r.filled])
                                           - SumFunction([r \in talisman_uses' |-> UseCost(r.kind)])
  BY <1>1, <1>3, <1>21, <1>22 DEF needs, fills, spent
<1>24. IsFiniteSet(talisman_repairs') /\ \A r \in talisman_repairs' : r.needed \in Int /\ r.filled \in Int
  <2>1. IsFiniteSet(talisman_repairs')
    BY <1>1, FS_AddElement DEF Tallied
  <2>2. receipt.needed \in Int /\ receipt.filled \in Int
    BY <1>2, <1>8, <1>16
  <2> QED BY <1>1, <2>1, <2>2 DEF Tallied
<1>25. \A j \in Materials' : Mine'[j].quantity \in Nat
  <2>1. Materials' = OfKind(kept, "material")
    BY <1>3 DEF Materials, Owned, OfKind
  <2>2. \A j \in left \cap Materials : f[j] \in Nat /\ g[j] \in Nat /\ g[j] <= f[j]
    BY <1>5, <1>6 DEF f
  <2>3. \A j \in left \cap Materials : kept[j].quantity \in Nat
    BY <1>7, <2>2
  <2> QED BY <1>3, <1>12, <2>1, <2>3
<1>26. Owned("talisman")' = Owned("talisman")
  <2>1. Owned("talisman") = OfKind(Mine, "talisman") /\ Owned("talisman")' = OfKind(kept, "talisman")
    BY <1>3 DEF Owned, OfKind
  <2> QED BY <1>13, <2>1
<1>27. IsFiniteSet(talisman_uses')
  BY <1>1 DEF Tallied
<1> QED BY <1>23, <1>24, <1>25, <1>26, <1>27 DEF Tallied

\* A rule is imported, a repair is quoted, or a quote is forgotten.
LEMMA QuoteKeeps ==
    ASSUME Typed, Accounted, Geared, Talismans, UNCHANGED desk,
           \/ ExpireRepair
           \/ \E needed \in 1 .. 2, capacity \in Capacities : ImportRules(needed, capacity)
           \/ \E i \in Owned("talisman") : QuoteRepair(i)
    PROVE  Talismans'
<1>1. /\ UNCHANGED <<inventory, talisman_repairs, stage, serial, talisman_pending, talisman_sequences,
                     talisman_uses, replicas>>
  BY DEF ExpireRepair, ImportRules, QuoteRepair, storeVars, gearVars, talismanVars
<1>2. Untouched
  BY <1>1 DEF Untouched, Mine
<1>3. Tallied' /\ Waiting' /\ Told'
  BY <1>1, <1>2, TalliedSame, WaitingSame, ToldSame DEF Talismans
<1>4. CASE ExpireRepair
  BY <1>2, <1>3, <1>4, QuotableSame DEF ExpireRepair, Talismans
<1>5. ASSUME NEW needed \in 1 .. 2, NEW capacity \in Capacities, ImportRules(needed, capacity)
      PROVE  Talismans'
  <2>1. repair_rule'.needed \in Nat /\ UNCHANGED talisman_repair_quote
    BY <1>5 DEF ImportRules
  <2>2. Owned("talisman")' = Owned("talisman")
    BY <1>2, UntouchedQuantities
  <2> QED BY <1>3, <2>1, <2>2 DEF Talismans, Quotable
<1>6. ASSUME NEW i \in Owned("talisman"), QuoteRepair(i)
      PROVE  Talismans'
  <2>1. Owned("talisman")' = Owned("talisman") /\ UNCHANGED repair_rule
    BY <1>2, <1>6, UntouchedQuantities DEF QuoteRepair
  <2>2. talisman_repair_quote' # None => /\ talisman_repair_quote'.rule.needed \in Nat
                                         /\ talisman_repair_quote'.instance \in Owned("talisman")
    <3>1. CASE repair_rule # None /\ Mine[i].quantity < repair_rule.capacity
      <4>1. talisman_repair_quote'.instance = i /\ talisman_repair_quote'.rule = repair_rule
        BY <1>6, <3>1 DEF QuoteRepair
      <4> QED BY <3>1, <4>1 DEF Talismans, Quotable
    <3>2. CASE ~(repair_rule # None /\ Mine[i].quantity < repair_rule.capacity)
      BY <1>6, <3>2 DEF QuoteRepair
    <3> QED BY <3>1, <3>2
  <2> QED BY <1>3, <2>1, <2>2 DEF Talismans, Quotable
<1> QED BY <1>4, <1>5, <1>6

LEMMA TalismansKept ==
    ASSUME Typed, Accounted, Geared, StockKept, UNCHANGED desk,
           \/ desk = "repairs" /\ AtRepairs
           \/ desk = "talismans" /\ AtTalismans /\ UNCHANGED upkeepOnlyVars
    PROVE  StockKept'
<1>1. Talismans /\ desk \in {"repairs", "talismans"}
  BY DEF StockKept, Talismans
<1>2. Talismans' => StockKept'
  BY DEF StockKept, Talismans
<1>3. UNCHANGED upkeepOnlyVars => UNCHANGED <<repair_rule, talisman_repair_quote, talisman_repairs>>
  BY DEF upkeepOnlyVars, repairVars
<1>4. CASE UNCHANGED upkeepOnlyVars /\ Game
  BY <1>3, <1>4, GameKeepsStock
<1>5. CASE UNCHANGED upkeepOnlyVars /\ Dress
  BY <1>3, <1>5, DressKeepsStock
<1>6. CASE Disconnect
  <2>1. UNCHANGED <<repair_rule, talisman_repairs>> /\ talisman_repair_quote' = None
    BY <1>6 DEF Disconnect
  <2> QED BY <1>6, <2>1, GameKeepsStock
<1>7. CASE Repair
  <2>1. Tallied' /\ Owned("talisman")' = Owned("talisman")
    BY <1>1, <1>7, RepairKeeps DEF Talismans
  <2>2. UNCHANGED <<gearVars, repair_rule, talisman_repair_quote>>
    BY <1>7 DEF Repair
  <2>3. /\ UNCHANGED <<stage, serial, talisman_pending, talisman_sequences, talisman_uses, replicas>>
    BY <2>2 DEF gearVars, talismanVars
  <2>4. Waiting' /\ Told'
    BY <1>1, <2>3, WaitingSame, ToldSame DEF Talismans
  <2>5. Quotable'
    BY <1>1, <2>1, <2>2 DEF Talismans, Quotable
  <2> QED BY <1>2, <2>1, <2>4, <2>5 DEF Talismans
<1>8. CASE \/ ExpireRepair
           \/ \E needed \in 1 .. 2, capacity \in Capacities : ImportRules(needed, capacity)
           \/ \E i \in Owned("talisman") : QuoteRepair(i)
  BY <1>1, <1>2, <1>8, QuoteKeeps
<1>9. ASSUME NEW i \in DOMAIN talisman_pending, UNCHANGED upkeepOnlyVars, Confirm(i) PROVE StockKept'
  BY <1>1, <1>2, <1>3, <1>9, ConfirmKeeps
<1>10. ASSUME NEW i \in DOMAIN talisman_pending, UNCHANGED upkeepOnlyVars,
              \/ ForgetUse(i)
              \/ \E kind \in Uses, seq \in Nat, seen \in BOOLEAN : AnnounceUse(i, kind, seq, seen)
       PROVE  StockKept'
  BY <1>1, <1>2, <1>3, <1>10, PendingKeeps
<1>11. CASE UNCHANGED upkeepOnlyVars /\ Used
  <2>1. PICK i \in DOMAIN talisman_pending : AnnounceUse(i, "active", 1, TRUE) \/ Confirm(i)
    BY <1>11 DEF Used
  <2>2. CASE Confirm(i)
    BY <1>9, <1>11, <2>2
  <2>3. CASE AnnounceUse(i, "active", 1, TRUE)
    <3> DEFINE yes == TRUE
    <3>1. AnnounceUse(i, "active", 1, yes) /\ yes \in BOOLEAN /\ "active" \in Uses /\ 1 \in Nat
      BY <2>3 DEF Uses
    <3> HIDE DEF yes
    <3> QED BY <1>10, <1>11, <3>1
  <2> QED BY <2>1, <2>2, <2>3
<1>12. CASE UNCHANGED upkeepOnlyVars /\ TalismanNext
  <2>1. PICK i \in DOMAIN talisman_pending :
            \/ Confirm(i) \/ ForgetUse(i)
            \/ \E seq \in 1 .. MaxUses, kind \in Uses, seen \in BOOLEAN : AnnounceUse(i, kind, seq, seen)
    BY <1>12 DEF TalismanNext
  <2>2. \A seq \in 1 .. MaxUses : seq \in Nat
    OBVIOUS
  <2> QED BY <1>9, <1>10, <1>12, <2>1, <2>2
<1> QED BY <1>4, <1>5, <1>6, <1>7, <1>8, <1>11, <1>12 DEF AtRepairs, RepairNext, AtTalismans

LEMMA StockStep ==
    ASSUME Typed, Accounted, Geared, StockKept, [Next]_vars
    PROVE  StockKept'
<1>1. CASE desk \notin {"potions", "repairs", "talismans"} /\ UNCHANGED desk
  BY <1>1 DEF StockKept
<1>2. CASE desk = "potions" /\ AtPotions /\ UNCHANGED <<desk, upkeepOnlyVars>>
  <2>1. UNCHANGED <<repair_rule, talisman_repair_quote, talisman_repairs>>
    BY <1>2 DEF upkeepOnlyVars, repairVars
  <2>2. CASE Game
    BY <1>2, <2>1, <2>2, GameKeepsStock
  <2>3. CASE Dress
    BY <1>2, <2>1, <2>3, DressKeepsStock
  <2>4. CASE PotionNext
    BY <1>2, <2>4, PotionsStepKept DEF StockKept
  <2> QED BY <1>2, <2>2, <2>3, <2>4 DEF AtPotions
<1>3. CASE UNCHANGED desk /\ \/ desk = "repairs" /\ AtRepairs
                             \/ desk = "talismans" /\ AtTalismans /\ UNCHANGED upkeepOnlyVars
  BY <1>3, TalismansKept
<1>4. CASE UNCHANGED vars
  <2>1. UNCHANGED <<desk, inventory, repair_rule, talisman_repair_quote, talisman_repairs, stage, serial,
                    talisman_pending, talisman_sequences, talisman_uses, replicas, consume_intents,
                    consumption_events, intents>>
    BY <1>4 DEF vars, storeVars, upkeepOnlyVars, repairVars, gearVars, talismanVars, potionVars
  <2>2. Mine' = Mine /\ First' = First
    BY <2>1 DEF Mine, First, Kinds
  <2>3. Untouched
    BY <2>2 DEF Untouched
  <2>4. PotionsKept => PotionsKept'
    BY <2>1, <2>2 DEF PotionsKept
  <2>5. Talismans => Talismans'
    BY <2>1, <2>3, TalliedSame, QuotableSame, WaitingSame, ToldSame DEF Talismans
  <2> QED BY <2>1, <2>4, <2>5 DEF StockKept, Talismans
<1> QED BY <1>1, <1>2, <1>3, <1>4 DEF Next

LEMMA StockInitially ==
    ASSUME Init
    PROVE  StockKept
<1>1. Mine = First
  BY FirstIs
<1>2. /\ consume_intents = {} /\ consumption_events = {} /\ intents = 0
      /\ talisman_repairs = {} /\ talisman_uses = {} /\ replicas = <<>> /\ serial = 0
      /\ repair_rule = None /\ talisman_repair_quote = None
  BY DEF Init, GearInit, UpkeepInit
<1>3. /\ talisman_pending = [i \in DOMAIN First |-> None]
      /\ talisman_sequences = [x \in (DOMAIN First) \X Uses |-> 0]
  BY DEF Init, GearInit, First
<1>4. IsFiniteSet({}) /\ Cardinality({}) = 0
  BY FS_EmptySet
<1>5. \A kind : Quantity(First, kind) \in Int
  BY FirstCounted
<1>6. PotionsKept
  BY <1>1, <1>2, <1>4, <1>5 DEF PotionsKept
<1>7. Tallied
  <2> DEFINE need == [r \in talisman_repairs |-> r.needed]
             fill == [r \in talisman_repairs |-> r.filled]
             cost == [r \in talisman_uses |-> UseCost(r.kind)]
  <2>1. DOMAIN need = {} /\ DOMAIN fill = {} /\ DOMAIN cost = {}
    BY <1>2
  <2> HIDE DEF need, fill, cost
  <2>2. SumFunction(need) = 0 /\ SumFunction(fill) = 0 /\ SumFunction(cost) = 0
    BY <2>1, SumEmpty DEF SumFunction
  <2>3. \A j \in Materials : Mine[j].quantity \in Nat
    BY <1>1, FirstCounted DEF Materials, Owned
  <2>4. /\ Quantity(Mine, "material") = Quantity(First, "material") - SumFunction(need)
        /\ Quantity(Mine, "talisman") = Quantity(First, "talisman") + SumFunction(fill) - SumFunction(cost)
    BY <1>1, <1>5, <2>2
  <2> QED BY <1>2, <1>4, <2>3, <2>4 DEF Tallied, need, fill, cost
<1>8. Quotable
  BY <1>2 DEF Quotable
<1>9. Waiting
  BY <1>3 DEF Waiting
<1>10. Told
  BY <1>2 DEF Told
<1> QED BY <1>6, <1>7, <1>8, <1>9, <1>10 DEF StockKept

LEMMA StockMeans ==
    ASSUME StockKept
    PROVE  StockBalances
<1>1. ASSUME PotionsKept PROVE Cardinality(consumption_events) <= intents
  <2>1. Cardinality(consumption_events) \in Nat /\ Cardinality(consume_intents) \in Nat
    BY <1>1, FS_CardinalityType DEF PotionsKept
  <2> QED BY <1>1, <2>1 DEF PotionsKept
<1>2. ASSUME Told
      PROVE  /\ \A r \in ToSet(replicas) : [r EXCEPT !.seq = IF r.kind = "passive" THEN 0 ELSE @] \in talisman_uses
             /\ IsInjective(replicas)
  <2>1. \A k \in DOMAIN replicas : replicas[k] \in Replicas
    BY <1>2 DEF Told
  <2>2. \A r \in Replicas : [r EXCEPT !.seq = IF r.kind = "passive" THEN 0 ELSE @] = Receipt(r)
    BY DEF Replicas, Receipt
  <2>3. \A r \in ToSet(replicas) : r \in Replicas /\ Receipt(r) \in talisman_uses
    BY <1>2, <2>1 DEF ToSet, Told
  <2>4. IsInjective(replicas)
    BY <1>2 DEF IsInjective, Told
  <2> QED BY <2>2, <2>3, <2>4
<1> QED BY <1>1, <1>2 DEF StockKept, StockBalances, PotionsKept, Tallied

\* What is left in the Keeper's pockets is what the receipts leave there,
\* whatever was repeated, reordered or late; each use was announced, paid and
\* told once.
THEOREM StockAlwaysBalances == Spec => []StockBalances
<1>1. Init => ItemsInvariant /\ StockKept
  BY ItemsInductive, StockInitially
<1>2. ItemsInvariant /\ StockKept /\ [Next]_vars => (ItemsInvariant /\ StockKept)'
  BY ItemsInductive, StockStep DEF ItemsInvariant
<1>3. ItemsInvariant /\ StockKept => StockBalances
  BY StockMeans
<1> QED BY <1>1, <1>2, <1>3, PTL DEF Spec
=============================================================================
