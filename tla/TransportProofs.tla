-------------------------- MODULE TransportProofs --------------------------
(***************************************************************************)
(* Proofs about Records, Listener and Outgoing.  For every window, every   *)
(* record limit and both kinds of channel the replay window is exact, and  *)
(* the channel delivers each record at most once, a stream in order and    *)
(* without a gap.  For any number of sockets, addresses, accounts and      *)
(* identities, and any limits, every connection is counted once.           *)
(*                                                                         *)
(* Whatever senders, encoders and closing connections do, each in its own  *)
(* order, the bytes held are those the budgets were charged for: Paying    *)
(* says of every player what its sends, its queue and its abandoned        *)
(* encodings hold (PlayerPaid), of the server the sum of them              *)
(* (BudgetPaid) and of the encoders who has a slot (WorkersPaid).          *)
(***************************************************************************)
EXTENDS Transport, FiniteSetTheorems, SumLemmas, TLAPS

-----------------------------------------------------------------------------
(* Records                                                                 *)

\* A stream has opened exactly the records before the one it expects, once
\* each; a datagram channel has opened nothing twice.
OpenedOnce ==
    /\ \A s \in Sequence : opened[s] \in {0, 1} /\ (opened[s] = 1 => s < sent)
    /\ channel = "TCP" => next <= sent /\ \A s \in Sequence : opened[s] = 1 <=> s < next

\* The inductive invariant.
Sound == TypeOK /\ WindowExact /\ OpenedOnce

-----------------------------------------------------------------------------
\* Before the first record.
LEMMA InitSound == Init => Sound
<1> SUFFICES ASSUME Init PROVE Sound
    OBVIOUS
<1> USE RecordsAssumption DEF Init, Sequence, Ages
<1>1. TypeOK
  <2>1. sent \in 0 .. Limit /\ next \in 0 .. Limit
      OBVIOUS
  <2>5. closed \in BOOLEAN
      BY Zenon
  <2>2. high \in -1 .. Limit - 1
      OBVIOUS
  <2>3. seen \subseteq Ages
      OBVIOUS
  <2>4. opened \in [Sequence -> Nat]
      OBVIOUS
  <2>. QED  BY <2>1, <2>2, <2>3, <2>4, <2>5 DEF TypeOK
<1>2. WindowExact
  <2>1. high < sent /\ \A a \in Ages : a \notin seen /\ high - a < 0
      OBVIOUS
  <2>2. \A s \in Sequence : opened[s] = 0
      OBVIOUS
  <2>. QED  BY <2>1, <2>2 DEF WindowExact
<1>3. OpenedOnce
    BY DEF OpenedOnce
<1>. QED  BY <1>1, <1>2, <1>3 DEF Sound

\* Records.seal: the new number is above everything that was opened.
LEMMA SealSound == Sound /\ Seal => Sound'
<1> SUFFICES ASSUME Sound, Seal PROVE Sound'
    OBVIOUS
<1> USE RecordsAssumption DEF Sound, TypeOK, Seal, Sequence, Ages
<1>1. TypeOK'
    OBVIOUS
<1>2. WindowExact'
    BY DEF WindowExact
<1>3. OpenedOnce'
    BY DEF OpenedOnce
<1>. QED  BY <1>1, <1>2, <1>3

\* A record that decrypts and passes the check is one that was never opened
\* and that the peer sealed; on a stream it is the expected one.
LEMMA AcceptedIsNew ==
    ASSUME Sound, NEW p \in Packets, Accepted(p)
    PROVE  /\ p.seq \in Sequence /\ p.seq < sent /\ opened[p.seq] = 0
           /\ channel = "TCP" => p.seq = next
<1> USE RecordsAssumption DEF Sound, TypeOK, Sequence, Ages, Packets, Accepted, Replayed
<1>1. p.seq \in Sequence /\ p.seq < sent
    OBVIOUS
<1>2. CASE channel = "TCP"
    BY <1>1, <1>2 DEF OpenedOnce
<1>3. CASE channel = "UDP"
  <2>1. CASE p.seq > high
    BY <1>1, <1>3, <2>1 DEF WindowExact
  <2>2. CASE p.seq <= high
    <3>1. high - p.seq \in Ages /\ high - (high - p.seq) = p.seq
        BY <1>1, <1>3, <2>2
    <3>2. ~ (opened[p.seq] > 0)
        BY <1>1, <1>3, <3>1 DEF WindowExact
    <3>. QED  BY <1>1, <1>3, <3>2
  <2>. QED  BY <1>1, <2>1, <2>2
<1>. QED  BY <1>2, <1>3

\* Records.open.
LEMMA OpenSound ==
    ASSUME Sound, NEW p \in Packets, Open(p)
    PROVE  Sound'
<1> USE RecordsAssumption DEF Sound, TypeOK, Sequence, Ages, Open, Commits
<1>0. p.seq \in Sequence /\ closed' \in BOOLEAN /\ sent' = sent /\ channel' = channel
    BY DEF Packets
<1>1. CASE ~Accepted(p)
    BY <1>0, <1>1 DEF WindowExact, OpenedOnce
<1>2. CASE Accepted(p)
  <2>1. /\ p.seq < sent /\ opened[p.seq] = 0
        /\ channel = "TCP" => p.seq = next
    BY <1>2, AcceptedIsNew
  <2>2. opened' = [opened EXCEPT ![p.seq] = 1]
    BY <1>0, <1>2, <2>1
  <2>3. OpenedOnce'
    <3>1. \A s \in Sequence : opened'[s] \in {0, 1} /\ (opened'[s] = 1 => s < sent')
        BY <1>0, <2>1, <2>2 DEF OpenedOnce
    <3>2. ASSUME channel = "TCP"
          PROVE  next' <= sent' /\ \A s \in Sequence : opened'[s] = 1 <=> s < next'
        BY <1>0, <1>2, <2>1, <2>2, <3>2 DEF OpenedOnce
    <3>. QED  BY <3>1, <3>2 DEF OpenedOnce
  <2>4. CASE channel = "TCP"
    <3>1. UNCHANGED <<high, seen>> /\ next' = next + 1
        BY <1>2, <2>4
    <3>2. TypeOK'
        BY <1>0, <2>1, <2>2, <2>4, <3>1
    <3>3. WindowExact'
        BY <2>4 DEF WindowExact
    <3>. QED  BY <2>3, <3>2, <3>3
  <2>5. CASE channel = "UDP"
    <3>1. /\ next' = next
          /\ high' = Highest(p.seq)
          /\ seen' = Shifted(p.seq) \cup {Highest(p.seq) - p.seq}
        BY <1>2, <2>5
    <3>2. Highest(p.seq) - p.seq \in Ages
        BY <1>0, <1>2, <2>5 DEF Highest, Accepted, Replayed
    <3>3. TypeOK'
        BY SMTT(30), <1>0, <2>2, <2>5, <3>1, <3>2 DEF Highest, Shifted
    <3>4. ASSUME NEW a \in Ages
          PROVE  a \in seen' <=> high' - a >= 0 /\ opened'[high' - a] > 0
      <4>1. CASE p.seq > high
        <5>1. high' = p.seq /\ seen' = {b \in Ages : b - (p.seq - high) \in seen} \cup {0}
            BY <1>0, <3>1, <4>1 DEF Highest, Shifted
        <5>0. /\ a \in 0 .. Window - 1 /\ p.seq \in 0 .. Limit - 1
              /\ high \in Int /\ high >= -1 /\ high <= Limit - 1 /\ high' = p.seq
            BY <1>0, <5>1
        <5>2. CASE a = 0
            BY <1>0, <2>2, <5>1, <5>2
        <5>3. CASE a # 0 /\ a < p.seq - high
          <6>1. a \notin seen'
              BY SMTT(30), <1>0, <4>1, <5>1, <5>3
          <6>2. high' - a \in Sequence /\ high' - a > high /\ high' - a # p.seq
              BY <1>0, <4>1, <5>1, <5>3
          <6>3. opened[high' - a] = 0
              BY <2>5, <6>2 DEF WindowExact
          <6>4. opened'[high' - a] = 0
            <7>1. opened \in [Sequence -> Nat]
                OBVIOUS
            <7>. QED  BY ONLY <2>2, <6>2, <6>3, <7>1
          <6>. QED  BY <6>1, <6>4
        <5>4. CASE a >= p.seq - high
          <6>. DEFINE b == a - (p.seq - high)
          <6>1. b \in Ages /\ high' - a = high - b /\ a # 0 /\ high' - a # p.seq
              BY ONLY RecordsAssumption, <4>1, <5>0, <5>4 DEF Ages
          <6>2. a \in seen' <=> b \in seen
              BY <5>1, <6>1
          <6>3. b \in seen <=> high - b >= 0 /\ opened[high - b] > 0
              BY <2>5, <6>1 DEF WindowExact
          <6>4. high - b >= 0 => opened'[high' - a] = opened[high - b]
            <7>0. high \in Int /\ high <= Limit - 1 /\ b \in Nat
                BY <6>1
            <7>1. high - b >= 0 => high - b \in Sequence
                BY ONLY <7>0, RecordsAssumption DEF Sequence
            <7>2. high - b # p.seq
                BY <6>1
            <7>. QED  BY <1>0, <2>2, <6>1, <7>1, <7>2
          <6>. QED  BY <6>1, <6>2, <6>3, <6>4
        <5>. QED  BY <1>0, <5>2, <5>3, <5>4
      <4>2. CASE p.seq <= high
        <5>1. high' = high /\ seen' = seen \cup {high - p.seq}
          <6>1. Highest(p.seq) = high
              BY <1>0, <4>2 DEF Highest
          <6>2. \A b \in Ages : b - (Highest(p.seq) - high) = b
              BY <6>1
          <6>3. Shifted(p.seq) = {b \in Ages : b \in seen}
              BY ONLY <6>2 DEF Shifted
          <6>4. Shifted(p.seq) = seen
              BY <6>3
          <6>. QED  BY <3>1, <6>1, <6>4
        <5>2. CASE a = high - p.seq
            BY SMTT(30), <1>0, <2>2, <5>1, <5>2
        <5>3. CASE a # high - p.seq
          <6>1. high - a # p.seq
              BY <1>0, <5>3
          <6>2. high - a >= 0 => opened'[high - a] = opened[high - a]
              BY <1>0, <2>2, <6>1
          <6>. QED  BY <2>5, <5>1, <5>3, <6>2 DEF WindowExact
        <5>. QED  BY <5>2, <5>3
      <4>. QED  BY <1>0, <4>1, <4>2
    <3>5. high' < sent' /\ \A s \in Sequence : s > high' => opened'[s] = 0
        BY <1>0, <2>1, <2>2, <2>5, <3>1 DEF Highest, WindowExact
    <3>6. WindowExact'
        BY <2>5, <3>4, <3>5 DEF WindowExact
    <3>. QED  BY <2>3, <3>3, <3>6
  <2>. QED  BY <2>4, <2>5
<1>. QED  BY <1>1, <1>2

LEMMA StepSound == Sound /\ [Next]_vars => Sound'
<1> SUFFICES ASSUME Sound, [Next]_vars PROVE Sound'
    OBVIOUS
<1>1. CASE Seal
    BY <1>1, SealSound
<1>2. ASSUME NEW p \in Packets, Open(p) PROVE Sound'
    BY <1>2, OpenSound
<1>3. CASE UNCHANGED vars
    BY <1>3 DEF vars, Sound, TypeOK, WindowExact, OpenedOnce
<1>. QED  BY <1>1, <1>2, <1>3 DEF Next

THEOREM RecordsInvariant == Spec => []Sound
<1>1. Init => Sound
    BY InitSound
<1>2. Sound /\ [Next]_vars => Sound'
    BY StepSound
<1>. QED  BY <1>1, <1>2, PTL DEF Spec

\* The bitmap of Records is exact for every window width and record limit.
THEOREM WindowIsExact == Spec => []WindowExact
<1>1. Sound => WindowExact
    BY DEF Sound
<1>. QED  BY <1>1, RecordsInvariant, PTL

\* No forgery or replay locks out a datagram that is still in the window.
THEOREM FreshIsAdmitted == Spec => []FreshAdmitted
<1>1. Sound => FreshAdmitted
  <2> SUFFICES ASSUME Sound, channel = "UDP", NEW s \in Sequence,
                      s < sent, opened[s] = 0, high - s < Window
               PROVE  ~Replayed(s)
      BY DEF FreshAdmitted
  <2> USE RecordsAssumption DEF Sound, TypeOK, Sequence, Ages
  <2>1. CASE s > high
      BY <2>1 DEF Replayed
  <2>2. CASE s <= high
    <3>1. high - s \in Ages /\ high - (high - s) = s
        BY <2>2
    <3>2. high - s \notin seen
        BY <3>1 DEF WindowExact
    <3>. QED  BY <3>2 DEF Replayed
  <2>. QED  BY <2>1, <2>2
<1>. QED  BY <1>1, RecordsInvariant, PTL

\* Records implements Delivery.
THEOREM RecordsDeliverOnce == Spec => AtMostOnce
<1>1. Init => Promise!Init
    BY DEF Init, Promise!Init, Promise!Messages, Sequence
<1>2. Sound /\ [Next]_vars => [Promise!Next]_<<channel = "TCP", sent, opened>>
  <2> SUFFICES ASSUME Sound, [Next]_vars
               PROVE  Promise!Next \/ UNCHANGED <<channel = "TCP", sent, opened>>
      OBVIOUS
  <2>1. CASE Seal
      BY <2>1 DEF Seal, Promise!Next, Promise!Send
  <2>2. ASSUME NEW p \in Packets, Open(p)
        PROVE  Promise!Next \/ UNCHANGED <<channel = "TCP", sent, opened>>
    <3>1. CASE ~Accepted(p)
        BY <2>2, <3>1 DEF Open
    <3>2. CASE Accepted(p)
      <4>1. /\ p.seq \in Sequence /\ p.seq < sent /\ opened[p.seq] = 0
            /\ channel = "TCP" => p.seq = next
          BY <3>2, AcceptedIsNew
      <4>2. opened' = [opened EXCEPT ![p.seq] = 1] /\ UNCHANGED sent
          BY <2>2, <3>2, <4>1 DEF Open, Sound, TypeOK
      <4>3. channel = "TCP" => \A n \in Sequence : n < p.seq => opened[n] > 0
          BY <4>1 DEF Sound, OpenedOnce
      <4>4. UNCHANGED (channel = "TCP")
          BY <2>2 DEF Open
      <4>5. p.seq \in Promise!Messages /\ Promise!Deliver(p.seq)
          BY <4>1, <4>2, <4>3, <4>4 DEF Promise!Deliver, Promise!Messages, Sequence
      <4>. QED  BY <4>5 DEF Promise!Next
    <3>. QED  BY <3>1, <3>2
  <2>3. CASE UNCHANGED vars
      BY <2>3 DEF vars
  <2>. QED  BY <2>1, <2>2, <2>3 DEF Next
<1>. QED  BY <1>1, <1>2, RecordsInvariant, PTL DEF Spec, AtMostOnce, Promise!Spec

\* What the run checks of the three parts together is about the same records.
THEOREM TransportRunsRecords == TransportSpec => Spec
<1>1. TransportInit => Init
  BY DEF TransportInit
<1>2. [TransportNext]_<<part, vars, listenerVars, outgoingVars>> => [Next]_vars
  BY DEF TransportNext
<1> QED BY <1>1, <1>2, PTL DEF TransportSpec, Spec

-----------------------------------------------------------------------------
(* The connections of a listener                                           *)

\* n is the number of elements of S.
Counted(S, n) == IsFiniteSet(S) /\ n \in Nat /\ Cardinality(S) = n

\* The connections that are not authenticated, by address, and those that are.
From(p) == {s \in Unbound : peer[s] = p}
Live == {s \in Sockets : ~released[s] /\ uid[s] # None}

ListenerTypes ==
    /\ at \in [Sockets -> Places]
    /\ peer \in [Sockets -> Addresses \cup {None}]
    /\ claim \in [Sockets -> {None} \cup [user : Users, identity : Identities]]
    /\ uid \in [Sockets -> Users \cup {None}]
    /\ released \in [Sockets -> BOOLEAN]
    /\ DOMAIN by_ip = Addresses /\ DOMAIN by_uid = Users
    /\ transport_connections \in [Users -> SUBSET Identities]
    /\ served \in [Users -> [Identities -> Nat]]

\* A lease is open while one of the coroutines may still use it, and is that
\* of an account exactly while the handler serves it.
Leased ==
    \A s \in Sockets :
        /\ released[s] <=> at[s] \in {"free", "ended"}
        /\ ~released[s] => peer[s] \in Addresses /\ (uid[s] # None <=> at[s] = "busy")

Budgeted ==
    /\ Counted(Unbound, pending) /\ pending <= PendingLimit
    /\ \A p \in Addresses : Counted(From(p), by_ip[p])
    /\ Counted(Live, active) /\ active <= ActiveLimit
    /\ \A u \in Users : Counted(Bound(u), by_uid[u]) /\ by_uid[u] <= UserLimit

\* An identity is spent exactly when it has been served.
Spent ==
    \A u \in Users :
        /\ IsFiniteSet(transport_connections[u]) /\ Cardinality(transport_connections[u]) <= IdentityLimit
        /\ \A i \in Identities : served[u][i] = IF i \in transport_connections[u] THEN 1 ELSE 0

LEMMA CountOneMore ==
    ASSUME NEW S, NEW n, Counted(S, n), NEW x, x \notin S
    PROVE  Counted(S \cup {x}, n + 1)
<1>1. IsFiniteSet(S \cup {x}) /\ Cardinality(S \cup {x}) = Cardinality(S) + 1
  BY FS_AddElement DEF Counted
<1> QED BY <1>1 DEF Counted

LEMMA CountOneLess ==
    ASSUME NEW S, NEW n, Counted(S, n), NEW x, x \in S
    PROVE  Counted(S \ {x}, n - 1)
<1>1. IsFiniteSet(S \ {x}) /\ Cardinality(S \ {x}) = Cardinality(S) - 1
  BY FS_RemoveElement DEF Counted
<1>2. Cardinality(S \ {x}) \in Nat
  BY <1>1, FS_CardinalityType
<1> QED BY <1>1, <1>2 DEF Counted

\* A connection that is closed before it was authenticated.
LEMMA ReleasedPending ==
    ASSUME ListenerTypes, Leased, Budgeted, NEW s \in Sockets, ~released[s], uid[s] = None,
           Release(s), peer' = peer
    PROVE  Budgeted'
<1>1. /\ pending' = pending - 1 /\ by_ip' = [by_ip EXCEPT ![peer[s]] = @ - 1]
      /\ active' = active /\ by_uid' = by_uid /\ uid' = uid
      /\ released' = [released EXCEPT ![s] = TRUE]
  BY DEF Release, Releases
<1>2. \A r \in Sockets : released'[r] <=> released[r] \/ r = s
  BY <1>1 DEF ListenerTypes
<1>3. Unbound' = Unbound \ {s} /\ s \in Unbound
  BY <1>1, <1>2 DEF Unbound
<1>4. Live' = Live /\ \A u \in Users : Bound(u)' = Bound(u)
  BY <1>1, <1>2, ListenerAssumption DEF Live, Bound, ListenerAssumption
<1>5. Counted(Unbound', pending') /\ pending' <= PendingLimit
  <2>1. Counted(Unbound \ {s}, pending - 1)
    BY <1>3, CountOneLess DEF Budgeted
  <2> QED BY <1>1, <1>3, <2>1, ListenerAssumption DEF Budgeted, Counted, ListenerAssumption
<1>6. ASSUME NEW p \in Addresses
      PROVE  Counted(From(p)', by_ip'[p])
  <2>1. CASE p = peer[s]
    <3>1. From(p)' = From(p) \ {s} /\ s \in From(p)
      BY <1>3, <2>1 DEF From
    <3>2. by_ip'[p] = by_ip[p] - 1
      BY <1>1, <2>1 DEF ListenerTypes
    <3>3. Counted(From(p) \ {s}, by_ip[p] - 1)
      BY <3>1, CountOneLess DEF Budgeted
    <3> QED BY <3>1, <3>2, <3>3
  <2>2. CASE p # peer[s]
    <3>1. From(p)' = From(p) /\ by_ip'[p] = by_ip[p]
      BY <1>1, <1>3, <2>2 DEF From, ListenerTypes
    <3> QED BY <3>1 DEF Budgeted
  <2> QED BY <2>1, <2>2
<1> QED BY <1>1, <1>4, <1>5, <1>6 DEF Budgeted

\* One that is closed while it is served.
LEMMA ReleasedActive ==
    ASSUME ListenerTypes, Leased, Budgeted, NEW s \in Sockets, ~released[s], uid[s] # None,
           Release(s), peer' = peer
    PROVE  Budgeted'
<1>1. /\ pending' = pending /\ by_ip' = by_ip /\ uid' = uid
      /\ active' = active - 1 /\ by_uid' = [by_uid EXCEPT ![uid[s]] = @ - 1]
      /\ released' = [released EXCEPT ![s] = TRUE]
  BY DEF Release, Releases
<1>2. \A r \in Sockets : released'[r] <=> released[r] \/ r = s
  BY <1>1 DEF ListenerTypes
<1>3. Unbound' = Unbound /\ \A p \in Addresses : From(p)' = From(p)
  BY <1>1, <1>2 DEF Unbound, From
<1>4. Live' = Live \ {s} /\ s \in Live
  BY <1>1, <1>2 DEF Live
<1>5. Counted(Live', active') /\ active' <= ActiveLimit
  <2>1. Counted(Live \ {s}, active - 1)
    BY <1>4, CountOneLess DEF Budgeted
  <2> QED BY <1>1, <1>4, <2>1, ListenerAssumption DEF Budgeted, Counted, ListenerAssumption
<1>6. ASSUME NEW u \in Users
      PROVE  Counted(Bound(u)', by_uid'[u]) /\ by_uid'[u] <= UserLimit
  <2>1. CASE u = uid[s]
    <3>1. Bound(u)' = Bound(u) \ {s} /\ s \in Bound(u)
      BY <1>1, <1>2, <2>1 DEF Bound
    <3>2. by_uid'[u] = by_uid[u] - 1
      BY <1>1, <2>1 DEF ListenerTypes
    <3>3. Counted(Bound(u) \ {s}, by_uid[u] - 1)
      BY <3>1, CountOneLess DEF Budgeted
    <3> QED BY <3>1, <3>2, <3>3, ListenerAssumption DEF Budgeted, Counted, ListenerAssumption
  <2>2. CASE u # uid[s]
    <3>1. Bound(u)' = Bound(u) /\ by_uid'[u] = by_uid[u]
      BY <1>1, <1>2, <2>2 DEF Bound, ListenerTypes
    <3> QED BY <3>1 DEF Budgeted
  <2> QED BY <2>1, <2>2
<1> QED BY <1>1, <1>3, <1>5, <1>6 DEF Budgeted

\* Whatever a lease stands for, its second release changes nothing.
LEMMA ReleasedOnce ==
    ASSUME ListenerTypes, Leased, Budgeted, NEW s \in Sockets, Release(s), peer' = peer
    PROVE  /\ Budgeted'
           /\ uid' = uid /\ released' = [released EXCEPT ![s] = TRUE]
           /\ DOMAIN by_ip' = Addresses /\ DOMAIN by_uid' = Users
<1>1. uid' = uid /\ released' = [released EXCEPT ![s] = TRUE]
  BY DEF Release
<1>2. DOMAIN by_ip' = Addresses /\ DOMAIN by_uid' = Users
  BY DEF Release, ListenerTypes
<1>3. CASE released[s]
  <2>1. released' = released
    BY <1>1, <1>3 DEF ListenerTypes
  <2>2. UNCHANGED <<pending, by_ip, active, by_uid>>
    BY <1>3 DEF Release, Releases
  <2> QED BY <1>1, <1>2, <2>1, <2>2 DEF Budgeted, Unbound, From, Live, Bound
<1>4. CASE ~released[s]
  BY <1>1, <1>2, <1>4, ReleasedPending, ReleasedActive
<1> QED BY <1>3, <1>4
\* A connection that is authenticated is counted elsewhere.
LEMMA PromotedCounted ==
    ASSUME ListenerTypes, Leased, Budgeted, NEW s \in Sockets, ~released[s], uid[s] = None,
           NEW u \in Users, Promotable(u), Promote(s, u), peer' = peer
    PROVE  /\ Budgeted'
           /\ DOMAIN by_ip' = Addresses /\ DOMAIN by_uid' = Users
<1>1. /\ pending' = pending - 1 /\ by_ip' = [by_ip EXCEPT ![peer[s]] = @ - 1]
      /\ active' = active + 1 /\ by_uid' = [by_uid EXCEPT ![u] = @ + 1]
      /\ uid' = [uid EXCEPT ![s] = u] /\ released' = released /\ u # None
  BY ListenerAssumption DEF Promote, ListenerAssumption
<1>2. \A r \in Sockets : uid'[r] = IF r = s THEN u ELSE uid[r]
  BY <1>1 DEF ListenerTypes
<1>3. Unbound' = Unbound \ {s} /\ s \in Unbound
  BY <1>1, <1>2 DEF Unbound
<1>4. Live' = Live \cup {s} /\ s \notin Live
  BY <1>1, <1>2 DEF Live
<1>5. Counted(Unbound', pending') /\ pending' <= PendingLimit
  <2>1. Counted(Unbound \ {s}, pending - 1)
    BY <1>3, CountOneLess DEF Budgeted
  <2> QED BY <1>1, <1>3, <2>1, ListenerAssumption DEF Budgeted, Counted, ListenerAssumption
<1>6. Counted(Live', active') /\ active' <= ActiveLimit
  <2>1. Counted(Live \cup {s}, active + 1)
    BY <1>4, CountOneMore DEF Budgeted
  <2>2. active < ActiveLimit /\ ActiveLimit \in Nat /\ active \in Nat
    BY ListenerAssumption DEF Promotable, ListenerAssumption, Budgeted, Counted
  <2> QED BY <1>1, <1>4, <2>1, <2>2
<1>7. ASSUME NEW p \in Addresses
      PROVE  Counted(From(p)', by_ip'[p])
  <2>1. CASE p = peer[s]
    <3>1. From(p)' = From(p) \ {s} /\ s \in From(p)
      BY <1>3, <2>1 DEF From
    <3>2. by_ip'[p] = by_ip[p] - 1
      BY <1>1, <2>1 DEF ListenerTypes
    <3>3. Counted(From(p) \ {s}, by_ip[p] - 1)
      BY <3>1, CountOneLess DEF Budgeted
    <3> QED BY <3>1, <3>2, <3>3
  <2>2. CASE p # peer[s]
    <3>1. From(p)' = From(p) /\ by_ip'[p] = by_ip[p]
      BY <1>1, <1>3, <2>2 DEF From, ListenerTypes
    <3> QED BY <3>1 DEF Budgeted
  <2> QED BY <2>1, <2>2
<1>8. ASSUME NEW v \in Users
      PROVE  Counted(Bound(v)', by_uid'[v]) /\ by_uid'[v] <= UserLimit
  <2>1. CASE v = u
    <3>1. Bound(v)' = Bound(v) \cup {s} /\ s \notin Bound(v)
      BY <1>1, <1>2, <2>1 DEF Bound
    <3>2. by_uid'[v] = by_uid[v] + 1
      BY <1>1, <2>1 DEF ListenerTypes
    <3>3. Counted(Bound(v) \cup {s}, by_uid[v] + 1)
      BY <3>1, CountOneMore DEF Budgeted
    <3>4. by_uid[v] < UserLimit /\ UserLimit \in Nat /\ by_uid[v] \in Nat
      BY <2>1, ListenerAssumption DEF Promotable, ListenerAssumption, Budgeted, Counted
    <3> QED BY <3>1, <3>2, <3>3, <3>4
  <2>2. CASE v # u
    <3>1. Bound(v)' = Bound(v) /\ by_uid'[v] = by_uid[v]
      BY <1>1, <1>2, <2>2, ListenerAssumption DEF Bound, ListenerTypes, ListenerAssumption
    <3> QED BY <3>1 DEF Budgeted
  <2> QED BY <2>1, <2>2
<1>9. DOMAIN by_ip' = Addresses /\ DOMAIN by_uid' = Users
  BY <1>1 DEF ListenerTypes
<1> QED BY <1>5, <1>6, <1>7, <1>8, <1>9 DEF Budgeted

\* A connection that is accepted is counted.
LEMMA AcceptedCounted ==
    ASSUME ListenerTypes, Leased, Budgeted, NEW s \in Sockets, NEW p \in Addresses, Accept(s, p)
    PROVE  /\ Budgeted'
           /\ DOMAIN by_ip' = Addresses /\ DOMAIN by_uid' = Users
<1>1. /\ pending' = pending + 1 /\ by_ip' = [by_ip EXCEPT ![p] = @ + 1]
      /\ active' = active /\ by_uid' = by_uid
      /\ uid' = [uid EXCEPT ![s] = None] /\ released' = [released EXCEPT ![s] = FALSE]
      /\ peer' = [peer EXCEPT ![s] = p]
      /\ released[s] /\ pending < PendingLimit
  BY DEF Accept, Leased
<1>2. \A r \in Sockets : /\ uid'[r] = IF r = s THEN None ELSE uid[r]
                         /\ released'[r] <=> released[r] /\ r # s
                         /\ peer'[r] = IF r = s THEN p ELSE peer[r]
  BY <1>1 DEF ListenerTypes
<1>3. Unbound' = Unbound \cup {s} /\ s \notin Unbound
  BY <1>1, <1>2 DEF Unbound
<1>4. Live' = Live /\ \A u \in Users : Bound(u)' = Bound(u)
  BY <1>1, <1>2, ListenerAssumption DEF Live, Bound, ListenerAssumption
<1>5. Counted(Unbound', pending') /\ pending' <= PendingLimit
  <2>1. Counted(Unbound \cup {s}, pending + 1)
    BY <1>3, CountOneMore DEF Budgeted
  <2>2. PendingLimit \in Nat /\ pending \in Nat
    BY ListenerAssumption DEF ListenerAssumption, Budgeted, Counted
  <2> QED BY <1>1, <1>3, <2>1, <2>2
<1>6. ASSUME NEW q \in Addresses
      PROVE  Counted(From(q)', by_ip'[q])
  <2>1. CASE q = p
    <3>1. From(q)' = From(q) \cup {s} /\ s \notin From(q)
      BY <1>2, <1>3, <2>1 DEF From, Unbound
    <3>2. by_ip'[q] = by_ip[q] + 1
      BY <1>1, <2>1 DEF ListenerTypes
    <3>3. Counted(From(q) \cup {s}, by_ip[q] + 1)
      BY <3>1, CountOneMore DEF Budgeted
    <3> QED BY <3>1, <3>2, <3>3
  <2>2. CASE q # p
    <3>1. From(q)' = From(q) /\ by_ip'[q] = by_ip[q]
      BY <1>1, <1>2, <1>3, <2>2 DEF From, Unbound, ListenerTypes
    <3> QED BY <3>1 DEF Budgeted
  <2> QED BY <2>1, <2>2
<1>7. DOMAIN by_ip' = Addresses /\ DOMAIN by_uid' = Users
  BY <1>1 DEF ListenerTypes
<1> QED BY <1>1, <1>4, <1>5, <1>6, <1>7 DEF Budgeted

\* What holds of a listener in every state.
Admitting == ListenerTypes /\ Leased /\ Budgeted /\ Spent

LEMMA AdmittingKept == Admitting /\ [ListenerNext]_listenerVars => Admitting'
<1> SUFFICES ASSUME ListenerTypes, Leased, Budgeted, Spent, [ListenerNext]_listenerVars
             PROVE  Admitting'
  BY DEF Admitting
<1>1. CASE UNCHANGED listenerVars
  BY <1>1 DEF listenerVars, Admitting, ListenerTypes, Leased, Budgeted, Spent, Unbound, From, Live, Bound
<1>2. ASSUME NEW s \in Sockets, NEW p \in Addresses, Accept(s, p)
      PROVE  Admitting'
  <2>1. Budgeted' /\ DOMAIN by_ip' = Addresses /\ DOMAIN by_uid' = Users
    BY <1>2, AcceptedCounted
  <2>2. ListenerTypes' /\ Leased'
    BY <1>2, <2>1 DEF Accept, identityVars, ListenerTypes, Leased, Places
  <2>3. Spent'
    BY <1>2 DEF Accept, identityVars, Spent
  <2> QED BY <2>1, <2>2, <2>3 DEF Admitting
<1>3. ASSUME NEW s \in Sockets, Handshake(s) \/ Start(s)
      PROVE  Admitting'
  <2>1. Budgeted' /\ Spent'
    BY <1>3 DEF Handshake, Start, budgetVars, identityVars, Budgeted, Spent, Unbound, From, Live, Bound
  <2>2. ListenerTypes' /\ Leased'
    BY <1>3 DEF Handshake, Start, Move, budgetVars, identityVars, ListenerTypes, Leased, Places
  <2> QED BY <2>1, <2>2 DEF Admitting
<1>4. ASSUME NEW s \in Sockets, Abandon(s) \/ End(s) \/ Detach(s)
      PROVE  Admitting'
  <2>1. Release(s) /\ UNCHANGED <<peer, claim, identityVars>>
    BY <1>4 DEF Abandon, End, Detach
  <2>2. /\ Budgeted' /\ uid' = uid /\ released' = [released EXCEPT ![s] = TRUE]
        /\ DOMAIN by_ip' = Addresses /\ DOMAIN by_uid' = Users
    BY <2>1, ReleasedOnce
  <2>3. at' = [at EXCEPT ![s] = "free"] \/ at' = [at EXCEPT ![s] = "ended"]
    BY <1>4 DEF Abandon, End, Detach, Move
  <2>4. ListenerTypes' /\ Leased'
    BY <2>1, <2>2, <2>3 DEF identityVars, ListenerTypes, Leased, Places
  <2>5. Spent'
    BY <2>1 DEF identityVars, Spent
  <2> QED BY <2>2, <2>4, <2>5 DEF Admitting
<1>5. ASSUME NEW s \in Sockets, NEW u \in Users, NEW i \in Identities, Header(s, u, i)
      PROVE  Admitting'
  <2>1. Budgeted' /\ Spent'
    BY <1>5 DEF Header, budgetVars, identityVars, Budgeted, Spent, Unbound, From, Live, Bound
  <2>2. ListenerTypes' /\ Leased'
    BY <1>5 DEF Header, Move, budgetVars, identityVars, ListenerTypes, Leased, Places
  <2> QED BY <2>1, <2>2 DEF Admitting
<1>6. ASSUME NEW s \in Sockets, Body(s)
      PROVE  Admitting'
  <2> DEFINE u == claim[s].user
             i == claim[s].identity
  <2>1. /\ u \in Users /\ i \in Identities /\ Unused(u, i)
        /\ transport_connections' = [transport_connections EXCEPT ![u] = @ \cup {i}]
        /\ served' = [served EXCEPT ![u][i] = @ + 1]
        /\ peer' = peer /\ claim' = claim
        /\ at[s] = "body"
    BY <1>6 DEF Body, ListenerTypes
  <2>2. (Promotable(u) /\ Promote(s, u) /\ Move(s, "busy")) \/ (Release(s) /\ Move(s, "ended"))
    BY <1>6 DEF Body
  <2>3. i \notin transport_connections[u] /\ Cardinality(transport_connections[u]) < IdentityLimit
    BY <2>1 DEF Unused
  <2> HIDE DEF u, i
  <2>4. ~released[s] /\ uid[s] = None /\ peer[s] \in Addresses
    BY <2>1 DEF Leased
  <2>5. Spent'
    <3>1. ASSUME NEW v \in Users
          PROVE  /\ IsFiniteSet(transport_connections'[v]) /\ Cardinality(transport_connections'[v]) <= IdentityLimit
                 /\ \A j \in Identities : served'[v][j] = IF j \in transport_connections'[v] THEN 1 ELSE 0
      <4>1. CASE v # u
        BY <2>1, <4>1 DEF ListenerTypes, Spent
      <4>2. CASE v = u
        <5>1. transport_connections'[v] = transport_connections[v] \cup {i}
          BY <2>1, <4>2 DEF ListenerTypes
        <5>2. IsFiniteSet(transport_connections'[v]) /\ Cardinality(transport_connections'[v]) = Cardinality(transport_connections[v]) + 1
          <6>1. IsFiniteSet(transport_connections[v]) /\ i \notin transport_connections[v]
            BY <2>3, <4>2 DEF Spent
          <6> QED BY <5>1, <6>1, FS_AddElement
        <5>3. Cardinality(transport_connections[v]) \in Nat /\ IdentityLimit \in Nat
          BY FS_CardinalityType, ListenerAssumption DEF Spent, ListenerAssumption
        <5>4. \A j \in Identities : served'[v][j] = IF j = i THEN served[v][j] + 1 ELSE served[v][j]
          BY <2>1, <4>2 DEF ListenerTypes
        <5>5. \A j \in Identities : served'[v][j] = IF j \in transport_connections'[v] THEN 1 ELSE 0
          BY <2>3, <4>2, <5>1, <5>4 DEF Spent
        <5> QED BY <2>3, <4>2, <5>2, <5>3, <5>5
      <4> QED BY <4>1, <4>2
    <3> QED BY <3>1 DEF Spent
  <2>6. served' \in [Users -> [Identities -> Nat]] /\ transport_connections' \in [Users -> SUBSET Identities]
    BY <2>1 DEF ListenerTypes
  <2>7. CASE Promotable(u) /\ Promote(s, u) /\ Move(s, "busy")
    <3>1. Budgeted' /\ DOMAIN by_ip' = Addresses /\ DOMAIN by_uid' = Users
      BY <2>1, <2>4, <2>7, PromotedCounted
    <3>2. /\ uid' = [uid EXCEPT ![s] = u] /\ released' = released /\ at' = [at EXCEPT ![s] = "busy"]
          /\ u # None
      BY <2>1, <2>7, ListenerAssumption DEF Promote, Move, ListenerAssumption
    <3>3. ListenerTypes' /\ Leased'
      BY <2>1, <2>4, <2>6, <3>1, <3>2 DEF ListenerTypes, Leased, Places
    <3> QED BY <2>5, <3>1, <3>3 DEF Admitting
  <2>8. CASE Release(s) /\ Move(s, "ended")
    <3>1. /\ Budgeted' /\ DOMAIN by_ip' = Addresses /\ DOMAIN by_uid' = Users
          /\ uid' = uid /\ released' = [released EXCEPT ![s] = TRUE]
      BY <2>1, <2>8, ReleasedOnce
    <3>2. at' = [at EXCEPT ![s] = "ended"]
      BY <2>8 DEF Move
    <3>3. ListenerTypes' /\ Leased'
      BY <2>1, <2>4, <2>6, <3>1, <3>2 DEF ListenerTypes, Leased, Places
    <3> QED BY <2>5, <3>1, <3>3 DEF Admitting
  <2> QED BY <2>2, <2>7, <2>8
<1>7. ASSUME NEW u \in Users, Regrant(u)
      PROVE  Admitting'
  <2>1. Budgeted' /\ Leased'
    BY <1>7 DEF Regrant, budgetVars, Budgeted, Leased, Unbound, From, Live, Bound
  <2>2. ListenerTypes'
    BY <1>7 DEF Regrant, budgetVars, ListenerTypes
  <2>3. IsFiniteSet({}) /\ Cardinality({}) = 0 /\ IdentityLimit \in Nat
    BY FS_EmptySet, ListenerAssumption DEF ListenerAssumption
  <2>4. /\ transport_connections' = [transport_connections EXCEPT ![u] = {}]
        /\ served' = [served EXCEPT ![u] = [i \in Identities |-> 0]]
    BY <1>7 DEF Regrant
  <2>5. Spent'
    BY <2>3, <2>4 DEF Spent, ListenerTypes
  <2> QED BY <2>1, <2>2, <2>5 DEF Admitting
<1> QED BY <1>1, <1>2, <1>3, <1>4, <1>5, <1>6, <1>7 DEF ListenerNext

\* A connection is counted in one budget from accept to its end, as often as
\* its coroutines release its lease, no limit is passed, and an identity opens
\* one connection of its grant (Lease, ConnectionBudget and the second check
\* of NativeProtection.accept).
THEOREM ConnectionsAlwaysCounted == TransportSpec => []ConnectionsCounted
<1>1. TransportInit => Admitting
  <2> SUFFICES ASSUME ListenerInit PROVE Admitting
    BY DEF TransportInit
  <2>1. ListenerTypes /\ Leased
    BY DEF ListenerInit, ListenerTypes, Leased, Places
  <2>2. Unbound = {} /\ Live = {} /\ (\A p \in Addresses : From(p) = {}) /\ \A u \in Users : Bound(u) = {}
    BY DEF ListenerInit, Unbound, Live, From, Bound
  <2>3. Counted({}, 0) /\ IsFiniteSet({}) /\ Cardinality({}) = 0
    BY FS_EmptySet DEF Counted
  <2>4. Budgeted
    <3>1. /\ pending = 0 /\ active = 0
          /\ \A p \in Addresses : by_ip[p] = 0
          /\ \A u \in Users : by_uid[u] = 0
          /\ 0 <= PendingLimit /\ 0 <= ActiveLimit /\ 0 <= UserLimit
      BY ListenerAssumption DEF ListenerInit, ListenerAssumption
    <3> QED BY <2>2, <2>3, <3>1 DEF Budgeted
  <2>5. Spent
    BY <2>3, ListenerAssumption DEF ListenerInit, Spent, ListenerAssumption
  <2> QED BY <2>1, <2>4, <2>5 DEF Admitting
<1>2. Admitting /\ [TransportNext]_<<part, vars, listenerVars, outgoingVars>> => Admitting'
  <2> SUFFICES ASSUME Admitting, [TransportNext]_<<part, vars, listenerVars, outgoingVars>>
               PROVE  Admitting'
    OBVIOUS
  <2>1. [ListenerNext]_listenerVars
    BY DEF TransportNext
  <2> QED BY <2>1, AdmittingKept
<1>3. Admitting => ConnectionsCounted
  <2> SUFFICES ASSUME Admitting PROVE ConnectionsCounted
    OBVIOUS
  <2>1. UNION {Bound(u) : u \in Users} = Live
    BY ListenerAssumption DEF Bound, Live, Admitting, ListenerTypes, ListenerAssumption
  <2>2. \A u \in Users : /\ Cardinality(transport_connections[u]) <= IdentityLimit
                         /\ \A i \in Identities : served[u][i] <= 1
    BY DEF Admitting, Spent
  <2> QED BY <2>1, <2>2 DEF ConnectionsCounted, Admitting, Leased, Budgeted, Counted, From
<1> QED BY <1>1, <1>2, <1>3, PTL DEF TransportSpec

-----------------------------------------------------------------------------
(* Outgoing                                                                *)

Steps == {"idle", "lock", "turn", "slot", "encoding", "drain"}
OutgoingTypes ==
    /\ connection \in [Players -> {"none", "open", "closing", "failed", "ending"}]
    /\ pending_messages \in [Players -> Nat]
    /\ step \in [Senders -> Steps]
    /\ owners \in [Players \cup Senders -> Nat]
    /\ orphans \in [Players \X Sizes -> Nat]
    /\ used \in Int /\ group_used \in [Players -> Int]
    /\ encode_slots \in Int /\ encode_waiters \in Int

\* BuffersPaid in its parts: of a player, of the budget, of the workers.
PlayerPaid(u) ==
    /\ owners[u] = pending_messages[u]
    /\ group_used[u] = owners[u] + owners[<<u, "game">>] + owners[<<u, "pulse">>] + Orphaned(u)
    /\ group_used[u] <= PlayerBudget
    /\ u \in delivery_failed \/ connection[u] = "none" => pending_messages[u] = 0
    /\ \A role \in Roles :
           /\ owners[<<u, role>>] > 0 <=> step[<<u, role>>] # "idle"
           /\ step[<<u, role>>] # "idle" => connection[u] \notin {"none", "ending"}
BudgetPaid == used = SumFunction(group_used) /\ used <= TotalBudget
WorkersPaid ==
    /\ encode_slots = EncodeWorkers - Jobs /\ encode_slots >= 0
    /\ encode_waiters = Waiting("slot") + Jobs
    /\ encode_waiters <= EncodeWorkers + EncodeWaiters

\* The inductive invariant.
Paying == OutgoingTypes /\ (\A u \in Players : PlayerPaid(u)) /\ BudgetPaid /\ WorkersPaid

LEMMA SetsAreFinite ==
    /\ IsFiniteSet(Senders) /\ IsFiniteSet(Sizes) /\ IsFiniteSet(Players \X Sizes)
<1>1. IsFiniteSet({"game", "pulse"})
  <2>1. IsFiniteSet({})
    BY FS_EmptySet
  <2>2. IsFiniteSet({} \cup {"game"})
    BY <2>1, FS_AddElement
  <2>3. IsFiniteSet(({} \cup {"game"}) \cup {"pulse"})
    BY <2>2, FS_AddElement
  <2>4. ({} \cup {"game"}) \cup {"pulse"} = {"game", "pulse"}
    OBVIOUS
  <2> QED BY <2>3, <2>4
<1>2. IsFiniteSet(Senders)
  BY <1>1, FS_Product, OutgoingAssumption DEF OutgoingAssumption, Senders, Roles
<1>3. IsFiniteSet(Sizes)
  <2>1. PlayerBudget \in Int /\ 1 \in Int
    BY OutgoingAssumption DEF OutgoingAssumption
  <2> QED BY <2>1, FS_Interval DEF Sizes
<1>4. IsFiniteSet(Players \X Sizes)
  BY <1>3, FS_Product, OutgoingAssumption DEF OutgoingAssumption
<1> QED BY <1>2, <1>3, <1>4

LEMMA SenderIs ==
    ASSUME NEW u \in Players
    PROVE  /\ \A role \in Roles : <<u, role>> \in Senders /\ <<u, role>> # u
           /\ <<u, "game">> \in Senders /\ <<u, "pulse">> \in Senders /\ <<u, "game">> # <<u, "pulse">>
           /\ \A v \in Players : v \notin Senders
           /\ \A v \in Players, role, r \in Roles : v # u => <<v, r>> # <<u, role>>
BY OutgoingAssumption DEF OutgoingAssumption, Senders, Roles

-----------------------------------------------------------------------------
(* Senders at a step                                                       *)

AtStep(f, s) == {w \in Senders : f[w] = s}
If(b) == IF b THEN 1 ELSE 0

LEMMA StepMoves ==
    ASSUME NEW f \in [Senders -> Steps], NEW w \in Senders, NEW t \in Steps, NEW s,
           NEW g \in [Senders -> Steps], g[w] = t, \A v \in Senders \ {w} : g[v] = f[v]
    PROVE  /\ Cardinality(AtStep(f, s)) \in Nat
           /\ Cardinality(AtStep(g, s)) = Cardinality(AtStep(f, s)) - If(f[w] = s) + If(t = s)
<1> DEFINE rest == AtStep(f, s) \ {w}
<1>1. IsFiniteSet(AtStep(f, s)) /\ IsFiniteSet(rest) /\ w \notin rest
  BY SetsAreFinite, FS_Subset DEF AtStep
<1>2. AtStep(f, s) = (IF f[w] = s THEN rest \cup {w} ELSE rest)
  BY DEF AtStep
<1>3. AtStep(g, s) = (IF t = s THEN rest \cup {w} ELSE rest)
  BY DEF AtStep
<1> HIDE DEF rest
<1>4. Cardinality(rest) \in Nat /\ Cardinality(AtStep(f, s)) \in Nat
  BY <1>1, FS_CardinalityType
<1>5. Cardinality(rest \cup {w}) = Cardinality(rest) + 1
  BY <1>1, FS_AddElement
<1>6. Cardinality(AtStep(f, s)) = Cardinality(rest) + If(f[w] = s)
  BY <1>2, <1>4, <1>5 DEF If
<1>7. Cardinality(AtStep(g, s)) = Cardinality(rest) + If(t = s)
  BY <1>3, <1>4, <1>5 DEF If
<1>8. If(f[w] = s) \in Nat /\ If(t = s) \in Nat
  BY DEF If
<1> QED BY <1>4, <1>6, <1>7, <1>8

-----------------------------------------------------------------------------
(* Encodings whose sender is gone                                          *)

Owed(f, u) == SumFunction([n \in Sizes |-> n * f[<<u, n>>]])

LEMMA OwedIs ==
    ASSUME NEW f \in [Players \X Sizes -> Nat], NEW u \in Players
    PROVE  Owed(f, u) \in Nat /\ SumFunction(f) \in Nat
<1> DEFINE e == [n \in Sizes |-> n * f[<<u, n>>]]
<1>1. \A n \in Sizes : n \in Nat /\ f[<<u, n>>] \in Nat
  BY OutgoingAssumption DEF OutgoingAssumption, Sizes
<1>2. \A n, m \in Nat : n * m \in Nat
  OBVIOUS
<1>3. DOMAIN e = Sizes /\ \A n \in Sizes : e[n] \in Nat
  BY <1>1, <1>2
<1> HIDE DEF e
<1>4. SumFunction(e) \in Nat
  BY <1>3, SetsAreFinite, SumNat DEF SumFunction
<1>5. DOMAIN f = Players \X Sizes /\ \A o \in Players \X Sizes : f[o] \in Nat
  OBVIOUS
<1>6. SumFunction(f) \in Nat
  BY <1>5, SetsAreFinite, SumNat DEF SumFunction
<1> QED BY <1>4, <1>6 DEF Owed, e

LEMMA OwedSame ==
    ASSUME NEW f, NEW g, NEW u, \A n \in Sizes : g[<<u, n>>] = f[<<u, n>>]
    PROVE  Owed(g, u) = Owed(f, u)
<1>1. [n \in Sizes |-> n * g[<<u, n>>]] = [n \in Sizes |-> n * f[<<u, n>>]]
  OBVIOUS
<1> QED BY <1>1 DEF Owed

\* There are k more of a player's encodings of a size.
Differs(f, g, u, n, k) ==
    /\ g[<<u, n>>] = f[<<u, n>>] + k
    /\ \A o \in Players \X Sizes : o # <<u, n>> => g[o] = f[o]

LEMMA OwedChanges ==
    ASSUME NEW f \in [Players \X Sizes -> Nat], NEW g \in [Players \X Sizes -> Nat], NEW u \in Players, NEW n \in Sizes,
           NEW k \in Int, Differs(f, g, u, n, k)
    PROVE  Owed(g, u) = Owed(f, u) + n * k /\ SumFunction(g) = SumFunction(f) + k
<1>0. g[<<u, n>>] = f[<<u, n>>] + k /\ \A o \in Players \X Sizes : o # <<u, n>> => g[o] = f[o]
  BY DEF Differs
<1> DEFINE e == [m \in Sizes |-> m * f[<<u, m>>]]
           d == [m \in Sizes |-> m * g[<<u, m>>]]
<1>1. \A m \in Sizes : m \in Nat /\ f[<<u, m>>] \in Nat /\ g[<<u, m>>] \in Nat
  BY OutgoingAssumption DEF OutgoingAssumption, Sizes
<1>2. \A m \in Sizes : m # n => g[<<u, m>>] = f[<<u, m>>]
  BY <1>0
<1>3. \A i, j \in Int : i * j \in Int
  OBVIOUS
<1>4. DOMAIN e = Sizes /\ DOMAIN d = Sizes /\ \A m \in Sizes : e[m] \in Int /\ d[m] \in Int /\ (m # n => d[m] = e[m])
  BY <1>1, <1>2, <1>3
<1>5. e[n] = n * f[<<u, n>>] /\ d[n] = n * (f[<<u, n>>] + k)
  BY <1>0
<1>6. d[n] = e[n] + n * k /\ n * k \in Int /\ e[n] \in Int
  <2>1. \A i, j, l \in Int : i * (j + l) = i * j + i * l
    OBVIOUS
  <2>2. n \in Int /\ f[<<u, n>>] \in Int
    BY <1>1
  <2> HIDE DEF d, e
  <2> QED BY <1>3, <1>5, <2>1, <2>2
<1> HIDE DEF d, e
<1>7. SumFunction(d) = SumFunction(e) - e[n] + d[n] /\ SumFunction(e) \in Int
  BY <1>4, SetsAreFinite, SumChanges
<1>8. SumFunction(d) = SumFunction(e) + n * k
  BY <1>6, <1>7
<1>9. <<u, n>> \in Players \X Sizes /\ DOMAIN f = Players \X Sizes /\ DOMAIN g = Players \X Sizes
  OBVIOUS
<1>10. \A o \in Players \X Sizes : f[o] \in Int /\ g[o] \in Int /\ (o # <<u, n>> => g[o] = f[o])
  BY <1>0
<1>11. SumFunction(g) = SumFunction(f) - f[<<u, n>>] + g[<<u, n>>] /\ SumFunction(f) \in Int
  BY <1>9, <1>10, SetsAreFinite, SumChanges
<1>12. SumFunction(g) = SumFunction(f) + k
  BY <1>0, <1>9, <1>10, <1>11
<1> QED BY <1>8, <1>12 DEF Owed, d, e
-----------------------------------------------------------------------------
(* What a step leaves alone                                                *)

\* Memory is reserved for a player, or returned.
LEMMA BudgetMoves ==
    ASSUME OutgoingTypes, BudgetPaid, NEW u \in Players, NEW d \in Int,
           used' = used + d, group_used' = [group_used EXCEPT ![u] = @ + d],
           d <= 0 \/ used + d <= TotalBudget
    PROVE  /\ used' \in Int /\ group_used' \in [Players -> Int] /\ BudgetPaid'
           /\ group_used'[u] = group_used[u] + d
           /\ \A v \in Players : v # u => group_used'[v] = group_used[v]
<1>1. used \in Int /\ group_used \in [Players -> Int] /\ TotalBudget \in Int
  BY OutgoingAssumption DEF OutgoingTypes, OutgoingAssumption
<1>2. /\ used' \in Int /\ group_used' \in [Players -> Int]
      /\ group_used'[u] = group_used[u] + d
      /\ \A v \in Players : v # u => group_used'[v] = group_used[v]
  BY <1>1
<1>3. IsFiniteSet(Players)
  BY OutgoingAssumption DEF OutgoingAssumption
<1>4. /\ DOMAIN group_used = Players /\ DOMAIN group_used' = Players
      /\ \A v \in Players : group_used[v] \in Int /\ group_used'[v] \in Int
  BY <1>1, <1>2
<1>5. /\ SumFunction(group_used') = SumFunction(group_used) - group_used[u] + group_used'[u]
      /\ SumFunction(group_used) \in Int
  <2> DEFINE f == group_used
             e == group_used'
  <2>1. u \in DOMAIN f /\ DOMAIN e = DOMAIN f /\ IsFiniteSet(DOMAIN f)
    BY <1>3, <1>4
  <2>2. \A v \in DOMAIN f : f[v] \in Int /\ e[v] \in Int /\ (v # u => e[v] = f[v])
    BY <1>2, <1>4
  <2> HIDE DEF f, e
  <2>3. SumFunction(e) = SumFunction(f) - f[u] + e[u] /\ SumFunction(f) \in Int
    BY <2>1, <2>2, SumChanges
  <2> QED BY <2>3 DEF f, e
<1>6. group_used[u] \in Int
  BY <1>1
<1>7. SumFunction(group_used') = SumFunction(group_used) + d
  BY <1>2, <1>5, <1>6
<1>8. used' = SumFunction(group_used')
  BY <1>7 DEF BudgetPaid
<1>9. used' <= TotalBudget
  BY <1>1 DEF BudgetPaid
<1>10. BudgetPaid'
  BY <1>8, <1>9 DEF BudgetPaid
<1> QED BY <1>2, <1>10

Unaffected(v) ==
    /\ connection'[v] = connection[v] /\ pending_messages'[v] = pending_messages[v]
    /\ v \in delivery_failed' => v \in delivery_failed
    /\ owners'[v] = owners[v] /\ group_used'[v] = group_used[v]
    /\ \A role \in Roles : step'[<<v, role>>] = step[<<v, role>>] /\ owners'[<<v, role>>] = owners[<<v, role>>]
    /\ \A n \in Sizes : orphans'[<<v, n>>] = orphans[<<v, n>>]

LEMMA OrphanedSame ==
    ASSUME NEW v, \A n \in Sizes : orphans'[<<v, n>>] = orphans[<<v, n>>]
    PROVE  Orphaned(v)' = Orphaned(v)
<1>1. [n \in Sizes |-> n * orphans'[<<v, n>>]] = [n \in Sizes |-> n * orphans[<<v, n>>]]
  OBVIOUS
<1> QED BY <1>1 DEF Orphaned

LEMMA UnaffectedPaid ==
    ASSUME NEW v \in Players, PlayerPaid(v), Unaffected(v)
    PROVE  PlayerPaid(v)'
<1>1. Orphaned(v)' = Orphaned(v)
  BY OrphanedSame DEF Unaffected
<1>2. "game" \in Roles /\ "pulse" \in Roles
  BY DEF Roles
<1> QED BY <1>1, <1>2 DEF PlayerPaid, Unaffected

\* A sender moves; nobody is orphaned.
LEMMA SenderMoves ==
    ASSUME OutgoingTypes, NEW w \in Senders, NEW t \in Steps, step' = [step EXCEPT ![w] = t], UNCHANGED orphans
    PROVE  /\ step' \in [Senders -> Steps] /\ step'[w] = t /\ \A v \in Senders \ {w} : step'[v] = step[v]
           /\ Waiting("slot") \in Nat /\ Jobs \in Nat
           /\ Waiting("slot")' = Waiting("slot") - If(step[w] = "slot") + If(t = "slot")
           /\ Jobs' = Jobs - If(step[w] = "encoding") + If(t = "encoding")
<1>1. step \in [Senders -> Steps] /\ orphans \in [Players \X Sizes -> Nat]
  BY DEF OutgoingTypes
<1>2. step' \in [Senders -> Steps] /\ step'[w] = t /\ \A v \in Senders \ {w} : step'[v] = step[v]
  BY <1>1
<1>3. \A s : /\ Cardinality(AtStep(step, s)) \in Nat
             /\ Cardinality(AtStep(step', s)) = Cardinality(AtStep(step, s)) - If(step[w] = s) + If(t = s)
  <2> SUFFICES ASSUME NEW s
               PROVE  /\ Cardinality(AtStep(step, s)) \in Nat
                      /\ Cardinality(AtStep(step', s)) = Cardinality(AtStep(step, s)) - If(step[w] = s) + If(t = s)
    OBVIOUS
  <2> DEFINE f == step
             g == step'
  <2>1. f \in [Senders -> Steps] /\ g \in [Senders -> Steps] /\ g[w] = t /\ \A v \in Senders \ {w} : g[v] = f[v]
    BY <1>1, <1>2
  <2> HIDE DEF f, g
  <2>2. /\ Cardinality(AtStep(f, s)) \in Nat
        /\ Cardinality(AtStep(g, s)) = Cardinality(AtStep(f, s)) - If(f[w] = s) + If(t = s)
    BY <2>1, StepMoves
  <2> QED BY <2>2 DEF f, g
<1>4. \A s : Waiting(s) = Cardinality(AtStep(step, s)) /\ Waiting(s)' = Cardinality(AtStep(step', s))
  BY DEF Waiting, AtStep
<1>5. SumFunction(orphans) \in Nat
  <2>1. CASE Players = {}
    <3>1. FALSE
      BY <2>1 DEF Senders
    <3> QED BY <3>1
  <2>2. CASE Players # {}
    BY <1>1, <2>2, OwedIs
  <2> QED BY <2>1, <2>2
<1>6. \A s : Waiting(s) \in Nat /\ Waiting(s)' = Waiting(s) - If(step[w] = s) + If(t = s)
  BY <1>3, <1>4
<1>7. Jobs = Waiting("encoding") + SumFunction(orphans) /\ Jobs' = Waiting("encoding")' + SumFunction(orphans)
  BY DEF Jobs
<1>8. If(step[w] = "encoding") \in Nat /\ If(t = "encoding") \in Nat
  BY DEF If
<1>9. Jobs \in Nat /\ Jobs' = Jobs - If(step[w] = "encoding") + If(t = "encoding")
  <2>1. Waiting("encoding") \in Nat /\ Waiting("encoding")' = Waiting("encoding") - If(step[w] = "encoding") + If(t = "encoding")
    BY <1>6
  <2> HIDE DEF Jobs
  <2> QED BY <1>5, <1>7, <1>8, <2>1
<1> QED BY <1>2, <1>6, <1>9

\* Neither senders nor encodings change.
LEMMA WorkersSame ==
    ASSUME WorkersPaid, UNCHANGED <<step, orphans, encode_slots, encode_waiters>>
    PROVE  WorkersPaid'
<1>1. Jobs' = Jobs /\ Waiting("slot")' = Waiting("slot")
  BY DEF Jobs, Waiting
<1> QED BY <1>1 DEF WorkersPaid

-----------------------------------------------------------------------------
\* The queue of a player costs a now and one of its senders, at the step t, b.
Settles(u, w, a, b, t) ==
    /\ owners' = [owners EXCEPT ![u] = a, ![w] = b]
    /\ pending_messages' = [pending_messages EXCEPT ![u] = a]
    /\ step' = [step EXCEPT ![w] = t] /\ (b > 0 <=> t # "idle")
    /\ \E d \in Int :
           /\ d = (a - owners[u]) + (b - owners[w])
           /\ used' = used + d /\ group_used' = [group_used EXCEPT ![u] = @ + d]
           /\ d <= 0 \/ (used + d <= TotalBudget /\ group_used[u] + d <= PlayerBudget)
    /\ UNCHANGED orphans

\* And what becomes of the connection then.
Stays(u) ==
    /\ connection' \in [Players -> {"none", "open", "closing", "failed", "ending"}]
    /\ \A v \in Players \ {u} : connection'[v] = connection[v] /\ (v \in delivery_failed' => v \in delivery_failed)
    /\ u \in delivery_failed' \/ connection'[u] = "none" => pending_messages'[u] = 0
    /\ \A role \in Roles : step'[<<u, role>>] # "idle" => connection'[u] \notin {"none", "ending"}

LEMMA SettledPaid ==
    ASSUME Paying, NEW u \in Players, NEW r \in Roles, NEW a \in Nat, NEW b \in Nat, NEW t \in Steps,
           Settles(u, <<u, r>>, a, b, t), Stays(u), WorkersPaid', encode_slots' \in Int, encode_waiters' \in Int
    PROVE  Paying'
<1> DEFINE w == <<u, r>>
<1>0. w = <<u, r>>
  OBVIOUS
<1>1. OutgoingTypes /\ PlayerPaid(u) /\ BudgetPaid
  BY DEF Paying
<1>2. /\ owners' = [owners EXCEPT ![u] = a, ![w] = b] /\ pending_messages' = [pending_messages EXCEPT ![u] = a]
      /\ step' = [step EXCEPT ![w] = t] /\ (b > 0 <=> t # "idle") /\ UNCHANGED orphans
  BY DEF Settles
<1>3. PICK d \in Int : /\ d = (a - owners[u]) + (b - owners[w])
                       /\ used' = used + d /\ group_used' = [group_used EXCEPT ![u] = @ + d]
                       /\ d <= 0 \/ (used + d <= TotalBudget /\ group_used[u] + d <= PlayerBudget)
  BY DEF Settles
<1>4. w \in Senders /\ w # u /\ u \notin Senders
  BY SenderIs
<1>5. \A role \in Roles : <<u, role>> \in Senders /\ (role # r => <<u, role>> # w)
  BY SenderIs
<1>6. \A v \in Players : v # u => \A role \in Roles : <<v, role>> \in Senders /\ <<v, role>> # w /\ <<v, role>> # u
  BY SenderIs, <1>4
<1> HIDE DEF w
<1>7. /\ owners' \in [Players \cup Senders -> Nat] /\ owners'[u] = a /\ owners'[w] = b
      /\ \A o \in Players \cup Senders : o \notin {u, w} => owners'[o] = owners[o]
  BY <1>1, <1>2, <1>4 DEF OutgoingTypes
<1>8. /\ pending_messages' \in [Players -> Nat] /\ pending_messages'[u] = a
      /\ \A v \in Players : v # u => pending_messages'[v] = pending_messages[v]
  BY <1>1, <1>2 DEF OutgoingTypes
<1>9. step' \in [Senders -> Steps] /\ step'[w] = t /\ \A v \in Senders \ {w} : step'[v] = step[v]
  BY <1>1, <1>2, <1>4 DEF OutgoingTypes
<1>10. /\ used' \in Int /\ group_used' \in [Players -> Int] /\ BudgetPaid'
       /\ group_used'[u] = group_used[u] + d
       /\ \A v \in Players : v # u => group_used'[v] = group_used[v]
  BY <1>1, <1>3, BudgetMoves
<1>11. OutgoingTypes'
  <2>1. encode_slots' \in Int /\ encode_waiters' \in Int
    OBVIOUS
  <2> QED BY <1>1, <1>2, <1>7, <1>8, <1>9, <1>10, <2>1 DEF OutgoingTypes, Stays
<1>12. ASSUME NEW v \in Players, v # u PROVE PlayerPaid(v)'
  <2>1. connection'[v] = connection[v] /\ (v \in delivery_failed' => v \in delivery_failed)
    BY <1>12 DEF Stays
  <2>2. \A role \in Roles : step'[<<v, role>>] = step[<<v, role>>] /\ owners'[<<v, role>>] = owners[<<v, role>>]
    BY <1>6, <1>7, <1>9, <1>12
  <2>3. owners'[v] = owners[v]
    BY <1>4, <1>7, <1>12, SenderIs
  <2>4. Unaffected(v)
    BY <1>2, <1>8, <1>10, <1>12, <2>1, <2>2, <2>3 DEF Unaffected
  <2> QED BY <2>4, UnaffectedPaid DEF Paying
<1>13. PlayerPaid(u)'
  <2>1. Orphaned(u)' = Orphaned(u) /\ Orphaned(u) \in Nat
    <3>1. Owed(orphans, u) \in Nat
      BY <1>1, OwedIs DEF OutgoingTypes
    <3> QED BY <1>2, <3>1 DEF Owed, Orphaned
  <2>2. \A role \in Roles : role # r => /\ owners'[<<u, role>>] = owners[<<u, role>>]
                                        /\ step'[<<u, role>>] = step[<<u, role>>]
    BY <1>4, <1>5, <1>7, <1>9
  <2>3. /\ owners[u] \in Nat /\ owners[<<u, "game">>] \in Nat /\ owners[<<u, "pulse">>] \in Nat
        /\ group_used[u] \in Int /\ PlayerBudget \in Int /\ used \in Int
        /\ group_used[u] = owners[u] + owners[<<u, "game">>] + owners[<<u, "pulse">>] + Orphaned(u)
        /\ group_used[u] <= PlayerBudget
    BY <1>1, SenderIs, OutgoingAssumption DEF OutgoingTypes, OutgoingAssumption, PlayerPaid
  <2>4. /\ r = "game" => /\ d = (a - owners[u]) + (b - owners[<<u, "game">>])
                         /\ owners'[<<u, "game">>] = b /\ owners'[<<u, "pulse">>] = owners[<<u, "pulse">>]
        /\ r = "pulse" => /\ d = (a - owners[u]) + (b - owners[<<u, "pulse">>])
                          /\ owners'[<<u, "pulse">>] = b /\ owners'[<<u, "game">>] = owners[<<u, "game">>]
        /\ r \in {"game", "pulse"}
    <3>1. "game" \in Roles /\ "pulse" \in Roles /\ r \in {"game", "pulse"}
      BY DEF Roles
    <3> QED BY <1>0, <1>3, <1>7, <2>2, <3>1
  <2>5. group_used'[u] = owners'[u] + owners'[<<u, "game">>] + owners'[<<u, "pulse">>] + Orphaned(u)'
    BY <1>7, <1>10, <2>1, <2>3, <2>4
  <2>6. group_used'[u] <= PlayerBudget
    BY <1>3, <1>10, <2>3
  <2>7. \A role \in Roles : owners'[<<u, role>>] > 0 <=> step'[<<u, role>>] # "idle"
    <3>1. \A role \in Roles : owners[<<u, role>>] > 0 <=> step[<<u, role>>] # "idle"
      BY <1>1 DEF PlayerPaid
    <3>2. owners'[<<u, r>>] > 0 <=> step'[<<u, r>>] # "idle"
      BY <1>0, <1>2, <1>7, <1>9
    <3> QED BY <2>2, <3>1, <3>2
  <2> QED BY <1>7, <1>8, <2>5, <2>6, <2>7 DEF PlayerPaid, Stays
<1> QED BY <1>10, <1>11, <1>12, <1>13 DEF Paying

\* A login, what is queued, and the end of an engine.
LEMMA QueuesPaid ==
    ASSUME Paying, NEW u \in Players, Login(u) \/ Enqueue(u) \/ Disconnect(u)
    PROVE  Paying'
<1>1. OutgoingTypes /\ PlayerPaid(u) /\ BudgetPaid /\ WorkersPaid
  BY DEF Paying
<1>2. UNCHANGED <<step, orphans, encode_slots, encode_waiters>>
  BY DEF Login, Enqueue, Disconnect
<1>3. WorkersPaid'
  BY <1>1, <1>2, WorkersSame
<1>4. /\ owners \in [Players \cup Senders -> Nat] /\ owners[u] \in Nat /\ u \in Players \cup Senders
      /\ pending_messages[u] \in Nat /\ owners[u] = pending_messages[u]
  BY <1>1 DEF OutgoingTypes, PlayerPaid
<1>5. PICK size \in Nat :
          /\ owners' = [owners EXCEPT ![u] = size] /\ pending_messages' = [pending_messages EXCEPT ![u] = size]
          /\ used' = used + (size - owners[u])
          /\ group_used' = [group_used EXCEPT ![u] = @ + (size - owners[u])]
          /\ \/ size <= owners[u]
             \/ /\ used + (size - owners[u]) <= TotalBudget
                /\ group_used[u] + (size - owners[u]) <= PlayerBudget
                /\ connection[u] # "none" /\ u \notin delivery_failed /\ UNCHANGED <<connection, delivery_failed>>
          /\ u \in delivery_failed' \/ connection'[u] = "none" => size = 0
  <2>1. used \in Int /\ group_used \in [Players -> Int] /\ group_used[u] \in Int
    BY <1>1 DEF OutgoingTypes
  <2>2. CASE Login(u)
    <3>1. pending_messages[u] = 0 /\ owners[u] = 0
      BY <1>1, <2>2 DEF PlayerPaid, Login
    <3>2. /\ owners' = owners /\ pending_messages' = pending_messages /\ used' = used /\ group_used' = group_used
      BY <2>2 DEF Login
    <3>3. /\ owners' = [owners EXCEPT ![u] = 0] /\ pending_messages' = [pending_messages EXCEPT ![u] = 0]
          /\ group_used' = [group_used EXCEPT ![u] = @ + (0 - owners[u])]
      BY <1>1, <1>4, <2>1, <3>1, <3>2 DEF OutgoingTypes
    <3>4. used' = used + (0 - owners[u]) /\ 0 <= owners[u]
      BY <2>1, <3>1, <3>2
    <3> QED BY <3>3, <3>4
  <2>3. ASSUME Clear(u) PROVE
          /\ owners' = [owners EXCEPT ![u] = 0] /\ pending_messages' = [pending_messages EXCEPT ![u] = 0]
          /\ used' = used + (0 - owners[u])
          /\ group_used' = [group_used EXCEPT ![u] = @ + (0 - owners[u])]
    <3>1. used - owners[u] + 0 = used + (0 - owners[u]) /\ group_used[u] - owners[u] + 0 = group_used[u] + (0 - owners[u])
      BY <1>4, <2>1
    <3> QED BY <2>3, <3>1 DEF Clear, Free, Reserve
  <2>4. CASE Disconnect(u)
    BY <1>4, <2>3, <2>4 DEF Disconnect
  <2>5. CASE Enqueue(u)
    <3> DEFINE size == pending_messages[u] + 1
    <3>1. CASE size <= QueueLimit /\ Fits(u, u, size)
      <4>1. /\ owners' = [owners EXCEPT ![u] = size] /\ pending_messages' = [pending_messages EXCEPT ![u] = size]
            /\ used' = used - owners[u] + size /\ group_used' = [group_used EXCEPT ![u] = @ - owners[u] + size]
            /\ connection[u] # "none" /\ u \notin delivery_failed /\ UNCHANGED <<connection, delivery_failed>>
            /\ used - owners[u] + size <= TotalBudget /\ group_used[u] - owners[u] + size <= PlayerBudget
        BY <2>5, <3>1 DEF Enqueue, Reserve, Fits
      <4>2. size \in Nat
        BY <1>4
      <4> HIDE DEF size
      <4>3. used - owners[u] + size = used + (size - owners[u])
            /\ group_used[u] - owners[u] + size = group_used[u] + (size - owners[u])
        BY <1>4, <2>1, <4>2
      <4>4. group_used' = [group_used EXCEPT ![u] = @ + (size - owners[u])]
        BY <4>1, <4>3
      <4> QED BY <4>1, <4>2, <4>3, <4>4
    <3>2. CASE ~(size <= QueueLimit /\ Fits(u, u, size))
      <4>1. Clear(u)
        BY <2>5, <3>2 DEF Enqueue
      <4> QED BY <1>4, <2>3, <4>1
    <3> QED BY <3>1, <3>2
  <2> QED BY <2>2, <2>4, <2>5
<1>6. connection' \in [Players -> {"none", "open", "closing", "failed", "ending"}]
  BY <1>1 DEF OutgoingTypes, Login, Enqueue, Disconnect
<1>7. "game" \in Roles
  BY DEF Roles
<1> DEFINE w == <<u, "game">>
<1>8. /\ w \in Senders /\ w # u /\ step \in [Senders -> Steps]
      /\ owners[w] \in Nat /\ step[w] \in Steps /\ (owners[w] > 0 <=> step[w] # "idle")
  BY <1>1, <1>7, SenderIs DEF OutgoingTypes, PlayerPaid
<1>9. w = <<u, "game">>
  OBVIOUS
<1> HIDE DEF w
<1>10. Settles(u, w, size, owners[w], step[w])
  <2>1. owners' = [owners EXCEPT ![u] = size, ![w] = owners[w]]
    BY <1>4, <1>5, <1>8
  <2>2. step' = [step EXCEPT ![w] = step[w]]
    BY <1>2, <1>8
  <2> DEFINE d == size - owners[u]
  <2>3. d \in Int /\ d = (size - owners[u]) + (owners[w] - owners[w]) /\ (size <= owners[u] => d <= 0)
    BY <1>4, <1>8
  <2>4. /\ used' = used + d /\ group_used' = [group_used EXCEPT ![u] = @ + d]
        /\ d <= 0 \/ (used + d <= TotalBudget /\ group_used[u] + d <= PlayerBudget)
    BY <1>5, <2>3
  <2> HIDE DEF d
  <2> QED BY <1>2, <1>5, <1>8, <2>1, <2>2, <2>3, <2>4 DEF Settles
<1>11. Stays(u)
  <2>1. \A v \in Players \ {u} : connection'[v] = connection[v] /\ (v \in delivery_failed' => v \in delivery_failed)
    BY <1>1 DEF OutgoingTypes, Login, Enqueue, Disconnect
  <2>2. u \in delivery_failed' \/ connection'[u] = "none" => pending_messages'[u] = 0
    BY <1>1, <1>5 DEF OutgoingTypes
  <2>3. \A role \in Roles : step'[<<u, role>>] # "idle" => connection'[u] \notin {"none", "ending"}
    <3>1. \A role \in Roles : step[<<u, role>>] # "idle" => connection[u] \notin {"none", "ending"}
      BY <1>1 DEF PlayerPaid
    <3>2. connection[u] \notin {"none", "ending"} => connection'[u] = connection[u]
      BY DEF Login, Enqueue, Disconnect
    <3> QED BY <1>2, <3>1, <3>2
  <2> QED BY <1>6, <2>1, <2>2, <2>3 DEF Stays
<1>12. encode_slots' \in Int /\ encode_waiters' \in Int
  BY <1>1, <1>2 DEF OutgoingTypes
<1> QED BY <1>3, <1>5, <1>7, <1>8, <1>9, <1>10, <1>11, <1>12, SettledPaid
-----------------------------------------------------------------------------
(* The steps of a sender                                                   *)

LEMMA SenderHas ==
    ASSUME Paying, NEW w \in Senders
    PROVE  /\ w[1] \in Players /\ w[2] \in Roles /\ w = <<w[1], w[2]>> /\ w # w[1]
           /\ step[w] \in Steps /\ owners[w] \in Nat /\ owners[w[1]] \in Nat
           /\ owners[w[1]] = pending_messages[w[1]]
           /\ owners[w] > 0 <=> step[w] # "idle"
           /\ step[w] # "idle" => connection[w[1]] \notin {"none", "ending"}
           /\ step \in [Senders -> Steps] /\ owners \in [Players \cup Senders -> Nat]
           /\ pending_messages \in [Players -> Nat] /\ used \in Int /\ group_used \in [Players -> Int]
           /\ connection \in [Players -> {"none", "open", "closing", "failed", "ending"}]
<1>1. w[1] \in Players /\ w[2] \in Roles /\ w = <<w[1], w[2]>>
  BY DEF Senders
<1>2. w # w[1]
  BY <1>1, SenderIs
<1>3. OutgoingTypes /\ PlayerPaid(w[1])
  BY <1>1 DEF Paying
<1>4. (owners[w] > 0 <=> step[w] # "idle") /\ (step[w] # "idle" => connection[w[1]] \notin {"none", "ending"})
  BY <1>1, <1>3 DEF PlayerPaid
<1> QED BY <1>1, <1>2, <1>3, <1>4 DEF OutgoingTypes, PlayerPaid

\* The steps of a sender that change what the workers do, and nothing else.
LEMMA StepsPaid ==
    ASSUME Paying, NEW w \in Senders, NEW t \in Steps \ {"idle"}, step[w] # "idle",
           step' = [step EXCEPT ![w] = t],
           UNCHANGED <<connection, pending_messages, delivery_failed, owners, orphans, used, group_used>>,
           WorkersPaid', encode_slots' \in Int, encode_waiters' \in Int
    PROVE  Paying'
<1> DEFINE u == w[1]
           r == w[2]
<1>1. /\ u \in Players /\ r \in Roles /\ w = <<u, r>> /\ w # u
      /\ step[w] \in Steps /\ owners[w] \in Nat /\ owners[u] \in Nat /\ owners[u] = pending_messages[u]
      /\ owners[w] > 0 /\ connection[u] \notin {"none", "ending"}
      /\ owners \in [Players \cup Senders -> Nat] /\ pending_messages \in [Players -> Nat]
      /\ used \in Int /\ group_used \in [Players -> Int]
      /\ connection \in [Players -> {"none", "open", "closing", "failed", "ending"}]
  BY SenderHas
<1> HIDE DEF u, r
<1>2. Settles(u, w, owners[u], owners[w], t)
  <2>1. owners' = [owners EXCEPT ![u] = owners[u], ![w] = owners[w]] /\ pending_messages' = [pending_messages EXCEPT ![u] = owners[u]]
    BY <1>1
  <2>2. 0 = (owners[u] - owners[u]) + (owners[w] - owners[w]) /\ used' = used + 0
    BY <1>1
  <2>3. group_used' = [group_used EXCEPT ![u] = @ + 0]
    BY <1>1
  <2>4. t # "idle" /\ UNCHANGED orphans /\ 0 \in Int /\ 0 <= 0
    OBVIOUS
  <2> QED BY <1>1, <2>1, <2>2, <2>3, <2>4 DEF Settles
<1>3. Stays(u)
  <2>1. PlayerPaid(u)
    BY <1>1 DEF Paying
  <2>2. u \in delivery_failed' \/ connection'[u] = "none" => pending_messages'[u] = 0
    BY <2>1 DEF PlayerPaid
  <2> QED BY <1>1, <2>2 DEF Stays
<1> QED BY <1>1, <1>2, <1>3, SettledPaid

LEMMA WorkPaid ==
    ASSUME Paying, NEW w \in Senders,
           Acquire(w) \/ (Delegate(w) /\ step'[w] = "slot") \/ Encode(w) \/ Encoded(w) \/ Drain(w)
    PROVE  Paying'
<1> DEFINE waiting == Waiting("slot")
           jobs == Jobs
<1>1. /\ step[w] \in Steps /\ step \in [Senders -> Steps] /\ OutgoingTypes
      /\ encode_slots \in Int /\ encode_waiters \in Int
      /\ encode_slots = EncodeWorkers - jobs /\ encode_slots >= 0
      /\ encode_waiters = waiting + jobs /\ encode_waiters <= EncodeWorkers + EncodeWaiters
      /\ EncodeWorkers \in Nat /\ EncodeWaiters \in Nat
  BY SenderHas, OutgoingAssumption DEF Paying, OutgoingTypes, WorkersPaid, OutgoingAssumption
<1>2. PICK t \in Steps \ {"idle"} :
          /\ step' = [step EXCEPT ![w] = t] /\ step[w] # "idle"
          /\ UNCHANGED <<connection, pending_messages, delivery_failed, owners, orphans, used, group_used>>
          /\ \/ step[w] \notin {"slot", "encoding"} /\ t \notin {"slot", "encoding"} /\ UNCHANGED <<encode_slots, encode_waiters>>
             \/ /\ step[w] = "turn" /\ t = "slot" /\ encode_waiters < EncodeWorkers + EncodeWaiters
                /\ encode_waiters' = encode_waiters + 1 /\ UNCHANGED encode_slots
             \/ /\ step[w] = "slot" /\ t = "encoding" /\ encode_slots > 0
                /\ encode_slots' = encode_slots - 1 /\ UNCHANGED encode_waiters
             \/ step[w] = "encoding" /\ t = "turn" /\ WorkerDone
  <2>1. {"turn", "slot", "encoding", "drain"} \subseteq Steps \ {"idle"}
    BY DEF Steps
  <2>2. CASE Acquire(w)
    BY <2>1, <2>2 DEF Acquire
  <2>3. CASE Delegate(w) /\ step'[w] = "slot"
    <3>1. ~(encode_waiters >= EncodeWorkers + EncodeWaiters)
      <4>1. SUFFICES ASSUME encode_waiters >= EncodeWorkers + EncodeWaiters PROVE FALSE
        OBVIOUS
      <4>2. step' = [step EXCEPT ![w] = "idle"]
        BY <2>3, <4>1 DEF Delegate, Done
      <4>3. step'[w] = "idle"
        BY <1>1, <4>2
      <4> QED BY <2>3, <4>3
    <3>2. /\ encode_waiters' = encode_waiters + 1 /\ step' = [step EXCEPT ![w] = "slot"] /\ step[w] = "turn"
          /\ UNCHANGED <<connection, pending_messages, delivery_failed, owners, orphans, used, group_used, encode_slots>>
      BY <2>3, <3>1 DEF Delegate
    <3>3. encode_waiters < EncodeWorkers + EncodeWaiters
      BY <1>1, <3>1
    <3> QED BY <2>1, <3>2, <3>3
  <2>4. CASE Encode(w)
    BY <2>1, <2>4 DEF Encode
  <2>5. CASE Encoded(w)
    BY <2>1, <2>5 DEF Encoded
  <2>6. CASE Drain(w)
    BY <2>1, <2>6 DEF Drain
  <2> QED BY <2>2, <2>3, <2>4, <2>5, <2>6
<1>3. /\ waiting \in Nat /\ jobs \in Nat
      /\ Waiting("slot")' = waiting - If(step[w] = "slot") + If(t = "slot")
      /\ Jobs' = jobs - If(step[w] = "encoding") + If(t = "encoding")
  BY <1>1, <1>2, SenderMoves
<1> HIDE DEF waiting, jobs
<1>4. /\ encode_slots' \in Int /\ encode_waiters' \in Int
      /\ encode_slots' = EncodeWorkers - Jobs' /\ encode_slots' >= 0
      /\ encode_waiters' = Waiting("slot")' + Jobs' /\ encode_waiters' <= EncodeWorkers + EncodeWaiters
  BY <1>1, <1>2, <1>3 DEF If, WorkerDone
<1>5. WorkersPaid'
  BY <1>4 DEF WorkersPaid
<1> QED BY <1>2, <1>4, <1>5, StepsPaid

\* A sender that has nothing to do with the workers.
LEMMA WorkersAside ==
    ASSUME Paying, NEW w \in Senders, NEW t \in Steps, step' = [step EXCEPT ![w] = t],
           step[w] \notin {"slot", "encoding"}, t \notin {"slot", "encoding"},
           UNCHANGED <<orphans, encode_slots, encode_waiters>>
    PROVE  WorkersPaid' /\ encode_slots' \in Int /\ encode_waiters' \in Int
<1>1. OutgoingTypes /\ WorkersPaid
  BY DEF Paying
<1>2. /\ Waiting("slot") \in Nat /\ Jobs \in Nat
      /\ Waiting("slot")' = Waiting("slot") - If(step[w] = "slot") + If(t = "slot")
      /\ Jobs' = Jobs - If(step[w] = "encoding") + If(t = "encoding")
  BY <1>1, SenderMoves
<1>3. Waiting("slot")' = Waiting("slot") /\ Jobs' = Jobs
  BY <1>2 DEF If
<1> QED BY <1>1, <1>3 DEF WorkersPaid, OutgoingTypes

\* A send is over.
LEMMA DonePaid ==
    ASSUME Paying, NEW w \in Senders, NEW failed \in BOOLEAN, Runs(w[1]), step[w] \in {"turn", "drain"},
           Done(w, failed), UNCHANGED <<encode_slots, encode_waiters>>
    PROVE  Paying'
<1> DEFINE u == w[1]
           r == w[2]
<1>1. /\ u \in Players /\ r \in Roles /\ w = <<u, r>> /\ w # u
      /\ step[w] \in Steps /\ owners[w] \in Nat /\ owners[u] \in Nat /\ owners[u] = pending_messages[u]
      /\ owners \in [Players \cup Senders -> Nat] /\ pending_messages \in [Players -> Nat]
      /\ used \in Int /\ group_used \in [Players -> Int] /\ step \in [Senders -> Steps]
      /\ connection \in [Players -> {"none", "open", "closing", "failed", "ending"}]
  BY SenderHas
<1>2. /\ step' = [step EXCEPT ![w] = "idle"] /\ owners' = [owners EXCEPT ![w] = 0]
      /\ used' = used - owners[w] + 0 /\ group_used' = [group_used EXCEPT ![u] = @ - owners[w] + 0]
      /\ IF failed THEN connection' = [connection EXCEPT ![u] = IF r = "game" THEN "failed" ELSE "closing"]
                   ELSE connection' = connection
      /\ UNCHANGED <<pending_messages, delivery_failed, orphans>> /\ connection[u] \in {"open", "closing"}
  BY DEF Done, Free, Reserve, Failing, Runs
<1> HIDE DEF u, r
<1>3. "idle" \in Steps /\ 0 \in Nat
  BY DEF Steps
<1>4. Settles(u, w, owners[u], 0, "idle")
  <2> DEFINE d == 0 - owners[w]
  <2>1. owners' = [owners EXCEPT ![u] = owners[u], ![w] = 0] /\ pending_messages' = [pending_messages EXCEPT ![u] = owners[u]]
    BY <1>1, <1>2
  <2>2. d \in Int /\ d = (owners[u] - owners[u]) + (0 - owners[w]) /\ used' = used + d /\ d <= 0
    BY <1>1, <1>2
  <2>3. group_used' = [group_used EXCEPT ![u] = @ + d]
    <3>1. group_used[u] - owners[w] + 0 = group_used[u] + d
      BY <1>1
    <3> QED BY <1>2, <3>1
  <2>4. 0 > 0 <=> "idle" # "idle"
    OBVIOUS
  <2> HIDE DEF d
  <2> QED BY <1>2, <2>1, <2>2, <2>3, <2>4 DEF Settles
<1>5. Stays(u)
  <2>1. PlayerPaid(u)
    BY <1>1 DEF Paying
  <2>2. connection' \in [Players -> {"none", "open", "closing", "failed", "ending"}] /\ connection'[u] \notin {"none", "ending"}
    BY <1>1, <1>2
  <2>3. \A v \in Players \ {u} : connection'[v] = connection[v]
    BY <1>1, <1>2
  <2>4. u \in delivery_failed' \/ connection'[u] = "none" => pending_messages'[u] = 0
    BY <1>2, <2>1, <2>2 DEF PlayerPaid
  <2> QED BY <1>2, <2>2, <2>3, <2>4 DEF Stays
<1>6. WorkersPaid' /\ encode_slots' \in Int /\ encode_waiters' \in Int
  BY <1>2, <1>3, WorkersAside
<1> QED BY <1>1, <1>3, <1>4, <1>5, <1>6, SettledPaid

\* What is queued is sent, or does not fit.
LEMMA SentPaid ==
    ASSUME Paying, NEW u \in Players, NEW role \in Roles, NEW more \in Nat, connection[u] \in {"open", "closing"},
           step[<<u, role>>] = "idle", SendPending(u, role, more),
           UNCHANGED <<delivery_failed, orphans, encode_slots, encode_waiters>>
    PROVE  Paying'
<1> DEFINE w == <<u, role>>
           size == 2 * (pending_messages[u] + more)
<1>1. w \in Senders /\ w[1] = u /\ w[2] = role
  BY SenderIs
<1>2. /\ w # u /\ owners[w] = 0 /\ owners[u] \in Nat /\ owners[u] = pending_messages[u]
      /\ owners \in [Players \cup Senders -> Nat] /\ pending_messages \in [Players -> Nat]
      /\ used \in Int /\ group_used \in [Players -> Int] /\ step \in [Senders -> Steps]
      /\ connection \in [Players -> {"none", "open", "closing", "failed", "ending"}]
  <2>1. owners[w] \in Nat /\ (owners[w] > 0 <=> step[w] # "idle")
    BY <1>1, SenderHas
  <2>2. owners[w] = 0
    BY <2>1
  <2>3. w # u /\ owners[u] \in Nat /\ owners[u] = pending_messages[u]
    BY <1>1, SenderHas
  <2>4. OutgoingTypes
    BY DEF Paying
  <2> QED BY <2>2, <2>3, <2>4 DEF OutgoingTypes
<1>3. size \in Nat
  <2>1. pending_messages[u] \in Nat
    BY <1>2
  <2> QED BY <2>1
<1>4. size > 0 /\ pending_messages' = [pending_messages EXCEPT ![u] = 0]
  BY DEF SendPending
<1>5. /\ step' = [step EXCEPT ![w] = "lock"] /\ owners' = [owners EXCEPT ![u] = 0, ![w] = size]
      /\ used' = used - owners[u] + size /\ group_used' = [group_used EXCEPT ![u] = @ - owners[u] + size]
      /\ used - owners[u] + size <= TotalBudget /\ group_used[u] - owners[u] + size <= PlayerBudget
      /\ UNCHANGED connection
   \/ /\ Free(u, u) /\ Failing(u, role) /\ UNCHANGED step
  BY DEF SendPending
<1>7. "lock" \in Steps /\ "idle" \in Steps
  BY DEF Steps
<1>8. /\ connection' \in [Players -> {"none", "open", "closing", "failed", "ending"}]
      /\ connection'[u] \notin {"none", "ending"} /\ pending_messages'[u] = 0
      /\ \A v \in Players \ {u} : connection'[v] = connection[v]
  BY <1>2, <1>4, <1>5 DEF Failing
<1>9. Stays(u)
  BY <1>8 DEF Stays
<1>10. step[w] = "idle"
  OBVIOUS
<1>11. w = <<u, role>>
  OBVIOUS
<1> HIDE DEF w, size
<1>12. CASE /\ step' = [step EXCEPT ![w] = "lock"] /\ owners' = [owners EXCEPT ![u] = 0, ![w] = size]
            /\ used' = used - owners[u] + size /\ group_used' = [group_used EXCEPT ![u] = @ - owners[u] + size]
            /\ used - owners[u] + size <= TotalBudget /\ group_used[u] - owners[u] + size <= PlayerBudget
  <2> DEFINE d == size - owners[u]
  <2>1. d \in Int /\ d = (0 - owners[u]) + (size - owners[w]) /\ used' = used + d /\ used + d <= TotalBudget
    BY <1>2, <1>3, <1>12
  <2>2. group_used[u] - owners[u] + size = group_used[u] + d
    BY <1>2, <1>3
  <2>3. group_used' = [group_used EXCEPT ![u] = @ + d] /\ group_used[u] + d <= PlayerBudget
    BY <1>12, <2>2
  <2>4. size > 0 <=> "lock" # "idle"
    BY <1>4
  <2> HIDE DEF d
  <2>5. Settles(u, w, 0, size, "lock")
    BY <1>4, <1>12, <2>1, <2>3, <2>4 DEF Settles
  <2>6. WorkersPaid' /\ encode_slots' \in Int /\ encode_waiters' \in Int
    BY <1>1, <1>7, <1>10, <1>12, WorkersAside
  <2> QED BY <1>3, <1>7, <1>9, <1>11, <2>5, <2>6, SettledPaid
<1>13. CASE Free(u, u) /\ UNCHANGED step
  <2> DEFINE d == 0 - owners[u]
  <2>1. /\ owners' = [owners EXCEPT ![u] = 0] /\ used' = used - owners[u] + 0
        /\ group_used' = [group_used EXCEPT ![u] = @ - owners[u] + 0]
    BY <1>13 DEF Free, Reserve
  <2>2. d \in Int /\ d = (0 - owners[u]) + (0 - owners[w]) /\ used' = used + d /\ d <= 0
    BY <1>2, <2>1
  <2>3. group_used[u] - owners[u] + 0 = group_used[u] + d
    BY <1>2
  <2>4. group_used' = [group_used EXCEPT ![u] = @ + d]
    BY <2>1, <2>3
  <2>5. owners' = [owners EXCEPT ![u] = 0, ![w] = 0] /\ step' = [step EXCEPT ![w] = "idle"]
    BY <1>1, <1>2, <1>10, <1>13, <2>1
  <2> HIDE DEF d
  <2>6. Settles(u, w, 0, 0, "idle")
    <3>1. 0 > 0 <=> "idle" # "idle"
      OBVIOUS
    <3> QED BY <1>4, <2>2, <2>4, <2>5, <3>1 DEF Settles
  <2>7. WorkersPaid' /\ encode_slots' \in Int /\ encode_waiters' \in Int
    BY <1>1, <1>7, <1>10, <2>5, WorkersAside
  <2> QED BY <1>7, <1>9, <1>11, <2>6, <2>7, SettledPaid
<1> QED BY <1>5, <1>12, <1>13 DEF w, size
-----------------------------------------------------------------------------
(* Encodings whose sender is gone                                          *)

\* A worker returns what was left to it.
LEMMA OrphansPaid ==
    ASSUME Paying, NEW o \in Players \X Sizes, OrphanDone(o)
    PROVE  Paying'
<1> DEFINE u == o[1]
           n == o[2]
<1>1. OutgoingTypes /\ BudgetPaid /\ WorkersPaid
  BY DEF Paying
<1>2. u \in Players /\ n \in Sizes /\ o = <<u, n>> /\ n \in Nat
  BY OutgoingAssumption DEF OutgoingAssumption, Sizes
<1>3. PlayerPaid(u)
  BY <1>2 DEF Paying
<1> HIDE DEF u, n
<1>4. /\ orphans[o] > 0 /\ orphans' = [orphans EXCEPT ![o] = @ - 1]
      /\ used' = used - n /\ group_used' = [group_used EXCEPT ![u] = @ - n]
      /\ encode_slots' = encode_slots + 1 /\ encode_waiters' = encode_waiters - 1
      /\ UNCHANGED <<connection, pending_messages, delivery_failed, step, owners>>
  BY DEF OrphanDone, WorkerDone, u, n
<1>5. /\ orphans \in [Players \X Sizes -> Nat] /\ used \in Int /\ group_used \in [Players -> Int]
      /\ encode_slots \in Int /\ encode_waiters \in Int
  BY <1>1 DEF OutgoingTypes
<1>6. /\ orphans' \in [Players \X Sizes -> Nat] /\ orphans'[o] = orphans[o] - 1
      /\ \A x \in Players \X Sizes : x # o => orphans'[x] = orphans[x]
  BY <1>4, <1>5
<1> DEFINE d == 0 - n
<1>7. d \in Int /\ d <= 0 /\ used' = used + d
  BY <1>2, <1>4, <1>5
<1>8. group_used' = [group_used EXCEPT ![u] = @ + d]
  <2>1. group_used[u] - n = group_used[u] + d
    BY <1>2, <1>5
  <2> QED BY <1>4, <2>1
<1>9. d = n * (0 - 1)
  BY <1>2
<1> HIDE DEF d
<1>10. /\ used' \in Int /\ group_used' \in [Players -> Int] /\ BudgetPaid'
       /\ group_used'[u] = group_used[u] + d
       /\ \A v \in Players : v # u => group_used'[v] = group_used[v]
  BY <1>1, <1>2, <1>7, <1>8, BudgetMoves
<1>11. Owed(orphans', u) = Owed(orphans, u) + d /\ SumFunction(orphans') = SumFunction(orphans) - 1
  <2> DEFINE f == orphans
             g == orphans'
             k == 0 - 1
  <2>1. f \in [Players \X Sizes -> Nat] /\ g \in [Players \X Sizes -> Nat]
    BY <1>5, <1>6
  <2>2. k \in Int /\ g[<<u, n>>] = f[<<u, n>>] + k
    <3>1. f[<<u, n>>] \in Nat
      BY <1>2, <2>1
    <3> QED BY <1>2, <1>6, <3>1
  <2>3. \A x \in Players \X Sizes : x # <<u, n>> => g[x] = f[x]
    BY <1>2, <1>6
  <2>4. SumFunction(f) \in Nat
    BY <1>2, <2>1, OwedIs
  <2>5. k = 0 - 1
    OBVIOUS
  <2> HIDE DEF f, g, k
  <2>6. Owed(g, u) = Owed(f, u) + n * k /\ SumFunction(g) = SumFunction(f) + k
    <3>1. Differs(f, g, u, n, k)
      BY <2>2, <2>3 DEF Differs
    <3>2. u \in Players /\ n \in Sizes /\ k \in Int
      BY <1>2, <2>2
    <3>3. Owed(g, u) = Owed(f, u) + n * k
      BY <2>1, <3>1, <3>2, OwedChanges, Zenon
    <3>4. SumFunction(g) = SumFunction(f) + k
      BY <2>1, <3>1, <3>2, OwedChanges, Zenon
    <3> QED BY <3>3, <3>4
  <2>7. SumFunction(g) = SumFunction(f) - 1 /\ Owed(g, u) = Owed(f, u) + d
    BY <1>9, <2>4, <2>5, <2>6
  <2> QED BY <2>7 DEF f, g
<1>12. OutgoingTypes'
  BY <1>1, <1>4, <1>5, <1>6, <1>10 DEF OutgoingTypes
<1>13. ASSUME NEW v \in Players, v # u PROVE PlayerPaid(v)'
  <2>1. \A m \in Sizes : orphans'[<<v, m>>] = orphans[<<v, m>>]
    BY <1>2, <1>6, <1>13
  <2>2. Unaffected(v)
    BY <1>4, <1>10, <1>13, <2>1 DEF Unaffected
  <2> QED BY <2>2, UnaffectedPaid DEF Paying
<1>14. PlayerPaid(u)'
  <2>1. Orphaned(u)' = Orphaned(u) + d
    BY <1>11 DEF Owed, Orphaned
  <2>2. Orphaned(u) \in Nat
    <3>1. Owed(orphans, u) \in Nat
      BY <1>2, <1>5, OwedIs
    <3> QED BY <3>1 DEF Owed, Orphaned
  <2>3. owners[u] \in Nat /\ owners[<<u, "game">>] \in Nat /\ owners[<<u, "pulse">>] \in Nat
    BY <1>1, <1>2, SenderIs DEF OutgoingTypes
  <2>4. /\ group_used[u] = owners[u] + owners[<<u, "game">>] + owners[<<u, "pulse">>] + Orphaned(u)
        /\ group_used[u] <= PlayerBudget /\ group_used[u] \in Int /\ PlayerBudget \in Int
    BY <1>2, <1>3, <1>5, OutgoingAssumption DEF PlayerPaid, OutgoingAssumption
  <2>5. group_used'[u] = owners[u] + owners[<<u, "game">>] + owners[<<u, "pulse">>] + Orphaned(u)'
    BY <1>7, <1>10, <2>1, <2>2, <2>3, <2>4
  <2>6. group_used'[u] <= PlayerBudget
    BY <1>7, <1>10, <2>4
  <2> QED BY <1>3, <1>4, <2>5, <2>6 DEF PlayerPaid
<1>15. WorkersPaid'
  <2>1. Waiting("slot")' = Waiting("slot") /\ Waiting("encoding")' = Waiting("encoding")
    BY <1>4 DEF Waiting
  <2>2. Waiting("slot") \in Nat /\ Waiting("encoding") \in Nat
    <3>1. \A s : AtStep(step, s) \subseteq Senders
      BY DEF AtStep
    <3>2. \A s : IsFiniteSet(AtStep(step, s))
      BY <3>1, SetsAreFinite, FS_Subset
    <3> QED BY <3>2, FS_CardinalityType DEF Waiting, AtStep
  <2>3. SumFunction(orphans) \in Nat
    BY <1>2, <1>5, OwedIs
  <2>4. Jobs \in Nat /\ Jobs' = Jobs - 1
    BY <1>11, <2>1, <2>2, <2>3 DEF Jobs
  <2>5. /\ encode_slots = EncodeWorkers - Jobs /\ encode_slots >= 0
        /\ encode_waiters = Waiting("slot") + Jobs /\ encode_waiters <= EncodeWorkers + EncodeWaiters
        /\ EncodeWorkers \in Nat /\ EncodeWaiters \in Nat
    BY <1>1, OutgoingAssumption DEF WorkersPaid, OutgoingAssumption
  <2> HIDE DEF Jobs
  <2>6. /\ encode_slots' = EncodeWorkers - Jobs' /\ encode_slots' >= 0
        /\ encode_waiters' = Waiting("slot")' + Jobs' /\ encode_waiters' <= EncodeWorkers + EncodeWaiters
    BY <1>4, <1>5, <2>1, <2>2, <2>4, <2>5
  <2> QED BY <2>6 DEF WorkersPaid
<1> QED BY <1>10, <1>12, <1>13, <1>14, <1>15 DEF Paying

\* Of two things.
LEMMA PairIs ==
    ASSUME NEW a, NEW b, a # b, NEW S, S \subseteq {a, b}
    PROVE  /\ Cardinality(S) = If(a \in S) + If(b \in S)
           /\ \A f : f[a] \in Int /\ f[b] \in Int =>
                  SumFunctionOnSet(f, S) = (IF a \in S THEN f[a] ELSE 0) + (IF b \in S THEN f[b] ELSE 0)
<1>1. IsFiniteSet({}) /\ Cardinality({}) = 0
  BY FS_EmptySet
<1>2. \A x : IsFiniteSet({x}) /\ Cardinality({x}) = 1
  BY FS_Singleton
<1>3. IsFiniteSet({a} \cup {b}) /\ Cardinality({a} \cup {b}) = Cardinality({a}) + 1
  <2>1. b \notin {a}
    OBVIOUS
  <2> QED BY <1>2, <2>1, FS_AddElement
<1>4. {a} \cup {b} = {a, b} /\ {a, b} \ {a} = {b}
  OBVIOUS
<1>5. IsFiniteSet({a, b}) /\ Cardinality({a, b}) = 2
  <2>1. IsFiniteSet({a} \cup {b}) /\ Cardinality({a} \cup {b}) = 2
    <3>1. Cardinality({a}) = 1
      BY <1>2
    <3> HIDE <1>2
    <3> QED BY <1>3, <3>1
  <2> DEFINE P == {a, b}
  <2>2. P = {a} \cup {b}
    OBVIOUS
  <2> HIDE DEF P
  <2>3. IsFiniteSet(P) /\ Cardinality(P) = 2
    BY <2>1, <2>2
  <2> QED BY <2>3 DEF P
<1>6. ASSUME NEW f, f[a] \in Int, f[b] \in Int
      PROVE  SumFunctionOnSet(f, {a, b}) = f[a] + f[b]
  <2>1. SumFunctionOnSet(f, {a, b}) = f[a] + SumFunctionOnSet(f, {a, b} \ {a})
    <3>1. \A x \in {a, b} : f[x] \in Int
      BY <1>6
    <3> QED BY <1>5, <3>1, SumRemove
  <2>2. SumFunctionOnSet(f, {b}) = f[b]
    BY <1>6, SumOne
  <2> QED BY <1>4, <2>1, <2>2
<1>7. CASE S = {}
  <2>1. a \notin S /\ b \notin S
    BY <1>7
  <2> QED BY <1>1, <1>7, <2>1, SumEmpty DEF If
<1>8. CASE S = {a}
  <2>1. a \in S /\ b \notin S
    BY <1>8
  <2>2. Cardinality(S) = 1
    BY <1>2, <1>8, Zenon
  <2>3. \A f : f[a] \in Int => SumFunctionOnSet(f, S) = f[a]
    BY <1>8, SumOne, Zenon
  <2> QED BY <2>1, <2>2, <2>3 DEF If
<1>9. CASE S = {b}
  <2>1. a \notin S /\ b \in S
    BY <1>9
  <2>2. Cardinality(S) = 1
    BY <1>2, <1>9, Zenon
  <2>3. \A f : f[b] \in Int => SumFunctionOnSet(f, S) = f[b]
    BY <1>9, SumOne, Zenon
  <2> QED BY <2>1, <2>2, <2>3 DEF If
<1>10. CASE S = {a, b}
  <2>1. a \in S /\ b \in S
    BY <1>10
  <2>2. Cardinality(S) = 2
    BY <1>5, <1>10, Zenon
  <2>3. \A f : f[a] \in Int /\ f[b] \in Int => SumFunctionOnSet(f, S) = f[a] + f[b]
    BY <1>6, <1>10, Zenon
  <2> QED BY <2>1, <2>2, <2>3 DEF If
<1>11. S = {} \/ S = {a} \/ S = {b} \/ S = {a, b}
  OBVIOUS
<1> QED BY <1>7, <1>8, <1>9, <1>10, <1>11

-----------------------------------------------------------------------------
(* The end of the game coroutine                                           *)

\* The orphans f, and what a sender leaves to its worker.
With(f, u, left, n) == [o \in DOMAIN f |-> f[o] + If(left /\ o = <<u, n>>)]

Leaves(f, g, u, left, n) ==
    /\ g \in [Players \X Sizes -> Nat]
    /\ Owed(g, u) = Owed(f, u) + IF left THEN n ELSE 0
    /\ SumFunction(g) = SumFunction(f) + If(left)
    /\ \A o \in Players \X Sizes : o[1] # u => g[o] = f[o]

LEMMA LeftToWorker ==
    ASSUME NEW f \in [Players \X Sizes -> Nat], NEW u \in Players, NEW left \in BOOLEAN, NEW n \in Nat, left => n \in Sizes
    PROVE  Leaves(f, With(f, u, left, n), u, left, n)
<1> DEFINE g == With(f, u, left, n)
<1>1. /\ g \in [Players \X Sizes -> Nat]
      /\ \A o \in Players \X Sizes : g[o] = f[o] + If(left /\ o = <<u, n>>)
  <2>1. \A o \in Players \X Sizes : f[o] + If(left /\ o = <<u, n>>) \in Nat
    BY DEF If
  <2>2. DOMAIN f = Players \X Sizes
    OBVIOUS
  <2>3. g = [o \in Players \X Sizes |-> f[o] + If(left /\ o = <<u, n>>)]
    BY <2>2 DEF With
  <2> QED BY <2>1, <2>3
<1> HIDE DEF g
<1>2. \A o \in Players \X Sizes : o # <<u, n>> => g[o] = f[o]
  BY <1>1 DEF If
<1>3. Owed(f, u) \in Nat /\ SumFunction(f) \in Nat
  BY OwedIs
<1>4. CASE left
  <2>1. n \in Sizes /\ <<u, n>> \in Players \X Sizes
    BY <1>4
  <2>2. Differs(f, g, u, n, 1)
    BY <1>1, <1>2, <1>4, <2>1 DEF Differs, If
  <2>3. 1 \in Int
    OBVIOUS
  <2>4. Owed(g, u) = Owed(f, u) + n * 1
    BY <1>1, <2>1, <2>2, <2>3, OwedChanges, Zenon
  <2>5. SumFunction(g) = SumFunction(f) + 1
    BY <1>1, <2>1, <2>2, <2>3, OwedChanges, Zenon
  <2>6. n * 1 = n
    OBVIOUS
  <2>7. If(left) = 1 /\ (IF left THEN n ELSE 0) = n
    BY <1>4 DEF If
  <2>8. \A o \in Players \X Sizes : o[1] # u => g[o] = f[o]
    BY <1>2
  <2>9. Owed(g, u) = Owed(f, u) + (IF left THEN n ELSE 0) /\ SumFunction(g) = SumFunction(f) + If(left)
    BY <2>4, <2>5, <2>6, <2>7
  <2> QED BY <1>1, <2>8, <2>9 DEF g, Leaves
<1>5. CASE ~left
  <2>1. g = f
    <3>1. \A o \in Players \X Sizes : g[o] = f[o]
      BY <1>1, <1>5 DEF If
    <3> QED BY <1>1, <3>1
  <2>2. Leaves(f, g, u, left, n)
    BY <1>1, <1>3, <1>5, <2>1 DEF If, Leaves
  <2> QED BY <2>2 DEF g
<1> QED BY <1>4, <1>5

LEMMA FinishPaid ==
    ASSUME Paying, NEW u \in Players, Finish(u)
    PROVE  Paying'
<1> DEFINE a == <<u, "game">>
           b == <<u, "pulse">>
           mine == {<<u, role>> : role \in Roles}
           kept == {w \in mine : Encoding(w)}
           freed == SumFunctionOnSet(owners, Released(mine))
<1>1. OutgoingTypes /\ PlayerPaid(u) /\ BudgetPaid /\ WorkersPaid
  BY DEF Paying
<1>2. /\ a \in Senders /\ b \in Senders /\ a # b /\ u \notin Senders
      /\ mine = {a, b} /\ \A role \in Roles : <<u, role>> \in mine
  BY SenderIs DEF Roles
<1>3. /\ step' = [w \in Senders |-> IF w \in mine THEN "idle" ELSE step[w]]
      /\ owners' = [o \in DOMAIN owners |-> IF o \in mine THEN 0 ELSE owners[o]]
      /\ orphans' = [o \in DOMAIN orphans |->
             IF o[1] = u THEN orphans[o] + Cardinality({w \in kept : owners[w] = o[2]}) ELSE orphans[o]]
      /\ used' = used - freed
      /\ group_used' = [group_used EXCEPT ![u] = @ - freed]
      /\ encode_waiters' = encode_waiters - Cardinality({w \in mine : step[w] = "slot"})
      /\ connection' = [connection EXCEPT ![u] = "ending"]
      /\ UNCHANGED <<pending_messages, delivery_failed, encode_slots>>
  BY DEF Finish
<1>4. /\ step \in [Senders -> Steps] /\ owners \in [Players \cup Senders -> Nat] /\ orphans \in [Players \X Sizes -> Nat]
      /\ used \in Int /\ group_used \in [Players -> Int] /\ encode_slots \in Int /\ encode_waiters \in Int
      /\ connection \in [Players -> {"none", "open", "closing", "failed", "ending"}]
      /\ pending_messages \in [Players -> Nat]
      /\ owners[a] \in Nat /\ owners[b] \in Nat /\ owners[u] \in Nat /\ group_used[u] \in Int
  BY <1>1, <1>2 DEF OutgoingTypes
<1>5. /\ group_used[u] = owners[u] + owners[a] + owners[b] + Orphaned(u)
      /\ group_used[u] <= PlayerBudget /\ PlayerBudget \in Nat /\ Orphaned(u) \in Nat
  <2>1. Owed(orphans, u) \in Nat
    BY <1>4, OwedIs
  <2> QED BY <1>1, <2>1, OutgoingAssumption DEF PlayerPaid, OutgoingAssumption, Owed, Orphaned
\* An encoding is of a size.
<1>6. (Encoding(a) => owners[a] \in Sizes) /\ (Encoding(b) => owners[b] \in Sizes)
  <2>1. "game" \in Roles /\ "pulse" \in Roles
    BY DEF Roles
  <2>2. (Encoding(a) => owners[a] > 0) /\ (Encoding(b) => owners[b] > 0)
    BY <1>1, <2>1 DEF PlayerPaid, Encoding
  <2>3. owners[a] <= PlayerBudget /\ owners[b] <= PlayerBudget
    BY <1>4, <1>5
  <2> QED BY <1>4, <1>5, <2>2, <2>3 DEF Sizes
<1> HIDE DEF a, b
\* What is returned at once.
<1>7. freed = (IF Encoding(a) THEN 0 ELSE owners[a]) + (IF Encoding(b) THEN 0 ELSE owners[b])
  <2> DEFINE S == Released(mine)
  <2>1. S \subseteq {a, b} /\ (a \in S <=> ~Encoding(a)) /\ (b \in S <=> ~Encoding(b))
    BY <1>2 DEF Released
  <2>2. owners[a] \in Int /\ owners[b] \in Int
    BY <1>4
  <2> HIDE DEF S
  <2>3. SumFunctionOnSet(owners, S) = (IF a \in S THEN owners[a] ELSE 0) + (IF b \in S THEN owners[b] ELSE 0)
    BY <1>2, <2>1, <2>2, PairIs
  <2>4. SumFunctionOnSet(owners, S) = (IF Encoding(a) THEN 0 ELSE owners[a]) + (IF Encoding(b) THEN 0 ELSE owners[b])
    BY <2>1, <2>3
  <2> QED BY <2>4 DEF S
<1>8. Cardinality({w \in mine : step[w] = "slot"}) = If(step[a] = "slot") + If(step[b] = "slot")
  <2> DEFINE S == {w \in mine : step[w] = "slot"}
  <2>1. S \subseteq {a, b} /\ (a \in S <=> step[a] = "slot") /\ (b \in S <=> step[b] = "slot")
    BY <1>2
  <2> HIDE DEF S
  <2>2. Cardinality(S) = If(a \in S) + If(b \in S)
    BY <1>2, <2>1, PairIs
  <2>3. Cardinality(S) = If(step[a] = "slot") + If(step[b] = "slot")
    BY <2>1, <2>2 DEF If
  <2> QED BY <2>3 DEF S
<1>9. ASSUME NEW n
      PROVE  Cardinality({w \in kept : owners[w] = n}) = If(Encoding(a) /\ owners[a] = n) + If(Encoding(b) /\ owners[b] = n)
  <2> DEFINE S == {w \in kept : owners[w] = n}
  <2>1. S \subseteq {a, b} /\ (a \in S <=> Encoding(a) /\ owners[a] = n) /\ (b \in S <=> Encoding(b) /\ owners[b] = n)
    BY <1>2
  <2> HIDE DEF S
  <2>2. Cardinality(S) = If(a \in S) + If(b \in S)
    BY <1>2, <2>1, PairIs
  <2>3. Cardinality(S) = If(Encoding(a) /\ owners[a] = n) + If(Encoding(b) /\ owners[b] = n)
    BY <2>1, <2>2 DEF If
  <2> QED BY <2>3 DEF S
<1> HIDE DEF freed, kept
\* What is left to the workers, of one sender and of the other.
<1> DEFINE one == With(orphans, u, Encoding(a), owners[a])
           both == With(one, u, Encoding(b), owners[b])
<1>10. /\ one \in [Players \X Sizes -> Nat]
       /\ Owed(one, u) = Owed(orphans, u) + IF Encoding(a) THEN owners[a] ELSE 0
       /\ SumFunction(one) = SumFunction(orphans) + If(Encoding(a))
       /\ \A o \in Players \X Sizes : o[1] # u => one[o] = orphans[o]
  <2> DEFINE left == Encoding(a)
             n == owners[a]
  <2>1. left \in BOOLEAN /\ n \in Nat /\ (left => n \in Sizes)
    BY <1>4, <1>6 DEF Encoding
  <2> HIDE DEF left, n
  <2>2. Leaves(orphans, With(orphans, u, left, n), u, left, n)
    BY <1>4, <2>1, LeftToWorker
  <2> QED BY <2>2 DEF left, n, Leaves
<1>11. one = [o \in Players \X Sizes |-> orphans[o] + If(Encoding(a) /\ o = <<u, owners[a]>>)]
  BY <1>4 DEF With
<1> HIDE DEF one
<1>12. /\ both \in [Players \X Sizes -> Nat]
       /\ Owed(both, u) = Owed(one, u) + IF Encoding(b) THEN owners[b] ELSE 0
       /\ SumFunction(both) = SumFunction(one) + If(Encoding(b))
       /\ \A o \in Players \X Sizes : o[1] # u => both[o] = one[o]
  <2> DEFINE left == Encoding(b)
             n == owners[b]
  <2>1. left \in BOOLEAN /\ n \in Nat /\ (left => n \in Sizes)
    BY <1>4, <1>6 DEF Encoding
  <2> HIDE DEF left, n
  <2>2. Leaves(one, With(one, u, left, n), u, left, n)
    BY <1>10, <2>1, LeftToWorker
  <2> QED BY <2>2 DEF left, n, Leaves
<1>13. both = [o \in Players \X Sizes |-> one[o] + If(Encoding(b) /\ o = <<u, owners[b]>>)]
  BY <1>10 DEF With
<1> HIDE DEF both
<1>14. orphans' = both
  <2>1. DOMAIN orphans = Players \X Sizes
    BY <1>4
  <2>2. ASSUME NEW v \in Players, NEW n \in Sizes
        PROVE  orphans'[<<v, n>>] = both[<<v, n>>]
    <3>1. <<v, n>> \in Players \X Sizes /\ <<v, n>>[1] = v /\ <<v, n>>[2] = n /\ orphans[<<v, n>>] \in Nat
      BY <1>4
    <3>2. both[<<v, n>>] = orphans[<<v, n>>] + If(Encoding(a) /\ <<v, n>> = <<u, owners[a]>>)
                                             + If(Encoding(b) /\ <<v, n>> = <<u, owners[b]>>)
      BY <1>11, <1>13, <3>1
    <3>3. orphans'[<<v, n>>] = IF v = u THEN orphans[<<v, n>>] + Cardinality({w \in kept : owners[w] = n})
                                        ELSE orphans[<<v, n>>]
      BY <1>3, <2>1, <3>1
    <3>4. CASE v = u
      <4>1. Cardinality({w \in kept : owners[w] = n}) = If(Encoding(a) /\ owners[a] = n) + If(Encoding(b) /\ owners[b] = n)
        BY <1>9
      <4>2. /\ (<<v, n>> = <<u, owners[a]>>) = (owners[a] = n)
            /\ (<<v, n>> = <<u, owners[b]>>) = (owners[b] = n)
        BY <3>4
      <4> QED BY <3>1, <3>2, <3>3, <3>4, <4>1, <4>2 DEF If
    <3>5. CASE v # u
      <4>1. <<v, n>> # <<u, owners[a]>> /\ <<v, n>> # <<u, owners[b]>>
        BY <3>5
      <4> QED BY <3>1, <3>2, <3>3, <3>5, <4>1 DEF If
    <3> QED BY <3>4, <3>5
  <2>3. \A o \in Players \X Sizes : orphans'[o] = both[o]
    BY <2>2
  <2>4. orphans' = [o \in Players \X Sizes |-> orphans'[o]] /\ both = [o \in Players \X Sizes |-> both[o]]
    BY <1>3, <1>12, <2>1
  <2> QED BY <2>3, <2>4
<1>15. /\ orphans' \in [Players \X Sizes -> Nat]
       /\ Owed(orphans', u) = Owed(orphans, u) + (IF Encoding(a) THEN owners[a] ELSE 0) + (IF Encoding(b) THEN owners[b] ELSE 0)
       /\ SumFunction(orphans') = SumFunction(orphans) + If(Encoding(a)) + If(Encoding(b))
       /\ \A o \in Players \X Sizes : o[1] # u => orphans'[o] = orphans[o]
  BY <1>10, <1>12, <1>14
\* The budget, and the player.
<1> DEFINE d == 0 - freed
<1>16. freed \in Nat
  BY <1>4, <1>7
<1>17. d \in Int /\ d <= 0 /\ used' = used + d
  BY <1>3, <1>4, <1>16
<1>18. group_used' = [group_used EXCEPT ![u] = @ + d]
  <2>1. group_used[u] - freed = group_used[u] + d
    BY <1>4, <1>16
  <2> QED BY <1>3, <2>1
<1>19. /\ used' \in Int /\ group_used' \in [Players -> Int] /\ BudgetPaid'
       /\ group_used'[u] = group_used[u] + d
       /\ \A v \in Players : v # u => group_used'[v] = group_used[v]
  <2> HIDE DEF d
  <2> QED BY <1>1, <1>17, <1>18, BudgetMoves
<1>20. /\ step' \in [Senders -> Steps] /\ owners' \in [Players \cup Senders -> Nat]
       /\ \A w \in mine : step'[w] = "idle" /\ owners'[w] = 0
       /\ \A w \in Senders : w \notin mine => step'[w] = step[w]
       /\ \A o \in Players \cup Senders : o \notin mine => owners'[o] = owners[o]
  <2>1. mine \subseteq Senders
    BY <1>2
  <2>2. DOMAIN owners = Players \cup Senders
    BY <1>4
  <2> HIDE DEF mine
  <2> QED BY <1>3, <1>4, <2>1, <2>2 DEF Steps
<1>21. OutgoingTypes'
  <2>1. encode_waiters' \in Int
    BY <1>3, <1>4, <1>8 DEF If
  <2>2. connection' \in [Players -> {"none", "open", "closing", "failed", "ending"}]
    BY <1>3, <1>4
  <2> QED BY <1>3, <1>4, <1>15, <1>19, <1>20, <2>1, <2>2 DEF OutgoingTypes
<1>22. ASSUME NEW v \in Players, v # u PROVE PlayerPaid(v)'
  <2>1. \A role \in Roles : <<v, role>> \in Senders /\ <<v, role>> \notin mine
    BY <1>22, SenderIs
  <2>2. v \notin mine
    BY <1>22, SenderIs, <1>2
  <2>3. \A n \in Sizes : orphans'[<<v, n>>] = orphans[<<v, n>>]
    BY <1>15, <1>22
  <2>4. connection'[v] = connection[v] /\ pending_messages'[v] = pending_messages[v] /\ delivery_failed' = delivery_failed
    BY <1>3, <1>4, <1>22
  <2> HIDE DEF mine
  <2>5. \A role \in Roles : step'[<<v, role>>] = step[<<v, role>>] /\ owners'[<<v, role>>] = owners[<<v, role>>]
    BY <1>20, <2>1
  <2>6. owners'[v] = owners[v]
    BY <1>20, <2>2
  <2>7. Unaffected(v)
    BY <1>19, <1>22, <2>3, <2>4, <2>5, <2>6 DEF Unaffected
  <2> QED BY <2>7, UnaffectedPaid DEF Paying
<1>23. PlayerPaid(u)'
  <2>1. u \notin mine
    BY <1>2
  <2>2. a \in mine /\ b \in mine /\ \A role \in Roles : <<u, role>> \in mine
    BY <1>2
  <2> HIDE DEF mine
  <2>3. owners'[u] = owners[u] /\ owners'[a] = 0 /\ owners'[b] = 0
    BY <1>20, <2>1, <2>2
  <2>4. \A role \in Roles : step'[<<u, role>>] = "idle" /\ owners'[<<u, role>>] = 0
    BY <1>20, <2>2
  <2>5. Orphaned(u)' = Owed(orphans', u) /\ Orphaned(u) = Owed(orphans, u)
    BY DEF Owed, Orphaned
  <2>6. group_used'[u] = owners[u] + Orphaned(u)' /\ Orphaned(u)' \in Int
    <3>1. Owed(orphans, u) = Orphaned(u) /\ group_used'[u] = group_used[u] - freed
      BY <1>4, <1>16, <1>19, <2>5
    <3>2. /\ freed = (IF Encoding(a) THEN 0 ELSE owners[a]) + (IF Encoding(b) THEN 0 ELSE owners[b])
          /\ Orphaned(u)' = Orphaned(u) + (IF Encoding(a) THEN owners[a] ELSE 0) + (IF Encoding(b) THEN owners[b] ELSE 0)
      BY <1>7, <1>15, <2>5, <3>1
    <3>3. CASE Encoding(a) /\ Encoding(b)
      BY <1>4, <1>5, <3>1, <3>2, <3>3
    <3>4. CASE Encoding(a) /\ ~Encoding(b)
      BY <1>4, <1>5, <3>1, <3>2, <3>4
    <3>5. CASE ~Encoding(a) /\ Encoding(b)
      BY <1>4, <1>5, <3>1, <3>2, <3>5
    <3>6. CASE ~Encoding(a) /\ ~Encoding(b)
      BY <1>4, <1>5, <3>1, <3>2, <3>6
    <3> QED BY <3>3, <3>4, <3>5, <3>6
  <2>7. group_used'[u] = owners'[u] + owners'[a] + owners'[b] + Orphaned(u)'
    BY <1>4, <2>3, <2>6
  <2>8. group_used'[u] <= PlayerBudget
    BY <1>4, <1>5, <1>17, <1>19
  <2>9. connection'[u] = "ending" /\ pending_messages'[u] = pending_messages[u] /\ delivery_failed' = delivery_failed
    BY <1>3, <1>4
  <2>10. owners[u] = pending_messages[u] /\ (u \in delivery_failed => pending_messages[u] = 0)
    BY <1>1 DEF PlayerPaid
  <2> QED BY <2>3, <2>4, <2>7, <2>8, <2>9, <2>10 DEF PlayerPaid, a, b
<1>24. WorkersPaid'
  <2> DEFINE mid == [step EXCEPT ![a] = "idle"]
  <2>1. /\ mid \in [Senders -> Steps] /\ mid[a] = "idle" /\ \A w \in Senders \ {a} : mid[w] = step[w]
    BY <1>2, <1>4 DEF Steps
  <2>2. step'[b] = "idle" /\ mid[b] = step[b] /\ \A w \in Senders \ {b} : step'[w] = mid[w]
    BY <1>2, <1>20, <2>1
  <2> HIDE DEF mid
  <2>3. "idle" \in Steps
    BY DEF Steps
  <2>4. ASSUME NEW s
        PROVE  /\ Cardinality(AtStep(step, s)) \in Nat
               /\ Cardinality(AtStep(mid, s)) = Cardinality(AtStep(step, s)) - If(step[a] = s) + If("idle" = s)
    BY <1>2, <1>4, <2>1, <2>3, StepMoves
  <2>5. ASSUME NEW s
        PROVE  /\ Cardinality(AtStep(mid, s)) \in Nat
               /\ Cardinality(AtStep(step', s)) = Cardinality(AtStep(mid, s)) - If(mid[b] = s) + If("idle" = s)
    <3> DEFINE g == step'
    <3>1. g \in [Senders -> Steps] /\ g[b] = "idle" /\ \A w \in Senders \ {b} : g[w] = mid[w]
      BY <1>20, <2>2
    <3> HIDE DEF g
    <3>2. /\ Cardinality(AtStep(mid, s)) \in Nat
          /\ Cardinality(AtStep(g, s)) = Cardinality(AtStep(mid, s)) - If(mid[b] = s) + If("idle" = s)
      BY <1>2, <2>1, <2>3, <3>1, StepMoves
    <3> QED BY <3>2 DEF g
  <2>6. /\ Waiting("slot") \in Nat /\ Waiting("encoding") \in Nat
        /\ Waiting("slot")' = Waiting("slot") - If(step[a] = "slot") - If(step[b] = "slot")
        /\ Waiting("encoding")' = Waiting("encoding") - If(step[a] = "encoding") - If(step[b] = "encoding")
    <3>1. \A s : Waiting(s) = Cardinality(AtStep(step, s)) /\ Waiting(s)' = Cardinality(AtStep(step', s))
      BY DEF Waiting, AtStep
    <3>2. If("idle" = "slot") = 0 /\ If("idle" = "encoding") = 0 /\ \A p : If(p) \in {0, 1}
      BY DEF If
    <3>3. /\ Cardinality(AtStep(step', "slot")) = Cardinality(AtStep(step, "slot")) - If(step[a] = "slot") - If(step[b] = "slot")
          /\ Cardinality(AtStep(step, "slot")) \in Nat
      BY <2>2, <2>4, <2>5, <3>2
    <3>4. /\ Cardinality(AtStep(step', "encoding")) =
                 Cardinality(AtStep(step, "encoding")) - If(step[a] = "encoding") - If(step[b] = "encoding")
          /\ Cardinality(AtStep(step, "encoding")) \in Nat
      BY <2>2, <2>4, <2>5, <3>2
    <3> QED BY <3>1, <3>3, <3>4
  <2>7. SumFunction(orphans) \in Nat
    BY <1>4, OwedIs
  <2>8. Jobs \in Nat /\ Jobs' = Jobs
    BY <1>15, <2>6, <2>7 DEF Jobs, If, Encoding
  <2>9. /\ encode_slots = EncodeWorkers - Jobs /\ encode_slots >= 0
        /\ encode_waiters = Waiting("slot") + Jobs /\ encode_waiters <= EncodeWorkers + EncodeWaiters
        /\ EncodeWorkers \in Nat /\ EncodeWaiters \in Nat
    BY <1>1, OutgoingAssumption DEF WorkersPaid, OutgoingAssumption
  <2>10. encode_waiters' = encode_waiters - If(step[a] = "slot") - If(step[b] = "slot") /\ encode_slots' = encode_slots
    BY <1>3, <1>4, <1>8 DEF If
  <2>11. If(step[a] = "slot") \in {0, 1} /\ If(step[b] = "slot") \in {0, 1}
    BY DEF If
  <2> HIDE DEF Jobs
  <2>12. /\ encode_slots' = EncodeWorkers - Jobs' /\ encode_slots' >= 0
         /\ encode_waiters' = Waiting("slot")' + Jobs' /\ encode_waiters' <= EncodeWorkers + EncodeWaiters
    BY <1>4, <2>6, <2>8, <2>9, <2>10, <2>11
  <2> QED BY <2>12 DEF WorkersPaid
<1> QED BY <1>19, <1>21, <1>22, <1>23, <1>24 DEF Paying

\* The pulse sends what is queued, or closes the connection of who fell behind.
LEMMA PulsePaid ==
    ASSUME Paying, NEW u \in Players, Pulse(u)
    PROVE  Paying'
<1> DEFINE w == <<u, "pulse">>
<1>1. /\ connection[u] = "open" /\ step[w] = "idle"
      /\ UNCHANGED <<delivery_failed, orphans, encode_slots, encode_waiters>>
  BY DEF Pulse
<1>2. "pulse" \in Roles /\ w \in Senders /\ w[1] = u
  BY SenderIs DEF Roles
<1>3. CASE u \notin delivery_failed
  <2>1. PICK more \in {0, 1} : SendPending(u, "pulse", more)
    BY <1>3 DEF Pulse
  <2>2. more \in Nat /\ connection[u] \in {"open", "closing"}
    BY <1>1
  <2> QED BY <1>1, <1>2, <2>1, <2>2, SentPaid
<1>4. CASE u \in delivery_failed
  <2>1. /\ connection' = [connection EXCEPT ![u] = "closing"]
        /\ UNCHANGED <<pending_messages, step, owners, used, group_used>>
    BY <1>4 DEF Pulse, Failing
  <2>2. OutgoingTypes /\ PlayerPaid(u) /\ BudgetPaid /\ WorkersPaid
    BY DEF Paying
  <2>3. OutgoingTypes'
    BY <1>1, <2>1, <2>2 DEF OutgoingTypes
  <2>4. BudgetPaid' /\ WorkersPaid'
    BY <1>1, <2>1, <2>2, WorkersSame DEF BudgetPaid
  <2>5. ASSUME NEW v \in Players, v # u PROVE PlayerPaid(v)'
    <3>1. Unaffected(v)
      BY <1>1, <2>1, <2>2, <2>5 DEF Unaffected, OutgoingTypes
    <3> QED BY <3>1, UnaffectedPaid DEF Paying
  <2>6. PlayerPaid(u)'
    <3>1. Orphaned(u)' = Orphaned(u)
      BY <1>1 DEF Orphaned
    <3>2. connection'[u] = "closing"
      BY <2>1, <2>2 DEF OutgoingTypes
    <3> QED BY <1>1, <1>4, <2>1, <2>2, <3>1, <3>2 DEF PlayerPaid
  <2> QED BY <2>3, <2>4, <2>5, <2>6 DEF Paying
<1> QED BY <1>3, <1>4

-----------------------------------------------------------------------------
LEMMA NothingOwed ==
    ASSUME OutgoingInit
    PROVE  Paying
<1>1. /\ connection = [u \in Players |-> "none"] /\ pending_messages = [u \in Players |-> 0]
      /\ delivery_failed = {} /\ step = [w \in Senders |-> "idle"]
      /\ owners = [o \in Players \cup Senders |-> 0] /\ orphans = [o \in Players \X Sizes |-> 0]
      /\ used = 0 /\ group_used = [u \in Players |-> 0]
      /\ encode_slots = EncodeWorkers /\ encode_waiters = 0
  BY DEF OutgoingInit
<1>2. /\ EncodeWorkers \in Nat /\ EncodeWaiters \in Nat /\ TotalBudget \in Nat /\ PlayerBudget \in Nat
      /\ IsFiniteSet(Players)
  BY OutgoingAssumption DEF OutgoingAssumption
<1>3. OutgoingTypes
  BY <1>1, <1>2 DEF OutgoingTypes, Steps
\* A sum of zeros.
<1>4. ASSUME NEW f, IsFiniteSet(DOMAIN f), \A x \in DOMAIN f : f[x] = 0
      PROVE  SumFunction(f) = 0
  <2> DEFINE N == {0}
             S == DOMAIN f
  <2>1. 0 \in N /\ (\A i, j \in N : i + j \in N) /\ \A x \in S : f[x] \in N
    BY <1>4
  <2>2. N = {0} /\ IsFiniteSet(S)
    BY <1>4
  <2>3. SumFunction(f) = SumFunctionOnSet(f, S)
    BY DEF SumFunction
  <2> HIDE DEF N, S
  <2>4. SumFunctionOnSet(f, S) \in N
    BY <2>1, <2>2, SumType
  <2> QED BY <2>2, <2>3, <2>4
<1>5. SumFunction(group_used) = 0 /\ SumFunction(orphans) = 0
  <2>1. /\ DOMAIN group_used = Players /\ \A x \in Players : group_used[x] = 0
        /\ DOMAIN orphans = Players \X Sizes /\ \A x \in Players \X Sizes : orphans[x] = 0
    BY <1>1
  <2>2. IsFiniteSet(DOMAIN group_used) /\ \A x \in DOMAIN group_used : group_used[x] = 0
    BY <1>2, <2>1
  <2>3. IsFiniteSet(DOMAIN orphans) /\ \A x \in DOMAIN orphans : orphans[x] = 0
    BY <2>1, SetsAreFinite
  <2>4. SumFunction(group_used) = 0
    BY <1>4, <2>2
  <2>5. SumFunction(orphans) = 0
    BY <1>4, <2>3
  <2> QED BY <2>4, <2>5
<1>6. ASSUME NEW u \in Players PROVE Orphaned(u) = 0
  <2> DEFINE e == [n \in Sizes |-> n * orphans[<<u, n>>]]
  <2>1. ASSUME NEW n \in Sizes PROVE n * orphans[<<u, n>>] = 0
    <3>1. n \in Nat /\ orphans[<<u, n>>] = 0
      BY <1>1, <1>2 DEF Sizes
    <3>2. \A i \in Nat : i * 0 = 0
      OBVIOUS
    <3> QED BY <3>1, <3>2
  <2>2. DOMAIN e = Sizes /\ \A n \in Sizes : e[n] = 0
    BY <2>1
  <2> HIDE DEF e
  <2>3. SumFunction(e) = 0
    <3>1. IsFiniteSet(DOMAIN e) /\ \A x \in DOMAIN e : e[x] = 0
      BY <2>2, SetsAreFinite
    <3> QED BY <1>4, <3>1
  <2> QED BY <2>3 DEF Orphaned, e
<1>7. ASSUME NEW u \in Players PROVE PlayerPaid(u)
  <2>1. /\ owners[u] = 0 /\ group_used[u] = 0 /\ pending_messages[u] = 0
        /\ \A role \in Roles : owners[<<u, role>>] = 0 /\ step[<<u, role>>] = "idle"
    BY <1>1, SenderIs
  <2>2. owners[<<u, "game">>] = 0 /\ owners[<<u, "pulse">>] = 0
    BY <2>1 DEF Roles
  <2> QED BY <1>2, <1>6, <2>1, <2>2 DEF PlayerPaid
<1>8. BudgetPaid
  BY <1>1, <1>2, <1>5 DEF BudgetPaid
<1>9. Waiting("slot") = 0 /\ Waiting("encoding") = 0
  <2>1. {w \in Senders : step[w] = "slot"} = {} /\ {w \in Senders : step[w] = "encoding"} = {}
    BY <1>1
  <2> QED BY <2>1, FS_EmptySet DEF Waiting
<1>10. Jobs = 0
  BY <1>5, <1>9 DEF Jobs
<1>11. WorkersPaid
  BY <1>1, <1>2, <1>9, <1>10 DEF WorkersPaid
<1> QED BY <1>3, <1>7, <1>8, <1>11 DEF Paying

\* The budget is what the queues, the sends and the encodings left behind
\* really hold (MemoryBudget, and everybody who reserves in it), and the
\* workers are as many as work (the semaphore of NativeService.send), whoever
\* is cancelled where and whatever overflows.
THEOREM BuffersAlwaysPaid == TransportSpec => []BuffersPaid
<1>1. TransportInit => Paying
  BY NothingOwed DEF TransportInit
<1>2. Paying /\ [TransportNext]_<<part, vars, listenerVars, outgoingVars>> => Paying'
  <2> SUFFICES ASSUME Paying, [TransportNext]_<<part, vars, listenerVars, outgoingVars>> PROVE Paying'
    OBVIOUS
  <2>1. CASE UNCHANGED outgoingVars
    <3>1. UNCHANGED <<connection, pending_messages, delivery_failed, step, owners, orphans,
                      used, group_used, encode_slots, encode_waiters>>
      BY <2>1 DEF outgoingVars
    <3>2. OutgoingTypes' /\ BudgetPaid'
      BY <3>1 DEF Paying, OutgoingTypes, BudgetPaid
    <3>3. \A u \in Players : PlayerPaid(u)'
      BY <3>1 DEF Paying, PlayerPaid, Orphaned
    <3>4. WorkersPaid'
      BY <3>1, WorkersSame DEF Paying
    <3> QED BY <3>2, <3>3, <3>4 DEF Paying
  <2>2. CASE OutgoingNext
    <3>1. ASSUME NEW u \in Players, Login(u) \/ Enqueue(u) \/ Disconnect(u) PROVE Paying'
      BY <3>1, QueuesPaid
    <3>2. ASSUME NEW u \in Players, Answer(u) PROVE Paying'
      <4>1. PICK more \in Replies : SendPending(u, "game", more)
        BY <3>2 DEF Answer
      <4>2. more \in Nat /\ "game" \in Roles
        BY OutgoingAssumption DEF OutgoingAssumption, Roles
      <4>3. /\ connection[u] \in {"open", "closing"} /\ step[<<u, "game">>] = "idle"
            /\ UNCHANGED <<delivery_failed, orphans, encode_slots, encode_waiters>>
        BY <3>2 DEF Answer, Runs
      <4> QED BY <4>1, <4>2, <4>3, SentPaid
    <3>3. ASSUME NEW u \in Players, Pulse(u) PROVE Paying'
      BY <3>3, PulsePaid
    <3>4. ASSUME NEW u \in Players, Finish(u) PROVE Paying'
      BY <3>4, FinishPaid
    <3>5. ASSUME NEW w \in Senders, Acquire(w) \/ Encode(w) \/ Encoded(w) \/ Drain(w) PROVE Paying'
      BY <3>5, WorkPaid
    <3>6. ASSUME NEW w \in Senders, Delegate(w) PROVE Paying'
      <4>1. CASE encode_waiters >= EncodeWorkers + EncodeWaiters
        <5>1. /\ Runs(w[1]) /\ step[w] \in {"turn", "drain"} /\ Done(w, TRUE)
              /\ UNCHANGED <<encode_slots, encode_waiters>>
          BY <3>6, <4>1 DEF Delegate
        <5> QED BY <5>1, DonePaid
      <4>2. CASE ~(encode_waiters >= EncodeWorkers + EncodeWaiters)
        <5>1. step' = [step EXCEPT ![w] = "slot"]
          BY <3>6, <4>2 DEF Delegate
        <5>2. step'[w] = "slot"
          BY <5>1, SenderHas
        <5> QED BY <3>6, <5>2, WorkPaid
      <4> QED BY <4>1, <4>2
    <3>7. ASSUME NEW w \in Senders, Drained(w) PROVE Paying'
      <4>1. PICK slow \in BOOLEAN : Done(w, slow)
        BY <3>7 DEF Drained
      <4>2. Runs(w[1]) /\ step[w] \in {"turn", "drain"} /\ UNCHANGED <<encode_slots, encode_waiters>>
        BY <3>7 DEF Drained
      <4> QED BY <4>1, <4>2, DonePaid
    <3>8. ASSUME NEW o \in DOMAIN orphans, OrphanDone(o) PROVE Paying'
      <4>1. o \in Players \X Sizes
        BY DEF Paying, OutgoingTypes
      <4> QED BY <3>8, <4>1, OrphansPaid
    <3> QED BY <2>2, <3>1, <3>2, <3>3, <3>4, <3>5, <3>6, <3>7, <3>8 DEF OutgoingNext
  <2> QED BY <2>1, <2>2 DEF TransportNext
<1>3. Paying => BuffersPaid
  BY DEF Paying, PlayerPaid, BudgetPaid, WorkersPaid, BuffersPaid
<1> QED BY <1>1, <1>2, <1>3, PTL DEF TransportSpec

=============================================================================
