--------------------------- MODULE AccountsProofs ---------------------------
(***************************************************************************)
(* Proofs about the accounts of the public service and about the bridge.   *)
(* What the run checks on three names, one invitation and two calls holds  *)
(* for any number of them and for any limits: nothing is assumed of the    *)
(* sets of names and calls, not even that they are finite, since the calls *)
(* that wait or hash are finitely many at any time.  What it checks on one *)
(* process number, two connections and two engines holds for any number.   *)
(*                                                                         *)
(* Each property needs one more fact than it states.  Sessions: an account *)
(* without a credential has none.  Invitations: two of them never name one *)
(* account.  Guesses: the answers counted never exceed the failures        *)
(* recorded, and a blocked account has reached the tolerance.  Slots: the  *)
(* calls in each stage are a finite set.  Clients: engines and connections *)
(* point at each other as the phases say (Seated, Serving), and a          *)
(* connection that may still use a binding finds it (Rowed).               *)
(***************************************************************************)
EXTENDS NativeBridge, FiniteSetTheorems, TLAPS

\* A session is of the credential its account has, and there is one.
SessionsGranted ==
    \A n \in Names :
        /\ credential[n] # 0 => n \in accounts
        /\ \A k \in DOMAIN sessions[n] :
               sessions[n][k] = credential[n] /\ credential[n] # 0 /\ n \notin disabled
        /\ Len(sessions[n]) <= SessionLimit

\* Each registered account is named by one invitation, and each invitation
\* that was used names one.
InvitesPaired ==
    /\ Legacy \subseteq accounts
    /\ \A n \in accounts \ Legacy : \E i \in Codes : used_by[i] = n
    /\ \A i \in Codes : used_by[i] # None => used_by[i] \in accounts \ Legacy
    /\ \A i, j \in Codes : used_by[i] = used_by[j] /\ used_by[i] # None => i = j

\* The answers of an account, less the blocks served, against its row.
GuessesCounted ==
    \A n \in Names :
        /\ tries[n] <= failures[n]
        /\ n \in blocked => failures[n] = Tolerance /\ tries[n] > 0
        /\ n \notin blocked => tries[n] < Tolerance

\* A call holds a request that its beginning admitted: a registration has an
\* invitation to spend, a reset an account.
CallsTyped ==
    /\ call \in [Calls -> Requests \cup {None}]
    /\ \A c \in Calls :
           /\ call[c] # None /\ call[c].op = "register" => call[c].code \in Codes
           /\ call[c] # None /\ call[c].op = "reset" => call[c].name \in accounts

\* Everything but the pool is of its type.
TableTypes ==
    /\ accounts \subseteq Names /\ disabled \subseteq Names
    /\ credential \in [Names -> Versions]
    /\ sessions \in [Names -> Seq(Versions)]
    /\ failures \in [Names -> 0 .. Tolerance]
    /\ blocked \subseteq Names /\ outdated \subseteq Names
    /\ used_by \in [Codes -> Names \cup {None}]
    /\ void \subseteq Codes
    /\ CallsTyped
    /\ tries \in [Names -> Nat]

\* The calls in a stage of _hash.
InStage(stage) == {c \in Calls : In(c, stage)}

\* The semaphore and the admission counter against the calls.
PoolCounted ==
    /\ IsFiniteSet(InStage("hashing")) /\ IsFiniteSet(InStage("queued"))
    /\ orphans \in Nat
    /\ hash_slots \in Nat
    /\ hash_slots = HashWorkers - (Cardinality(InStage("hashing")) + orphans)
    /\ hash_admitted = Cardinality(InStage("hashing")) + orphans + Cardinality(InStage("queued"))

TableInv == TableTypes /\ SessionsGranted /\ InvitesPaired /\ GuessesCounted

-----------------------------------------------------------------------------
\* The smaller of two numbers.
LEMMA MinOfTwo ==
    ASSUME NEW a \in Int, NEW b \in Int
    PROVE  Min({a, b}) = IF a <= b THEN a ELSE b
<1> DEFINE m == IF a <= b THEN a ELSE b
<1>1. m \in {a, b} /\ \A y \in {a, b} : m <= y
  OBVIOUS
<1>2. \A x \in {a, b} : (\A y \in {a, b} : x <= y) => x = m
  OBVIOUS
<1> QED BY <1>1, <1>2 DEF Min

\* Counting a failure goes one up, to the tolerance at most.
LEMMA CountedIs ==
    ASSUME AccountsAssumption, TableTypes, NEW n \in Names
    PROVE  Counted(n) = IF Tolerance <= failures[n] + 1 THEN Tolerance ELSE failures[n] + 1
<1>1. Tolerance \in Int /\ failures[n] + 1 \in Int
  BY DEF AccountsAssumption, TableTypes
<1> QED BY <1>1, MinOfTwo DEF Counted

\* A grant keeps at most the newest of the rows beside the new one.
LEMMA KeptSessions ==
    ASSUME NEW s \in Seq(Versions), NEW v \in Versions, NEW m \in Nat, m <= Len(s)
    PROVE  /\ <<v>> \o SubSeq(s, 1, m) \in Seq(Versions)
           /\ Len(<<v>> \o SubSeq(s, 1, m)) = m + 1
           /\ \A k \in DOMAIN (<<v>> \o SubSeq(s, 1, m)) :
                  (<<v>> \o SubSeq(s, 1, m))[k] = v \/ \E j \in DOMAIN s : (<<v>> \o SubSeq(s, 1, m))[k] = s[j]
<1> DEFINE rest == SubSeq(s, 1, m)
<1>1. rest \in Seq(Versions) /\ Len(rest) = m /\ \A k \in 1 .. m : rest[k] = s[k]
  OBVIOUS
<1> HIDE DEF rest
<1>2. /\ <<v>> \o rest \in Seq(Versions)
      /\ Len(<<v>> \o rest) = m + 1
      /\ \A k \in 1 .. m + 1 : (<<v>> \o rest)[k] = IF k = 1 THEN v ELSE rest[k - 1]
  BY <1>1
<1>3. \A k \in DOMAIN (<<v>> \o rest) :
         (<<v>> \o rest)[k] = v \/ \E j \in DOMAIN s : (<<v>> \o rest)[k] = s[j]
  <2> SUFFICES ASSUME NEW k \in 2 .. m + 1
               PROVE  \E j \in DOMAIN s : rest[k - 1] = s[j]
    BY <1>2
  <2>1. k - 1 \in 1 .. m /\ k - 1 \in DOMAIN s
    OBVIOUS
  <2> QED BY <1>1, <2>1
<1> QED BY <1>2, <1>3 DEF rest

\* A logout takes one of them away.
LEMMA RemovedSession ==
    ASSUME NEW s \in Seq(Versions), NEW d \in DOMAIN s
    PROVE  /\ RemoveAt(s, d) \in Seq(Versions)
           /\ Len(RemoveAt(s, d)) <= Len(s)
           /\ \A k \in DOMAIN RemoveAt(s, d) : \E j \in DOMAIN s : RemoveAt(s, d)[k] = s[j]
<1> DEFINE a == SubSeq(s, 1, d - 1)
           b == SubSeq(s, d + 1, Len(s))
<1>1. d \in 1 .. Len(s) /\ Len(s) \in Nat
  OBVIOUS
<1>2. a \in Seq(Versions) /\ Len(a) = d - 1 /\ \A k \in 1 .. d - 1 : a[k] = s[k]
  BY <1>1
<1>3. b \in Seq(Versions) /\ Len(b) = Len(s) - d /\ \A k \in 1 .. Len(s) - d : b[k] = s[d + k]
  BY <1>1
<1> HIDE DEF a, b
<1>4. /\ a \o b \in Seq(Versions)
      /\ Len(a \o b) = Len(s) - 1
      /\ \A k \in 1 .. Len(s) - 1 : (a \o b)[k] = IF k <= d - 1 THEN a[k] ELSE b[k - (d - 1)]
  BY SMTT(30), <1>1, <1>2, <1>3
<1>5. RemoveAt(s, d) = a \o b
  BY DEF RemoveAt, a, b
<1>8. DOMAIN (a \o b) = 1 .. Len(s) - 1
  BY <1>1, <1>4
<1>6. \A k \in DOMAIN (a \o b) : \E j \in DOMAIN s : (a \o b)[k] = s[j]
  <2> SUFFICES ASSUME NEW k \in 1 .. Len(s) - 1
               PROVE  \E j \in DOMAIN s : (a \o b)[k] = s[j]
    BY <1>8
  <2>1. CASE k <= d - 1
    BY SMTT(30), <1>1, <1>2, <1>4, <2>1
  <2>2. CASE ~(k <= d - 1)
    <3>1. k - (d - 1) \in 1 .. Len(s) - d /\ d + (k - (d - 1)) = k + 1 /\ k + 1 \in DOMAIN s
      BY <1>1, <2>2
    <3> QED BY <1>3, <1>4, <2>2, <3>1
  <2> QED BY <2>1, <2>2
<1>7. Len(a \o b) <= Len(s)
  BY <1>1, <1>4
<1> QED BY <1>4, <1>5, <1>6, <1>7

-----------------------------------------------------------------------------
\* A call that is waiting, hashing or hashed holds a request.
LEMMA CallIs ==
    ASSUME AccountsAssumption, TableTypes, NEW c \in Calls, call[c] # None
    PROVE  /\ call[c] \in Requests
           /\ call[c].name \in Names /\ call[c].row \in Versions /\ call[c].code \in Codes \cup {None}
BY DEF TableTypes, CallsTyped, Requests

\* A new call, the next stage of one and its end are all of the type.
LEMMA CallStep ==
    ASSUME AccountsAssumption, TableTypes, NEW c \in Calls, accounts \subseteq accounts',
           \/ UNCHANGED call
           \/ \E n \in Names, op \in {"register", "login", "reset"}, typed \in Passwords, code \in Codes \cup {None} :
                  /\ Queue(c, op, n, typed, code)
                  /\ op = "register" => code \in Codes
                  /\ op = "reset" => n \in accounts
           \/ call[c] # None /\ \E stage \in {"hashing", "hashed"} : call' = [call EXCEPT ![c].stage = stage]
           \/ call' = [call EXCEPT ![c] = None]
    PROVE  CallsTyped'
<1> USE DEF CallsTyped
<1>1. CASE UNCHANGED call
  BY <1>1 DEF TableTypes
<1>2. ASSUME NEW n \in Names, NEW op \in {"register", "login", "reset"}, NEW typed \in Passwords,
             NEW code \in Codes \cup {None}, Queue(c, op, n, typed, code),
             op = "register" => code \in Codes, op = "reset" => n \in accounts
      PROVE  CallsTyped'
  <2> DEFINE k == [op |-> op, name |-> n, row |-> credential[n], typed |-> typed, code |-> code, stage |-> "queued"]
  <2>1. k \in Requests /\ k.op = op /\ k.code = code /\ k.name = n
    BY DEF TableTypes, Requests
  <2>2. call' = [call EXCEPT ![c] = k]
    BY <1>2 DEF Queue
  <2> HIDE DEF k
  <2> QED BY <1>2, <2>1, <2>2 DEF TableTypes
<1>3. ASSUME call[c] # None, NEW stage \in {"hashing", "hashed"}, call' = [call EXCEPT ![c].stage = stage]
      PROVE  CallsTyped'
  <2> DEFINE k == [call[c] EXCEPT !.stage = stage]
  <2>1. k \in Requests /\ k.op = call[c].op /\ k.code = call[c].code /\ k.name = call[c].name
    BY <1>3, CallIs DEF Requests
  <2>2. call' = [call EXCEPT ![c] = k]
    BY <1>3
  <2> HIDE DEF k
  <2> QED BY ZenonT(60), <1>3, <2>1, <2>2 DEF TableTypes
<1>4. CASE call' = [call EXCEPT ![c] = None]
  BY <1>4 DEF TableTypes
<1> QED BY <1>1, <1>2, <1>3, <1>4

-----------------------------------------------------------------------------
\* Forgetting the failures of some accounts keeps the counts of the others.
LEMMA ForgivenCounts ==
    ASSUME AccountsAssumption, TableTypes, GuessesCounted, NEW N, Forgiven(N)
    PROVE  /\ GuessesCounted'
           /\ failures' \in [Names -> 0 .. Tolerance] /\ tries' \in [Names -> Nat]
           /\ blocked' \subseteq Names /\ outdated' \subseteq Names
BY DEF AccountsAssumption, TableTypes, GuessesCounted, Forgiven

\* One more answer is one more failure, and the last one tolerated blocks.
LEMMA FailCounts ==
    ASSUME AccountsAssumption, TableTypes, GuessesCounted, NEW n \in Names, n \notin blocked, Fail(n)
    PROVE  /\ GuessesCounted'
           /\ failures' \in [Names -> 0 .. Tolerance] /\ tries' \in [Names -> Nat]
           /\ blocked' \subseteq Names /\ outdated' \subseteq Names
<1>1. CASE UNCHANGED <<failures, blocked, outdated, tries>>
  BY <1>1 DEF TableTypes, GuessesCounted
<1>2. CASE /\ failures' = [failures EXCEPT ![n] = Counted(n)]
           /\ blocked' = IF Counted(n) >= Tolerance THEN blocked \cup {n} ELSE blocked
           /\ outdated' = outdated \ {n}
           /\ tries' = [tries EXCEPT ![n] = @ + 1]
  <2> DEFINE f == Counted(n)
  <2>1. f = IF Tolerance <= failures[n] + 1 THEN Tolerance ELSE failures[n] + 1
    BY CountedIs
  <2>2. Tolerance \in Nat \ {0} /\ failures[n] \in 0 .. Tolerance /\ tries[n] \in Nat
    BY DEF AccountsAssumption, TableTypes
  <2>3. tries[n] <= failures[n] /\ tries[n] < Tolerance
    BY DEF GuessesCounted
  <2>4. f \in 0 .. Tolerance /\ tries[n] + 1 <= f
    BY <2>1, <2>2, <2>3
  <2> HIDE DEF f
  <2>5. failures' \in [Names -> 0 .. Tolerance] /\ tries' \in [Names -> Nat]
    BY <1>2, <2>4 DEF TableTypes, f
  <2>6. GuessesCounted'
    <3> SUFFICES ASSUME NEW m \in Names
                 PROVE  /\ tries'[m] <= failures'[m]
                        /\ m \in blocked' => failures'[m] = Tolerance /\ tries'[m] > 0
                        /\ m \notin blocked' => tries'[m] < Tolerance
      BY DEF GuessesCounted
    <3>1. CASE m = n
      BY <1>2, <2>2, <2>3, <2>4, <3>1 DEF TableTypes, f
    <3>2. CASE m # n
      BY <1>2, <3>2 DEF TableTypes, GuessesCounted
    <3> QED BY <3>1, <3>2
  <2> QED BY <1>2, <2>5, <2>6 DEF TableTypes
<1> QED BY <1>1, <1>2 DEF Fail

-----------------------------------------------------------------------------
\* Steps of the pool and the beginnings of calls change no table but, for a
\* login, the failures that are an hour old.
LEMMA WaitingStep ==
    ASSUME TableInv, NEW c \in Calls,
           \/ \E n \in Names, i \in Codes : RegisterStart(c, n, i)
           \/ \E n \in Subjects, v \in Passwords : LoginStart(c, n, v)
           \/ \E n \in Administered : ResetStart(c, n)
           \/ StartHash(c) \/ Hashed(c) \/ Cancel(c)
    PROVE  TableInv'
<1> USE AccountsAssumption DEF TableInv
<1>1. ASSUME CallsTyped', UNCHANGED tables
      PROVE  TableInv'
  BY <1>1 DEF tables, TableTypes, SessionsGranted, InvitesPaired, GuessesCounted
<1>2. 1 \in Passwords /\ Subjects \subseteq Names /\ Administered \subseteq Names
  BY DEF AccountsAssumption, Passwords
<1>3. ASSUME NEW n \in Names, NEW i \in Codes, RegisterStart(c, n, i) PROVE TableInv'
  BY <1>1, <1>2, <1>3, CallStep DEF RegisterStart, tables
<1>4. ASSUME NEW n \in Subjects, NEW v \in Passwords, LoginStart(c, n, v) PROVE TableInv'
  <2>1. CallsTyped'
    BY <1>2, <1>4, CallStep DEF LoginStart
  <2>2. /\ GuessesCounted'
        /\ failures' \in [Names -> 0 .. Tolerance] /\ tries' \in [Names -> Nat]
        /\ blocked' \subseteq Names /\ outdated' \subseteq Names
    BY <1>4, ForgivenCounts DEF LoginStart
  <2> QED BY <1>4, <2>1, <2>2 DEF LoginStart, TableTypes, SessionsGranted, InvitesPaired
<1>5. ASSUME NEW n \in Administered, ResetStart(c, n) PROVE TableInv'
  BY <1>1, <1>2, <1>5, CallStep DEF ResetStart, tables
<1>6. CASE StartHash(c) \/ Hashed(c) \/ Cancel(c)
  BY <1>1, <1>6, CallStep DEF StartHash, Hashed, Cancel, In, tables
<1> QED BY <1>3, <1>4, <1>5, <1>6

\* Nor does a job without a caller, or a restart.
LEMMA PoolStep ==
    ASSUME TableInv, OrphanHashed \/ Restart
    PROVE  TableInv'
BY DEF OrphanHashed, Restart, tables, TableInv, TableTypes, CallsTyped, SessionsGranted, InvitesPaired, GuessesCounted

\* A registration pairs a new account with an invitation nobody had.
LEMMA RegisterStep ==
    ASSUME TableInv, NEW c \in Calls, Register(c)
    PROVE  TableInv'
<1> USE AccountsAssumption DEF TableInv
<1> DEFINE n == call[c].name
           i == call[c].code
<1>1. CallsTyped'
  BY CallStep DEF Register, Decides
<1>2. n \in Names /\ i \in Codes \cup {None} /\ 1 \in Versions
  BY CallIs DEF Register, Decides, In, AccountsAssumption, Versions
<1>3. UNCHANGED <<disabled, sessions, failures, blocked, outdated, void, tries>>
  BY DEF Register
<1>4. CASE UNCHANGED <<accounts, credential, used_by>>
  BY <1>1, <1>3, <1>4 DEF TableTypes, SessionsGranted, InvitesPaired, GuessesCounted
<1>5. CASE /\ n \notin accounts /\ i \in Codes /\ used_by[i] = None
           /\ accounts' = accounts \cup {n}
           /\ credential' = [credential EXCEPT ![n] = 1]
           /\ used_by' = [used_by EXCEPT ![i] = n]
  <2> HIDE DEF n, i
  <2>1. TableTypes'
    BY <1>1, <1>2, <1>3, <1>5 DEF TableTypes
  <2>2. SessionsGranted'
    BY <1>2, <1>3, <1>5 DEF TableTypes, SessionsGranted
  <2>3. InvitesPaired'
    <3>1. n # None /\ n \notin Legacy
      BY <1>2, <1>5 DEF InvitesPaired, AccountsAssumption
    <3> QED BY <1>2, <1>5, <3>1 DEF TableTypes, InvitesPaired
  <2>4. GuessesCounted'
    BY <1>3 DEF GuessesCounted
  <2> QED BY <2>1, <2>2, <2>3, <2>4
<1>6. i \in Codes
  BY DEF Register, Decides, In, TableTypes, CallsTyped
<1> QED BY <1>2, <1>4, <1>5, <1>6 DEF Register, Consumes, Redeemable

\* A login grants a session for the credential it found in the same
\* transaction, or counts a failure of an account that is not blocked.
LEMMA LoginStep ==
    ASSUME TableInv, NEW c \in Calls, Login(c)
    PROVE  TableInv'
<1> USE AccountsAssumption DEF TableInv
<1> DEFINE n == call[c].name
           v == call[c].row
<1>1. CallsTyped'
  BY CallStep DEF Login, Decides
<1>2. n \in Names /\ v \in Versions
  BY CallIs DEF Login, Decides, In
<1>3. UNCHANGED <<accounts, credential, disabled, used_by, void>>
  BY DEF Login
<1>4. CASE UNCHANGED <<sessions, failures, blocked, outdated, tries>>
  BY <1>1, <1>3, <1>4 DEF TableTypes, SessionsGranted, InvitesPaired, GuessesCounted
<1>5. CASE n \notin blocked /\ Fail(n) /\ UNCHANGED sessions
  <2> HIDE DEF n
  <2>1. /\ GuessesCounted'
        /\ failures' \in [Names -> 0 .. Tolerance] /\ tries' \in [Names -> Nat]
        /\ blocked' \subseteq Names /\ outdated' \subseteq Names
    BY <1>2, <1>5, FailCounts
  <2> QED BY <1>1, <1>3, <1>5, <2>1 DEF TableTypes, SessionsGranted, InvitesPaired
<1>6. CASE Valid(call[c]) /\ Forgiven(outdated \cup {n}) /\ Grant(n, v)
  <2>1. v # 0 /\ credential[n] = v /\ n \notin disabled
    BY <1>6 DEF Valid
  <2> HIDE DEF n, v
  <2>2. /\ GuessesCounted'
        /\ failures' \in [Names -> 0 .. Tolerance] /\ tries' \in [Names -> Nat]
        /\ blocked' \subseteq Names /\ outdated' \subseteq Names
    BY <1>6, ForgivenCounts
  <2> DEFINE kept == <<v>> \o SubSeq(sessions[n], 1, Min({SessionLimit - 1, Len(sessions[n])}))
  <2>3. /\ kept \in Seq(Versions)
        /\ Len(kept) <= SessionLimit
        /\ \A k \in DOMAIN kept : kept[k] = v \/ \E j \in DOMAIN sessions[n] : kept[k] = sessions[n][j]
    <3>1. sessions[n] \in Seq(Versions) /\ v \in Versions /\ SessionLimit \in Nat \ {0}
      BY <1>2 DEF TableTypes, AccountsAssumption
    <3> DEFINE s == sessions[n]
               m == Min({SessionLimit - 1, Len(s)})
    <3>2. m \in Nat /\ m <= SessionLimit - 1 /\ m <= Len(s)
      <4>1. SessionLimit - 1 \in Nat /\ Len(s) \in Nat
        BY <3>1
      <4>2. m = IF SessionLimit - 1 <= Len(s) THEN SessionLimit - 1 ELSE Len(s)
        BY <4>1, MinOfTwo
      <4> HIDE DEF m, s
      <4> QED BY <4>1, <4>2
    <3>3. kept = <<v>> \o SubSeq(s, 1, m)
      OBVIOUS
    <3>4. s \in Seq(Versions)
      BY <3>1
    <3> HIDE DEF kept, m, s
    <3>5. /\ kept \in Seq(Versions)
          /\ Len(kept) = m + 1
          /\ \A k \in DOMAIN kept : kept[k] = v \/ \E j \in DOMAIN s : kept[k] = s[j]
      BY <3>1, <3>2, <3>3, <3>4, KeptSessions
    <3> QED BY <3>1, <3>2, <3>5 DEF s
  <2>4. sessions' = [sessions EXCEPT ![n] = kept]
    BY <1>6 DEF Grant
  <2> HIDE DEF kept
  <2>5. sessions' \in [Names -> Seq(Versions)]
    BY <2>3, <2>4 DEF TableTypes
  <2>6. SessionsGranted'
    BY <1>2, <1>3, <2>1, <2>3, <2>4 DEF TableTypes, SessionsGranted
  <2> QED BY <1>1, <1>3, <2>2, <2>5, <2>6 DEF TableTypes, InvitesPaired
<1> QED BY <1>4, <1>5, <1>6 DEF Login, Admitted

\* A new credential, a suspension, a logout or time passing leaves no session
\* of an older credential and no account without its invitation.
LEMMA AccountStep ==
    ASSUME TableInv,
           \/ \E c \in Calls : Reset(c)
           \/ \E i \in Codes : RevokeInvite(i)
           \/ \E n \in Names : EndSession(n) \/ Unblock(n) \/ Age(n) \/ Disable(n)
    PROVE  TableInv'
<1> USE AccountsAssumption DEF TableInv
<1>1. ASSUME NEW c \in Calls, Reset(c) PROVE TableInv'
  <2> DEFINE n == call[c].name
  <2>1. CallsTyped'
    BY <1>1, CallStep DEF Reset, Decides
  <2>2. n \in Names
    BY <1>1, CallIs DEF Reset, Decides, In
  <2>3. /\ credential[n] < MaxVersion
        /\ credential' = [credential EXCEPT ![n] = @ + 1]
        /\ sessions' = [sessions EXCEPT ![n] = <<>>]
        /\ Forgiven({n})
        /\ UNCHANGED <<accounts, disabled, used_by, void>>
    BY <1>1 DEF Reset
  <2> HIDE DEF n
  <2>4. /\ GuessesCounted'
        /\ failures' \in [Names -> 0 .. Tolerance] /\ tries' \in [Names -> Nat]
        /\ blocked' \subseteq Names /\ outdated' \subseteq Names
    BY <2>3, ForgivenCounts
  <2>5. credential' \in [Names -> Versions] /\ sessions' \in [Names -> Seq(Versions)]
    BY <2>2, <2>3 DEF TableTypes, Versions, AccountsAssumption
  <2>6. SessionsGranted'
    <3>1. n \in accounts
      BY <1>1 DEF Reset, Decides, In, TableTypes, CallsTyped, n
    <3> QED BY <2>2, <2>3, <3>1 DEF TableTypes, SessionsGranted, AccountsAssumption
  <2> QED BY <2>1, <2>3, <2>4, <2>5, <2>6 DEF TableTypes, InvitesPaired
<1>2. ASSUME NEW i \in Codes, RevokeInvite(i) PROVE TableInv'
  BY <1>2 DEF RevokeInvite, TableTypes, CallsTyped, SessionsGranted, InvitesPaired, GuessesCounted
<1>3. ASSUME NEW n \in Names, EndSession(n) PROVE TableInv'
  <2>1. PICK d \in DOMAIN sessions[n] : sessions' = [sessions EXCEPT ![n] = RemoveAt(@, d)]
    BY <1>3 DEF EndSession
  <2>2. UNCHANGED <<accounts, credential, disabled, failures, blocked, outdated, used_by, void, tries, call>>
    BY <1>3 DEF EndSession
  <2> DEFINE kept == RemoveAt(sessions[n], d)
  <2>3. /\ kept \in Seq(Versions)
        /\ Len(kept) <= Len(sessions[n])
        /\ \A k \in DOMAIN kept : \E j \in DOMAIN sessions[n] : kept[k] = sessions[n][j]
    BY RemovedSession DEF TableTypes
  <2>4. sessions' = [sessions EXCEPT ![n] = kept]
    BY <2>1
  <2> HIDE DEF kept
  <2>5. SessionsGranted'
    BY <2>2, <2>3, <2>4 DEF TableTypes, SessionsGranted, AccountsAssumption
  <2> QED BY <2>2, <2>3, <2>4, <2>5 DEF TableTypes, CallsTyped, InvitesPaired, GuessesCounted
<1>4. ASSUME NEW n \in Names, Unblock(n) PROVE TableInv'
  BY <1>4 DEF Unblock, TableTypes, CallsTyped, SessionsGranted, InvitesPaired, GuessesCounted, AccountsAssumption
<1>5. ASSUME NEW n \in Names, Age(n) PROVE TableInv'
  BY <1>5 DEF Age, TableTypes, CallsTyped, SessionsGranted, InvitesPaired, GuessesCounted
<1>6. ASSUME NEW n \in Names, Disable(n) PROVE TableInv'
  <2>1. SessionsGranted'
    <3>1. /\ sessions' = [sessions EXCEPT ![n] = <<>>] /\ disabled' = disabled \cup {n}
          /\ UNCHANGED <<accounts, credential>>
      BY <1>6 DEF Disable
    <3>2. SessionLimit >= 0 /\ DOMAIN <<>> = {} /\ Len(<<>>) = 0
      BY DEF AccountsAssumption
    <3> QED BY <3>1, <3>2 DEF TableTypes, SessionsGranted
  <2> QED BY <1>6, <2>1 DEF Disable, TableTypes, CallsTyped, InvitesPaired, GuessesCounted
<1> QED BY <1>1, <1>2, <1>3, <1>4, <1>5, <1>6

LEMMA TablesInvariant == Spec => []TableInv
<1>1. Init => TableInv
  BY AccountsAssumption DEF Init, TableInv, TableTypes, CallsTyped, SessionsGranted, InvitesPaired, GuessesCounted,
                            AccountsAssumption, Versions
<1>2. TableInv /\ Next => TableInv'
  <2> SUFFICES ASSUME TableInv, Next PROVE TableInv'
    OBVIOUS
  <2>1. Subjects \subseteq Names /\ Administered \subseteq Names
    BY AccountsAssumption DEF AccountsAssumption
  <2>2. CASE \E c \in Calls : \/ \E n \in Names, i \in Codes : RegisterStart(c, n, i)
                              \/ \E n \in Subjects, v \in Passwords : LoginStart(c, n, v)
                              \/ \E n \in Administered : ResetStart(c, n)
                              \/ StartHash(c) \/ Hashed(c) \/ Cancel(c)
    BY <2>2, WaitingStep
  <2>3. CASE \E c \in Calls : Register(c) \/ Login(c) \/ Reset(c)
    BY <2>3, RegisterStep, LoginStep, AccountStep
  <2>4. CASE OrphanHashed \/ Restart
    BY <2>4, PoolStep
  <2>5. CASE \/ \E i \in Codes : RevokeInvite(i)
             \/ \E n \in Subjects : EndSession(n) \/ Unblock(n) \/ Age(n)
             \/ \E n \in Administered : Disable(n)
    BY <2>1, <2>5, AccountStep
  <2> QED BY <2>2, <2>3, <2>4, <2>5 DEF Next
<1>3. TableInv /\ UNCHANGED vars => TableInv'
  BY DEF vars, tables, TableInv, TableTypes, CallsTyped, SessionsGranted, InvitesPaired, GuessesCounted
<1> QED BY <1>1, <1>2, <1>3, PTL DEF Spec

-----------------------------------------------------------------------------
\* One more or one less call in a stage is one more or one less of its number.
LEMMA Joined ==
    ASSUME NEW S, IsFiniteSet(S), NEW c, c \notin S
    PROVE  IsFiniteSet(S \cup {c}) /\ Cardinality(S \cup {c}) = Cardinality(S) + 1 /\ Cardinality(S) \in Nat
BY FS_AddElement, FS_CardinalityType

LEMMA Parted ==
    ASSUME NEW S, IsFiniteSet(S), NEW c, c \in S
    PROVE  IsFiniteSet(S \ {c}) /\ Cardinality(S \ {c}) = Cardinality(S) - 1 /\ Cardinality(S) \in Nat
BY FS_RemoveElement, FS_CardinalityType

\* A call that begins waits; nothing else moves.
LEMMA QueueCounts ==
    ASSUME TableInv, PoolCounted, NEW c \in Calls, NEW n \in Names, NEW op \in {"register", "login", "reset"},
           NEW typed \in Passwords, NEW code \in Codes \cup {None}, Queue(c, op, n, typed, code)
    PROVE  PoolCounted'
<1> DEFINE k == [op |-> op, name |-> n, row |-> credential[n], typed |-> typed, code |-> code, stage |-> "queued"]
<1>1. k # None /\ k.stage = "queued"
  BY AccountsAssumption DEF TableInv, TableTypes, AccountsAssumption, Requests
<1>2. /\ call[c] = None /\ call' = [call EXCEPT ![c] = k]
      /\ hash_admitted' = hash_admitted + 1 /\ UNCHANGED <<hash_slots, orphans>>
  BY DEF Queue
<1>3. call \in [Calls -> Requests \cup {None}]
  BY DEF TableInv, TableTypes, CallsTyped
<1> HIDE DEF k
<1>4. /\ InStage("hashing")' = InStage("hashing")
      /\ InStage("queued")' = InStage("queued") \cup {c}
      /\ c \notin InStage("queued")
  BY <1>1, <1>2, <1>3 DEF InStage, In
<1> DEFINE H == InStage("hashing")
           Q == InStage("queued")
<1> HIDE DEF H, Q
<1>5. Cardinality(H) \in Nat
  BY FS_CardinalityType DEF PoolCounted, H
<1>6. IsFiniteSet(Q') /\ Cardinality(Q') = Cardinality(Q) + 1 /\ Cardinality(Q) \in Nat /\ H' = H
  BY <1>4, Joined DEF PoolCounted, H, Q
<1> QED BY <1>2, <1>5, <1>6, AccountsAssumption DEF PoolCounted, H, Q, AccountsAssumption

\* A job begins with a slot and ends with one, with or without its caller,
\* and a caller that goes away leaves its job behind.
LEMMA JobCounts ==
    ASSUME TableInv, PoolCounted, NEW c \in Calls, StartHash(c) \/ Hashed(c) \/ Cancel(c)
    PROVE  PoolCounted'
<1> DEFINE H == InStage("hashing")
           Q == InStage("queued")
<1>1. call \in [Calls -> Requests \cup {None}] /\ None \notin Requests
  BY AccountsAssumption DEF TableInv, TableTypes, CallsTyped, AccountsAssumption
<1>2. /\ IsFiniteSet(H) /\ IsFiniteSet(Q) /\ Cardinality(H) \in Nat /\ Cardinality(Q) \in Nat
      /\ orphans \in Nat /\ hash_slots \in Nat /\ HashWorkers \in Nat
  BY FS_CardinalityType, AccountsAssumption DEF PoolCounted, AccountsAssumption
<1>3. CASE StartHash(c)
  <2>1. H' = H \cup {c} /\ Q' = Q \ {c} /\ c \in Q /\ c \notin H
    <3>1. [call[c] EXCEPT !.stage = "hashing"] \in Requests
      BY <1>1, <1>3 DEF StartHash, In, Requests
    <3>2. call' = [call EXCEPT ![c] = [call[c] EXCEPT !.stage = "hashing"]]
      BY <1>3 DEF StartHash
    <3>3. [call[c] EXCEPT !.stage = "hashing"].stage = "hashing"
      BY <1>1, <1>3 DEF StartHash, In, Requests
    <3> QED BY <1>1, <1>3, <3>1, <3>2, <3>3 DEF StartHash, InStage, In
  <2>2. hash_slots > 0 /\ hash_slots' = hash_slots - 1 /\ UNCHANGED <<hash_admitted, orphans>>
    BY <1>3 DEF StartHash
  <2> HIDE DEF H, Q
  <2>3. /\ IsFiniteSet(H') /\ IsFiniteSet(Q')
        /\ Cardinality(H') = Cardinality(H) + 1 /\ Cardinality(Q') = Cardinality(Q) - 1
    BY <1>2, <2>1, Joined, Parted
  <2> QED BY <1>2, <2>2, <2>3 DEF PoolCounted, H, Q
<1>4. CASE Hashed(c)
  <2>1. H' = H \ {c} /\ Q' = Q /\ c \in H
    <3>1. [call[c] EXCEPT !.stage = "hashed"] \in Requests
      BY <1>1, <1>4 DEF Hashed, In, Requests
    <3>2. call' = [call EXCEPT ![c] = [call[c] EXCEPT !.stage = "hashed"]]
      BY <1>4 DEF Hashed
    <3>3. [call[c] EXCEPT !.stage = "hashed"].stage = "hashed"
      BY <1>1, <1>4 DEF Hashed, In, Requests
    <3> QED BY <1>1, <1>4, <3>1, <3>2, <3>3 DEF Hashed, InStage, In
  <2>2. hash_slots' = hash_slots + 1 /\ hash_admitted' = hash_admitted - 1 /\ UNCHANGED orphans
    BY <1>4 DEF Hashed, tables
  <2> HIDE DEF H, Q
  <2>3. IsFiniteSet(H') /\ Cardinality(H') = Cardinality(H) - 1
    BY <1>2, <2>1, Parted
  <2> QED BY <1>2, <2>1, <2>2, <2>3 DEF PoolCounted, H, Q
<1>5. CASE Cancel(c)
  <2>1. H' = H \ {c} /\ Q' = Q \ {c} /\ (c \in H <=> In(c, "hashing")) /\ (c \in Q <=> In(c, "queued"))
    BY <1>1, <1>5 DEF Cancel, InStage, In
  <2>2. ~(c \in H /\ c \in Q)
    BY DEF InStage, In
  <2>3. /\ hash_admitted' = IF c \in Q THEN hash_admitted - 1 ELSE hash_admitted
        /\ orphans' = IF c \in H THEN orphans + 1 ELSE orphans
        /\ UNCHANGED hash_slots
    BY <1>5, <2>1 DEF Cancel, Releases
  <2> HIDE DEF H, Q
  <2>4. CASE c \in H
    <3>1. IsFiniteSet(H') /\ Cardinality(H') = Cardinality(H) - 1 /\ Q' = Q
      BY <1>2, <2>1, <2>2, <2>4, Parted
    <3> QED BY <1>2, <2>2, <2>3, <2>4, <3>1 DEF PoolCounted, H, Q
  <2>5. CASE c \in Q
    <3>1. IsFiniteSet(Q') /\ Cardinality(Q') = Cardinality(Q) - 1 /\ H' = H
      BY <1>2, <2>1, <2>2, <2>5, Parted
    <3> QED BY <1>2, <2>2, <2>3, <2>5, <3>1 DEF PoolCounted, H, Q
  <2>6. CASE c \notin H /\ c \notin Q
    <3>1. H' = H /\ Q' = Q
      BY <2>1, <2>6
    <3> QED BY <1>2, <2>3, <2>6, <3>1 DEF PoolCounted, H, Q
  <2> QED BY <2>4, <2>5, <2>6
<1> QED BY <1>3, <1>4, <1>5

\* A decision ends a call that has given its slot back.
LEMMA DecisionCounts ==
    ASSUME TableInv, PoolCounted, NEW c \in Calls, NEW op, Decides(c, op)
    PROVE  PoolCounted'
<1>1. call \in [Calls -> Requests \cup {None}]
  BY DEF TableInv, TableTypes, CallsTyped
<1>2. InStage("hashing")' = InStage("hashing") /\ InStage("queued")' = InStage("queued")
  BY <1>1 DEF Decides, InStage, In
<1> QED BY <1>2 DEF Decides, pool, PoolCounted

LEMMA PoolInvariant == Spec => []PoolCounted
<1>1. Init => PoolCounted
  <2> SUFFICES ASSUME Init PROVE PoolCounted
    OBVIOUS
  <2>1. InStage("hashing") = {} /\ InStage("queued") = {}
    BY DEF Init, InStage, In
  <2>2. IsFiniteSet({}) /\ Cardinality({}) = 0
    BY FS_EmptySet
  <2>3. hash_slots = HashWorkers /\ hash_admitted = 0 /\ orphans = 0 /\ HashWorkers \in Nat
    BY AccountsAssumption DEF Init, AccountsAssumption
  <2> QED BY <2>1, <2>2, <2>3 DEF PoolCounted
<1>2. TableInv /\ PoolCounted /\ Next => PoolCounted'
  <2> SUFFICES ASSUME TableInv, PoolCounted, Next PROVE PoolCounted'
    OBVIOUS
  <2>1. Subjects \subseteq Names /\ Administered \subseteq Names /\ 1 \in Passwords
    BY AccountsAssumption DEF AccountsAssumption, Passwords
  <2>9. IsFiniteSet({}) /\ Cardinality({}) = 0
    BY FS_EmptySet
  <2>2. CASE \E c \in Calls : \/ \E n \in Names, i \in Codes : RegisterStart(c, n, i)
                              \/ \E n \in Subjects, v \in Passwords : LoginStart(c, n, v)
                              \/ \E n \in Administered : ResetStart(c, n)
    BY <2>1, <2>2, QueueCounts DEF RegisterStart, LoginStart, ResetStart
  <2>3. CASE \E c \in Calls : StartHash(c) \/ Hashed(c) \/ Cancel(c)
    BY <2>3, JobCounts
  <2>4. CASE \E c \in Calls : Register(c) \/ Login(c) \/ Reset(c)
    BY <2>4, DecisionCounts DEF Register, Login, Reset
  <2>5. CASE OrphanHashed
    <3>1. InStage("hashing")' = InStage("hashing") /\ InStage("queued")' = InStage("queued")
      BY <2>5 DEF OrphanHashed, InStage, In
    <3>2. Cardinality(InStage("hashing")) \in Nat /\ Cardinality(InStage("queued")) \in Nat
      BY FS_CardinalityType DEF PoolCounted
    <3> HIDE DEF InStage
    <3>3. /\ orphans \in Nat /\ orphans > 0 /\ orphans' = orphans - 1 /\ HashWorkers \in Nat
          /\ hash_slots' = hash_slots + 1 /\ hash_admitted' = hash_admitted - 1
      BY <2>5, AccountsAssumption DEF OrphanHashed, PoolCounted, AccountsAssumption
    <3> QED BY <3>1, <3>2, <3>3 DEF PoolCounted
  <2>6. CASE Restart
    <3>1. InStage("hashing")' = {} /\ InStage("queued")' = {}
      BY <2>6 DEF Restart, InStage, In
    <3>2. /\ IsFiniteSet(InStage("hashing")') /\ Cardinality(InStage("hashing")') = 0
          /\ IsFiniteSet(InStage("queued")') /\ Cardinality(InStage("queued")') = 0
      <4> HIDE DEF InStage
      <4> QED BY <2>9, <3>1
    <3>3. hash_slots' = HashWorkers /\ hash_admitted' = 0 /\ orphans' = 0 /\ HashWorkers \in Nat
      BY <2>6, AccountsAssumption DEF Restart, AccountsAssumption
    <3> HIDE DEF InStage
    <3> QED BY <3>2, <3>3 DEF PoolCounted
  <2>7. CASE UNCHANGED <<call, pool>>
    BY <2>7 DEF pool, PoolCounted, InStage, In
  <2>8. CASE \/ \E i \in Codes : RevokeInvite(i)
             \/ \E n \in Subjects : EndSession(n) \/ Unblock(n) \/ Age(n)
             \/ \E n \in Administered : Disable(n)
    BY <2>7, <2>8 DEF RevokeInvite, EndSession, Unblock, Age, Disable
  <2> QED BY <2>2, <2>3, <2>4, <2>5, <2>6, <2>8 DEF Next
<1>3. PoolCounted /\ UNCHANGED vars => PoolCounted'
  BY DEF vars, pool, PoolCounted, InStage, In
<1> QED BY <1>1, <1>2, <1>3, TablesInvariant, PTL DEF Spec

-----------------------------------------------------------------------------
\* Nobody is logged in with a credential the account no longer has, or while
\* it is disabled, however long a login waited for its hash and whatever was
\* reset meanwhile (PublicAuthManager.login, set_local_password, disable);
\* and no account has more than SessionLimit sessions.
THEOREM SessionsAlwaysCurrent == Spec => []SessionsCurrent
<1>1. TableInv /\ PoolCounted => SessionsCurrent
  <2>1. ASSUME PoolCounted PROVE hash_slots \in Nat /\ hash_admitted \in Nat /\ orphans \in Nat
    BY <2>1, FS_CardinalityType DEF PoolCounted
  <2> QED BY <2>1 DEF TableInv, TableTypes, CallsTyped, SessionsGranted, SessionsCurrent, TypeOK
<1> QED BY <1>1, TablesInvariant, PoolInvariant, PTL

\* Every registered account spent one invitation of its own, whatever order
\* the calls that held the same code or wanted the same name were decided in
\* (PublicAuthManager.register, consume).
THEOREM InvitesAlwaysSpent == Spec => []InvitesSpent
<1>1. TableInv => InvitesSpent
  <2> SUFFICES ASSUME TableInv PROVE InvitesSpent
    OBVIOUS
  <2>1. ASSUME NEW n \in accounts \ Legacy
        PROVE  Cardinality({i \in Codes : used_by[i] = n}) = 1
    <3>1. PICK i \in Codes : used_by[i] = n
      BY DEF TableInv, InvitesPaired
    <3>2. n # None
      BY AccountsAssumption DEF TableInv, TableTypes, AccountsAssumption
    <3>3. {j \in Codes : used_by[j] = n} = {i}
      BY <3>1, <3>2 DEF TableInv, InvitesPaired
    <3> QED BY <3>3, FS_Singleton
  <2> QED BY <2>1 DEF InvitesSpent, TableInv, TableTypes, InvitesPaired
<1> QED BY <1>1, TablesInvariant, PTL

\* One answer per block after the first Tolerance, although a block may begin
\* while any number of guesses are being hashed (record_failure, login).
THEOREM GuessesAlwaysPaced == Spec => []GuessesPaced
<1>1. TableInv => GuessesPaced
  BY AccountsAssumption DEF TableInv, TableTypes, GuessesCounted, GuessesPaced, AccountsAssumption
<1> QED BY <1>1, TablesInvariant, PTL

\* No slot of the hashing pool is lost or counted twice, however callers
\* leave: while they wait, while their job runs or when it is done (_hash).
THEOREM HashSlotsAlwaysExact == Spec => []HashSlotsExact
<1>1. PoolCounted => HashSlotsExact
  BY DEF PoolCounted, HashSlotsExact, InStage
<1> QED BY <1>1, PoolInvariant, PTL

-----------------------------------------------------------------------------
(* The clients of the bridge                                               *)

\* The phases of a connection that an engine serves.
Entering == {"BOOTSTRAP", "PROFILE", "HANDOFF"}
InRoom == {"ROOM", "LOADING", "WAIT_READY", "BATTLE"}
InGame == {"LOBBY"} \cup InRoom

Engines ==
    [uid : Uids, granted : BOOLEAN, handoff : BOOLEAN, bootstrap : Links \cup {None}, game : Links \cup {None},
     p2p : {None} \cup [peer : Endpoints, bound : BOOLEAN], room : {None, "casual", "competitive"}]

BridgeTypes ==
    /\ life \in [Pids -> 0 .. MaxLives]
    /\ binding \in [Pids -> Bindings \cup {None}]
    /\ engines \in Seq(Engines)
    /\ link \in [Links -> Connections \cup {None}]
    /\ udp \in [Endpoints -> Identities \cup {None}]
    /\ pointer \in [by : Identities \cup {None}, fresh : BOOLEAN, left : BOOLEAN]

\* A connection that may still use a row of native_bindings finds it there.
Rowed(k) ==
    link[k] # None /\ link[k].row =>
        /\ link[k].id # None /\ binding[link[k].id.pid] # None
        /\ binding[link[k].id.pid].life = link[k].id.life

\* A game connection is in the slot of its engine that its phase says, for its
\* process.
Seated(k) ==
    Kind(k, "game") =>
        /\ link[k].engine \in DOMAIN engines
        /\ link[k].phase \in Entering <=> Of(k).bootstrap = k
        /\ link[k].phase \in InGame <=> Of(k).game = k
        /\ link[k].phase \in Entering \cup InGame => link[k].id = link[k].owner

\* Whom an engine serves is connected to it; without a game connection there
\* is neither a lease nor a room, and with one a room in its phases.
Serving(i) ==
    LET e == engines[i]
    IN  /\ \A k \in {e.bootstrap, e.game} \ {None} : Kind(k, "game") /\ link[k].engine = i
        /\ e.game = None => e.p2p = None /\ e.room = None
        /\ e.game # None => (e.room # None <=> link[e.game].phase \in InRoom)

HasGame(p) ==
    binding[p] # None /\ binding[p].stage = "game" =>
        \E k \in Links : /\ Kind(k, "game") /\ Of(k).game = k
                         /\ link[k].owner = [pid |-> p, life |-> binding[p].life]
                         /\ Of(k).uid = binding[p].uid
Pointed == pointer.fresh /\ ~pointer.left => \E k \in Links : Served(k) /\ link[k].owner = pointer.by


\* What most steps leave alone of the engines, of the connections, and of the
\* bindings.
EnginesSteady ==
    /\ DOMAIN engines \subseteq DOMAIN engines'
    /\ \A i \in DOMAIN engines :
           /\ engines'[i].uid = engines[i].uid /\ engines'[i].bootstrap = engines[i].bootstrap
           /\ engines'[i].game = engines[i].game /\ engines'[i].room = engines[i].room
           /\ engines[i].game = None => engines'[i].p2p = None
    /\ \A i \in DOMAIN engines' \ DOMAIN engines :
           LET e == engines'[i]
           IN  e.bootstrap = None /\ e.game = None /\ e.p2p = None /\ e.room = None
SameClient(k) ==
    /\ link'[k].kind = "game" /\ link'[k] # None
    /\ link'[k].engine = link[k].engine /\ link'[k].owner = link[k].owner /\ link'[k].id = link[k].id
    /\ link'[k].phase \in Entering <=> link[k].phase \in Entering
    /\ link'[k].phase \in InGame <=> link[k].phase \in InGame
    /\ link'[k].phase \in InRoom <=> link[k].phase \in InRoom
LinksSteady ==
    \A k \in Links :
        /\ Kind(k, "game") => SameClient(k)
        /\ ~Kind(k, "game") /\ link'[k] # None /\ link'[k].kind = "game" =>
               link'[k].engine \in DOMAIN engines' /\ link'[k].phase = "CONNECTED"
BindingsSteady ==
    \A p \in Pids :
        binding'[p] # None /\ binding'[p].stage = "game" =>
            /\ binding[p] # None /\ binding[p].stage = "game"
            /\ binding'[p].life = binding[p].life /\ binding'[p].uid = binding[p].uid

Rows == \A k \in Links : Rowed(k)
Clients == /\ \A k \in Links : Seated(k)
           /\ \A i \in DOMAIN engines : Serving(i)
           /\ \A p \in Pids : HasGame(p)

LEMMA PhasesApart ==
    /\ Entering \cap InGame = {} /\ InRoom \subseteq InGame
    /\ "CONNECTED" \notin Entering \cup InGame /\ "CLOSED" \notin Entering \cup InGame
  BY DEF Entering, InGame, InRoom

\* A step that leaves all this alone leaves every client what it has.
LEMMA SteadyKept ==
    ASSUME BridgeTypes, Clients, EnginesSteady, LinksSteady, BindingsSteady
    PROVE  Clients'
<1> DEFINE Game(k) == link[k] # None /\ link[k].kind = "game"
<1>1. ASSUME NEW k \in Links, Game(k)'
      PROVE  Seated(k)'
  <2>1. CASE Game(k)
    <3>1. /\ link'[k].engine = link[k].engine /\ link[k].engine \in DOMAIN engines
          /\ link'[k].phase \in Entering <=> link[k].phase \in Entering
          /\ link'[k].phase \in InGame <=> link[k].phase \in InGame
          /\ link'[k].owner = link[k].owner /\ link'[k].id = link[k].id
      BY <2>1 DEF LinksSteady, SameClient, Kind, Clients, Seated
    <3>2. /\ link[k].engine \in DOMAIN engines'
          /\ engines'[link[k].engine].bootstrap = engines[link[k].engine].bootstrap
          /\ engines'[link[k].engine].game = engines[link[k].engine].game
      BY <3>1 DEF EnginesSteady
    <3> QED BY <2>1, <3>1, <3>2 DEF Clients, Seated, Of, Kind
  <2>2. CASE ~Game(k)
    <3>1. link'[k].engine \in DOMAIN engines' /\ link'[k].phase = "CONNECTED"
      BY <1>1, <2>2 DEF LinksSteady, Kind
    <3>2. engines'[link'[k].engine].bootstrap # k /\ engines'[link'[k].engine].game # k
      <4> DEFINE i == link'[k].engine
      <4>0. k # None
        BY BridgeAssumption DEF BridgeAssumption
      <4>1. CASE i \in DOMAIN engines
        <5>1. engines[i].bootstrap # k /\ engines[i].game # k
          BY <2>2, <4>0, <4>1 DEF Clients, Serving, Kind
        <5> QED BY <4>1, <5>1 DEF EnginesSteady
      <4>2. CASE i \notin DOMAIN engines
        BY <3>1, <4>0, <4>2 DEF EnginesSteady
      <4> QED BY <4>1, <4>2
    <3> QED BY <3>1, <3>2, PhasesApart DEF Seated, Of
  <2> QED BY <2>1, <2>2
<1>2. ASSUME NEW i \in DOMAIN engines'
      PROVE  Serving(i)'
  <2>1. CASE i \in DOMAIN engines
    <3>1. Serving(i)
      BY <2>1 DEF Clients
    <3>2. /\ engines'[i].bootstrap = engines[i].bootstrap /\ engines'[i].game = engines[i].game
          /\ engines'[i].room = engines[i].room
          /\ engines[i].game = None => engines'[i].p2p = None
      BY <2>1 DEF EnginesSteady
    <3>3. engines[i] \in Engines
      BY <2>1 DEF BridgeTypes
    <3>4. ASSUME NEW k \in {engines[i].bootstrap, engines[i].game} \ {None}
          PROVE  Game(k)' /\ link'[k].engine = i /\ (link'[k].phase \in InRoom <=> link[k].phase \in InRoom)
      <4>1. k \in Links /\ Kind(k, "game") /\ link[k].engine = i
        BY <3>1, <3>3 DEF Serving, Engines
      <4> QED BY <4>1 DEF LinksSteady, SameClient
    <3> QED BY <3>1, <3>2, <3>4 DEF Serving, Kind
  <2>2. CASE i \notin DOMAIN engines
    BY <2>2 DEF EnginesSteady, Serving
  <2> QED BY <2>1, <2>2
<1>3. ASSUME NEW p \in Pids, binding'[p] # None, binding'[p].stage = "game"
      PROVE  HasGame(p)'
  <2>1. /\ binding[p] # None /\ binding[p].stage = "game"
        /\ binding'[p].life = binding[p].life /\ binding'[p].uid = binding[p].uid
    BY <1>3 DEF BindingsSteady
  <2>2. PICK k \in Links : /\ Kind(k, "game") /\ Of(k).game = k
                           /\ link[k].owner = [pid |-> p, life |-> binding[p].life]
                           /\ Of(k).uid = binding[p].uid
    BY <2>1 DEF Clients, HasGame
  <2>3. /\ Game(k)' /\ link'[k].engine = link[k].engine /\ link'[k].owner = link[k].owner
    BY <2>2 DEF LinksSteady, SameClient
  <2>4. link[k].engine \in DOMAIN engines
    BY <2>2 DEF Clients, Seated
  <2>5. Of(k)'.game = k /\ Of(k)'.uid = binding'[p].uid
    BY <2>1, <2>2, <2>3, <2>4 DEF EnginesSteady, Of
  <2> QED BY <2>1, <2>2, <2>3, <2>5 DEF HasGame, Kind
<1>4. \A k \in Links : Seated(k)'
  BY <1>1 DEF Seated, Kind
<1>5. \A p \in Pids : HasGame(p)'
  BY <1>3 DEF HasGame
<1> QED BY <1>2, <1>4, <1>5 DEF Clients

\* Nor does it take a client from the role-ready file.
LEMMA SteadyPointer ==
    ASSUME BridgeTypes, Clients, Pointed, EnginesSteady, LinksSteady, pointer' = pointer
    PROVE  Pointed'
<1> SUFFICES ASSUME pointer.fresh, ~pointer.left
             PROVE  \E k \in Links : Served(k)' /\ link'[k].owner = pointer.by
  BY DEF Pointed
<1>1. PICK k \in Links : Served(k) /\ link[k].owner = pointer.by
  BY DEF Pointed
<1>2. link[k].engine \in DOMAIN engines
  BY <1>1 DEF Served, Clients, Seated
<1>3. SameClient(k)
  BY <1>1 DEF Served, LinksSteady
<1>4. Served(k)'
  BY <1>1, <1>2, <1>3 DEF Served, SameClient, Kind, Of, EnginesSteady
<1> QED BY <1>1, <1>3, <1>4 DEF SameClient

\* What holds of the bridge in every state.
Attached == Rows /\ Clients /\ Pointed

\* One attribute of the bridge that is put in place of another.
LEMMA EnginePut ==
    ASSUME BridgeTypes, NEW i \in DOMAIN engines, NEW e \in Engines
    PROVE  /\ [engines EXCEPT ![i] = e] \in Seq(Engines) /\ DOMAIN [engines EXCEPT ![i] = e] = DOMAIN engines
           /\ \A j \in DOMAIN engines : [engines EXCEPT ![i] = e][j] = IF j = i THEN e ELSE engines[j]
  BY DEF BridgeTypes

LEMMA LinkPut ==
    ASSUME BridgeTypes, NEW k \in Links, NEW c \in Connections \cup {None}, link' = [link EXCEPT ![k] = c]
    PROVE  /\ link' \in [Links -> Connections \cup {None}]
           /\ \A j \in Links : link'[j] = IF j = k THEN c ELSE link[j]
           /\ c \in Connections => c # None
  BY BridgeAssumption DEF BridgeTypes, BridgeAssumption

LEMMA BindingPut ==
    ASSUME BridgeTypes, NEW p \in Pids, NEW row \in Bindings \cup {None}, binding' = [binding EXCEPT ![p] = row]
    PROVE  /\ binding' \in [Pids -> Bindings \cup {None}]
           /\ \A q \in Pids : binding'[q] = IF q = p THEN row ELSE binding[q]
           /\ row \in Bindings => row # None
  BY BridgeAssumption DEF BridgeTypes, BridgeAssumption

\* Rows stay where those find them that may still use them.
LEMMA RowsKept ==
    ASSUME BridgeTypes, Rows,
           \A k \in Links : link'[k] # None /\ link'[k].row =>
               link[k] # None /\ link[k].row /\ link'[k].id = link[k].id,
           \A p \in Pids : binding[p] # None => binding'[p] # None /\ binding'[p].life = binding[p].life
    PROVE  Rows'
<1> SUFFICES ASSUME NEW k \in Links, link'[k] # None, link'[k].row
             PROVE  /\ link'[k].id # None /\ binding'[link'[k].id.pid] # None
                    /\ binding'[link'[k].id.pid].life = link'[k].id.life
  BY DEF Rows, Rowed
<1>1. link[k] # None /\ link[k].row /\ link'[k].id = link[k].id
  OBVIOUS
<1>2. link[k].id # None /\ binding[link[k].id.pid] # None /\ binding[link[k].id.pid].life = link[k].id.life
  BY <1>1 DEF Rows, Rowed
<1>3. link[k].id.pid \in Pids
  BY <1>1, <1>2 DEF BridgeTypes, Connections, Identities
<1> QED BY <1>1, <1>2, <1>3

\* A number goes to another process, a row runs out of time or of its session.
LEMMA ClockStep ==
    ASSUME BridgeTypes, Attached, NEW p \in Pids, Exit(p) \/ Overdue(p) \/ SessionOver(p)
    PROVE  BridgeTypes' /\ Attached'
<1>1. UNCHANGED <<engines, link, udp, pointer>>
  BY DEF Exit, Overdue, SessionOver
<1>2. /\ binding' \in [Pids -> Bindings \cup {None}] /\ life' \in [Pids -> 0 .. MaxLives]
      /\ \A q \in Pids : binding'[q] # None <=> binding[q] # None
      /\ \A q \in Pids : binding[q] # None =>
             /\ binding'[q].life = binding[q].life /\ binding'[q].stage = binding[q].stage
             /\ binding'[q].uid = binding[q].uid
  <2>1. CASE Exit(p)
    BY <2>1, BridgeAssumption DEF Exit, BridgeTypes, BridgeAssumption
  <2>2. CASE Overdue(p) \/ SessionOver(p)
    <3>1. binding[p] \in Bindings /\ life' = life
      BY <2>2 DEF Overdue, SessionOver, BridgeTypes
    <3>2. PICK row \in Bindings : /\ binding' = [binding EXCEPT ![p] = row]
                                  /\ row.life = binding[p].life /\ row.stage = binding[p].stage /\ row.uid = binding[p].uid
      <4>1. CASE Overdue(p)
        <5> DEFINE row == [binding[p] EXCEPT !.expired = TRUE]
        <5>1. /\ row \in Bindings /\ row.life = binding[p].life
              /\ row.stage = binding[p].stage /\ row.uid = binding[p].uid
          BY <3>1 DEF Bindings
        <5>2. binding' = [binding EXCEPT ![p] = row]
          BY <4>1 DEF Overdue
        <5> HIDE DEF row
        <5> QED BY <5>1, <5>2
      <4>2. CASE SessionOver(p)
        <5> DEFINE row == [binding[p] EXCEPT !.ended = TRUE]
        <5>1. /\ row \in Bindings /\ row.life = binding[p].life
              /\ row.stage = binding[p].stage /\ row.uid = binding[p].uid
          BY <3>1 DEF Bindings
        <5>2. binding' = [binding EXCEPT ![p] = row]
          BY <4>2 DEF SessionOver
        <5> HIDE DEF row
        <5> QED BY <5>1, <5>2
      <4> QED BY <2>2, <4>1, <4>2
    <3>3. binding[p] # None
      BY <2>2 DEF Overdue, SessionOver
    <3> QED BY <3>1, <3>2, <3>3, BindingPut DEF BridgeTypes
  <2> QED BY <2>1, <2>2
<1>3. BridgeTypes'
  BY <1>1, <1>2 DEF BridgeTypes
<1>4. EnginesSteady /\ LinksSteady /\ BindingsSteady
  <2>1. \A i \in DOMAIN engines : engines[i].game = None => engines[i].p2p = None
    BY DEF Attached, Clients, Serving
  <2> QED BY <1>1, <1>2, <2>1 DEF EnginesSteady, LinksSteady, BindingsSteady, SameClient, Kind
<1>5. Rows'
  BY <1>1, <1>2, RowsKept DEF Attached
<1> QED BY <1>1, <1>3, <1>4, <1>5, SteadyKept, SteadyPointer DEF Attached

\* A process is bound; expired rows go.
LEMMA BindStep ==
    ASSUME BridgeTypes, Attached, NEW p \in Pids, NEW u \in Uids, Bind(p, u)
    PROVE  BridgeTypes' /\ Attached'
<1> DEFINE kept == {q \in Pids : binding[q] # None /\ (binding[q].stage = "game" \/ ~binding[q].expired)}
           row == [life |-> life[p], uid |-> u, stage |-> "bound", lobby_ready |-> FALSE,
                   expired |-> FALSE, ended |-> FALSE]
           Drops(k) == link[k] # None /\ link[k].id # None /\ link[k].id.pid \notin kept \ {p}
<1>1. /\ binding' = [q \in Pids |-> IF q = p THEN row ELSE IF q \in kept THEN binding[q] ELSE None]
      /\ link' = [k \in Links |-> IF Drops(k) THEN [link[k] EXCEPT !.row = FALSE] ELSE link[k]]
      /\ UNCHANGED <<life, engines, udp, pointer>>
  BY DEF Bind
<1>2. row \in Bindings /\ row # None /\ row.stage = "bound"
  <2>1. row \in Bindings
    BY DEF Bindings, BridgeTypes
  <2> QED BY <2>1, BridgeAssumption DEF BridgeAssumption
<1> HIDE DEF row
<1>3. binding' \in [Pids -> Bindings \cup {None}]
  BY <1>1, <1>2 DEF BridgeTypes
<1>4. ASSUME NEW k \in Links, link[k] # None
      PROVE  /\ link'[k] \in Connections /\ link'[k] # None
             /\ link'[k].kind = link[k].kind /\ link'[k].owner = link[k].owner /\ link'[k].id = link[k].id
             /\ link'[k].engine = link[k].engine /\ link'[k].phase = link[k].phase
             /\ link'[k].row => link[k].row /\ ~Drops(k)
  <2>1. link[k] \in Connections
    BY <1>4 DEF BridgeTypes
  <2>2. [link[k] EXCEPT !.row = FALSE] \in Connections
    BY <2>1 DEF Connections
  <2>3. link'[k] = IF Drops(k) THEN [link[k] EXCEPT !.row = FALSE] ELSE link[k]
    BY <1>1
  <2> HIDE DEF Drops
  <2>4. link'[k] \in Connections
    BY <2>1, <2>2, <2>3
  <2>5. link'[k] # None
    BY <2>4, BridgeAssumption DEF BridgeAssumption
  <2>6. CASE Drops(k)
    <3>1. link'[k] = [link[k] EXCEPT !.row = FALSE]
      BY <2>3, <2>6
    <3> QED BY <2>1, <2>4, <2>5, <3>1 DEF Connections
  <2>7. CASE ~Drops(k)
    BY <2>3, <2>4, <2>5, <2>7
  <2> QED BY <2>6, <2>7
<1>5. \A k \in Links : link[k] = None => link'[k] = None
  BY <1>1
<1>6. BridgeTypes'
  <2>1. link' \in [Links -> Connections \cup {None}]
    BY <1>1, <1>4, <1>5
  <2> QED BY <1>1, <1>3, <2>1 DEF BridgeTypes
<1>7. EnginesSteady /\ LinksSteady /\ BindingsSteady
  <2>1. EnginesSteady
    BY <1>1 DEF Attached, Clients, Serving, EnginesSteady
  <2>2. LinksSteady
    BY <1>4, <1>5 DEF LinksSteady, SameClient, Kind
  <2>3. BindingsSteady
    BY <1>1, <1>2 DEF BindingsSteady
  <2> QED BY <2>1, <2>2, <2>3
<1>8. Rows'
  <2> SUFFICES ASSUME NEW k \in Links, link'[k] # None, link'[k].row
               PROVE  /\ link'[k].id # None /\ binding'[link'[k].id.pid] # None
                      /\ binding'[link'[k].id.pid].life = link'[k].id.life
    BY DEF Rows, Rowed
  <2>1. link[k] # None /\ link[k].row /\ link'[k].id = link[k].id /\ ~Drops(k)
    BY <1>4, <1>5
  <2>2. link[k].id # None /\ binding[link[k].id.pid] # None /\ binding[link[k].id.pid].life = link[k].id.life
    BY <2>1 DEF Attached, Rows, Rowed
  <2>3. link[k].id.pid \in kept \ {p}
    BY <2>1, <2>2
  <2>4. binding'[link[k].id.pid] = binding[link[k].id.pid]
    BY <1>1, <2>3
  <2> QED BY <2>1, <2>2, <2>4
<1> QED BY <1>1, <1>6, <1>7, <1>8, SteadyKept, SteadyPointer DEF Attached

\* A connection is opened, or one of the SDK ends.
LEMMA ConnectionStep ==
    ASSUME BridgeTypes, Attached, NEW k \in Links,
           SdkEnd(k) \/ \E p \in Pids, kind \in {"sdk", "game"} : Connect(k, p, kind)
    PROVE  BridgeTypes' /\ Attached'
<1>1. UNCHANGED <<life, binding, engines, udp, pointer>>
  BY DEF SdkEnd, Connect
<1>2. ~Kind(k, "game")
  BY DEF SdkEnd, Connect, Kind
<1>3. PICK c \in Connections \cup {None} :
          /\ link' = [link EXCEPT ![k] = c]
          /\ c # None => ~c.row /\ (c.kind = "game" => c.engine \in DOMAIN engines /\ c.phase = "CONNECTED")
  <2>1. CASE SdkEnd(k)
    BY <2>1 DEF SdkEnd
  <2>2. ASSUME NEW p \in Pids, NEW kind \in {"sdk", "game"}, Connect(k, p, kind)
        PROVE  /\ Opened(p, kind) \in Connections /\ link' = [link EXCEPT ![k] = Opened(p, kind)]
               /\ ~Opened(p, kind).row
               /\ kind = "game" => Opened(p, kind).engine \in DOMAIN engines /\ Opened(p, kind).phase = "CONNECTED"
               /\ Opened(p, kind).kind = kind
    <3>1. Process(p) \in Identities /\ Len(engines) \in Nat
      BY DEF Process, Identities, BridgeTypes
    <3>2. Opened(p, kind) \in Connections
      BY <3>1 DEF Opened, Connections
    <3>3. kind = "game" => Len(engines) \in DOMAIN engines
      BY <2>2 DEF Connect, BridgeTypes
    <3> QED BY <2>2, <3>2, <3>3 DEF Opened, Connect
  <2> QED BY <2>1, <2>2
<1>4. /\ link' \in [Links -> Connections \cup {None}]
      /\ \A j \in Links : link'[j] = IF j = k THEN c ELSE link[j]
  BY <1>3, LinkPut
<1>5. BridgeTypes'
  BY <1>1, <1>4 DEF BridgeTypes
<1>6. EnginesSteady /\ LinksSteady /\ BindingsSteady
  <2>1. EnginesSteady /\ BindingsSteady
    BY <1>1 DEF Attached, Clients, Serving, EnginesSteady, BindingsSteady
  <2>2. LinksSteady
    BY <1>1, <1>2, <1>3, <1>4 DEF LinksSteady, SameClient, Kind
  <2> QED BY <2>1, <2>2
<1>7. Rows'
  BY <1>1, <1>3, <1>4, RowsKept DEF Attached
<1> QED BY <1>1, <1>5, <1>6, <1>7, SteadyKept, SteadyPointer DEF Attached

\* A connection goes to another phase.
LEMMA PhasePut ==
    ASSUME BridgeTypes, NEW k \in Links, link[k] # None, NEW phase,
           phase \in {"hello", "list", "idle", "CONNECTED", "BOOTSTRAP", "PROFILE", "HANDOFF", "LOBBY",
                      "ROOM", "LOADING", "WAIT_READY", "BATTLE", "CLOSED"},
           link' = [link EXCEPT ![k].phase = phase]
    PROVE  /\ link' \in [Links -> Connections \cup {None}]
           /\ \A j \in Links \ {k} : link'[j] = link[j]
           /\ link'[k] # None /\ link'[k].phase = phase
           /\ link'[k].kind = link[k].kind /\ link'[k].owner = link[k].owner /\ link'[k].id = link[k].id
           /\ link'[k].row = link[k].row /\ link'[k].engine = link[k].engine
<1> DEFINE c == [link[k] EXCEPT !.phase = phase]
<1>1. link[k] \in Connections
  BY DEF BridgeTypes
<1>2. /\ c \in Connections /\ c.phase = phase /\ c.kind = link[k].kind /\ c.owner = link[k].owner
      /\ c.id = link[k].id /\ c.row = link[k].row /\ c.engine = link[k].engine
  BY <1>1 DEF Connections
<1>3. link' = [link EXCEPT ![k] = c]
  OBVIOUS
<1> HIDE DEF c
<1>4. /\ link' \in [Links -> Connections \cup {None}] /\ c # None
      /\ \A j \in Links : link'[j] = IF j = k THEN c ELSE link[j]
  BY <1>2, <1>3, LinkPut
<1> QED BY <1>2, <1>4

\* An engine changes in what no client depends on.
LEMMA EngineSteady ==
    ASSUME BridgeTypes, Clients, NEW i \in DOMAIN engines, NEW e \in Engines,
           e.uid = engines[i].uid, e.bootstrap = engines[i].bootstrap, e.game = engines[i].game,
           e.room = engines[i].room, engines[i].game = None => e.p2p = None,
           engines' = [engines EXCEPT ![i] = e]
    PROVE  engines' \in Seq(Engines) /\ EnginesSteady
<1>1. /\ engines' \in Seq(Engines) /\ DOMAIN engines' = DOMAIN engines
      /\ \A j \in DOMAIN engines : engines'[j] = IF j = i THEN e ELSE engines[j]
  BY EnginePut
<1>2. \A j \in DOMAIN engines : engines[j].game = None => engines[j].p2p = None
  BY DEF Clients, Serving
<1> QED BY <1>1, <1>2 DEF EnginesSteady

\* Grants and handoffs lapse, leases come, go and are bound.
LEMMA LeaseStep ==
    ASSUME BridgeTypes, Attached,
           \/ \E i \in DOMAIN engines : Lapse(i)
           \/ \E x \in Endpoints : Unregister(x) \/ \E id \in Identities : Datagram(x, id)
           \/ \E k \in Links : BindP2P(k)
    PROVE  BridgeTypes' /\ Attached'
<1> DEFINE Same(i, e) == /\ e.uid = engines[i].uid /\ e.bootstrap = engines[i].bootstrap
                         /\ e.game = engines[i].game /\ e.room = engines[i].room
                         /\ engines[i].game = None => e.p2p = None
<1>1. UNCHANGED <<life, binding, link, pointer>>
  BY DEF Lapse, Unregister, Datagram, BindP2P
<1>2. \A i \in DOMAIN engines : engines[i].game = None => engines[i].p2p = None
  BY DEF Attached, Clients, Serving
<1>3. engines # <<>> => Len(engines) \in DOMAIN engines
  BY DEF BridgeTypes
<1>4. udp' \in [Endpoints -> Identities \cup {None}]
  BY DEF Lapse, Unregister, Datagram, BindP2P, BridgeTypes
<1>5. engines' = engines \/ \E i \in DOMAIN engines : \E e \in Engines : Same(i, e) /\ engines' = [engines EXCEPT ![i] = e]
  <2>1. ASSUME NEW i \in DOMAIN engines, NEW granted \in BOOLEAN, engines' = [engines EXCEPT ![i].granted = granted]
        PROVE  \E e \in Engines : Same(i, e) /\ engines' = [engines EXCEPT ![i] = e]
    <3> DEFINE e == [engines[i] EXCEPT !.granted = granted]
    <3>1. engines[i] \in Engines
      BY DEF BridgeTypes
    <3>2. e \in Engines /\ Same(i, e)
      BY <1>2, <3>1 DEF Engines
    <3>3. engines' = [engines EXCEPT ![i] = e]
      BY <2>1
    <3> HIDE DEF e, Same
    <3> QED BY <3>2, <3>3
  <2>2. ASSUME NEW i \in DOMAIN engines, NEW handoff \in BOOLEAN, engines' = [engines EXCEPT ![i].handoff = handoff]
        PROVE  \E e \in Engines : Same(i, e) /\ engines' = [engines EXCEPT ![i] = e]
    <3> DEFINE e == [engines[i] EXCEPT !.handoff = handoff]
    <3>1. engines[i] \in Engines
      BY DEF BridgeTypes
    <3>2. e \in Engines /\ Same(i, e)
      BY <1>2, <3>1 DEF Engines
    <3>3. engines' = [engines EXCEPT ![i] = e]
      BY <2>2
    <3> HIDE DEF e, Same
    <3> QED BY <3>2, <3>3
  <2>3. ASSUME NEW i \in DOMAIN engines, NEW lease \in {None} \cup [peer : Endpoints, bound : BOOLEAN],
               engines[i].game = None => lease = None, engines' = [engines EXCEPT ![i].p2p = lease]
        PROVE  \E e \in Engines : Same(i, e) /\ engines' = [engines EXCEPT ![i] = e]
    <3> DEFINE e == [engines[i] EXCEPT !.p2p = lease]
    <3>1. engines[i] \in Engines
      BY DEF BridgeTypes
    <3>2. e \in Engines /\ Same(i, e)
      BY <2>3, <3>1 DEF Engines
    <3>3. engines' = [engines EXCEPT ![i] = e]
      BY <2>3
    <3> HIDE DEF e, Same
    <3> QED BY <3>2, <3>3
  <2> HIDE DEF Same
  <2>4. ASSUME NEW i \in DOMAIN engines, Lapse(i)
        PROVE  \E e \in Engines : Same(i, e) /\ engines' = [engines EXCEPT ![i] = e]
    BY <2>1, <2>2, <2>3, <2>4 DEF Lapse
  <2>5. ASSUME NEW x \in Endpoints, Unregister(x)
        PROVE  \E e \in Engines : Same(Len(engines), e) /\ engines' = [engines EXCEPT ![Len(engines)] = e]
    BY <1>3, <2>3, <2>5 DEF Unregister
  <2>6. ASSUME NEW x \in Endpoints, NEW id \in Identities, Datagram(x, id), engines' # engines
        PROVE  \E e \in Engines : Same(Len(engines), e) /\ engines' = [engines EXCEPT ![Len(engines)] = e]
    <3>1. /\ engines # <<>> /\ engines[Len(engines)].game # None
          /\ engines' = [engines EXCEPT ![Len(engines)].p2p = [peer |-> x, bound |-> FALSE]]
      BY <2>6 DEF Datagram
    <3>2. [peer |-> x, bound |-> FALSE] \in [peer : Endpoints, bound : BOOLEAN]
      OBVIOUS
    <3> QED BY <1>3, <2>3, <3>1, <3>2
  <2>7. ASSUME NEW k \in Links, BindP2P(k)
        PROVE  \E i \in DOMAIN engines : \E e \in Engines : Same(i, e) /\ engines' = [engines EXCEPT ![i] = e]
    <3> DEFINE i == link[k].engine
               lease == [engines[i].p2p EXCEPT !.bound = TRUE]
    <3>1. /\ i \in DOMAIN engines /\ engines[i].game = k /\ engines[i].p2p # None
          /\ engines' = [engines EXCEPT ![i] = [engines[i] EXCEPT !.p2p.bound = TRUE]]
      BY <2>7 DEF BindP2P, Accepted, Of, With, Attached, Clients, Seated
    <3>2. engines[i] \in Engines /\ k # None
      BY <3>1, BridgeAssumption DEF BridgeTypes, BridgeAssumption
    <3>3. lease \in [peer : Endpoints, bound : BOOLEAN]
      BY <3>1, <3>2 DEF Engines
    <3>4. engines' = [engines EXCEPT ![i].p2p = lease]
      BY <3>1
    <3> HIDE DEF lease, i
    <3> QED BY <2>3, <3>1, <3>2, <3>3, <3>4
  <2> QED BY <1>3, <2>4, <2>5, <2>6, <2>7 DEF Unregister
<1>6. engines' \in Seq(Engines) /\ EnginesSteady
  <2>1. CASE engines' = engines
    BY <1>2, <2>1 DEF BridgeTypes, EnginesSteady
  <2>2. CASE engines' # engines
    <3>1. PICK i \in DOMAIN engines, e \in Engines : Same(i, e) /\ engines' = [engines EXCEPT ![i] = e]
      BY <1>5, <2>2
    <3> QED BY <3>1, EngineSteady DEF Attached
  <2> QED BY <2>1, <2>2
<1>7. BridgeTypes'
  BY <1>1, <1>4, <1>6 DEF BridgeTypes
<1>8. LinksSteady /\ BindingsSteady
  BY <1>1 DEF LinksSteady, SameClient, Kind, BindingsSteady
<1>9. Rows'
  BY <1>1, RowsKept DEF Attached
<1> QED BY <1>1, <1>6, <1>7, <1>8, <1>9, SteadyKept, SteadyPointer DEF Attached

\* The SDK conversation: a new engine, and a grant of the present one.
LEMMA SdkStep ==
    ASSUME BridgeTypes, Attached, NEW k \in Links, SdkLogin(k) \/ SdkList(k)
    PROVE  BridgeTypes' /\ Attached'
<1>1. UNCHANGED <<life, pointer>>
  BY DEF SdkLogin, SdkList
<1>2. Kind(k, "sdk") /\ link[k] \in Connections /\ link[k] # None /\ link[k].kind = "sdk"
  BY DEF SdkLogin, SdkList, Kind, BridgeTypes
<1>3. \A i \in DOMAIN engines : engines[i].game = None => engines[i].p2p = None
  BY DEF Attached, Clients, Serving
<1>4. CASE SdkLogin(k)
  <2> DEFINE id == link[k].owner
             e == [uid |-> binding[id.pid].uid, granted |-> FALSE, handoff |-> FALSE,
                   bootstrap |-> None, game |-> None, p2p |-> None, room |-> None]
             row == [binding[id.pid] EXCEPT !.stage = "sdk"]
             c == [link[k] EXCEPT !.phase = "list", !.id = id, !.row = TRUE]
  <2>1. /\ Bound(id) /\ binding[id.pid].stage = "bound"
        /\ engines' = Append(engines, e) /\ udp' = [x \in Endpoints |-> None]
        /\ binding' = [binding EXCEPT ![id.pid] = row]
        /\ link' = [link EXCEPT ![k] = c]
    BY <1>4 DEF SdkLogin, Staged
  <2>2. id \in Identities /\ id.pid \in Pids /\ id # None
    BY <1>2, BridgeAssumption DEF Connections, Identities, BridgeAssumption
  <2>3. binding[id.pid] \in Bindings /\ binding[id.pid] # None /\ binding[id.pid].life = id.life
    BY <2>1, <2>2 DEF Bound, BridgeTypes
  <2>4. row \in Bindings /\ row.stage = "sdk" /\ row.life = id.life
    BY <2>3 DEF Bindings
  <2>5. c \in Connections /\ c.kind = "sdk" /\ c.id = id
    BY <1>2, <2>2 DEF Connections
  <2>6. e \in Engines /\ e.bootstrap = None /\ e.game = None /\ e.p2p = None /\ e.room = None
    BY <2>3 DEF Engines, Bindings
  <2> HIDE DEF id, e, row, c
  <2>7. /\ engines' \in Seq(Engines) /\ DOMAIN engines' = DOMAIN engines \cup {Len(engines) + 1}
        /\ \A i \in DOMAIN engines : engines'[i] = engines[i]
        /\ engines'[Len(engines) + 1] = e
    <3>1. engines \in Seq(Engines) /\ e \in Engines
      BY <2>6 DEF BridgeTypes
    <3>2. /\ Append(engines, e) \in Seq(Engines) /\ Len(Append(engines, e)) = Len(engines) + 1 /\ Len(engines) \in Nat
          /\ \A i \in 1 .. Len(engines) : Append(engines, e)[i] = engines[i]
          /\ Append(engines, e)[Len(engines) + 1] = e
      BY <3>1
    <3> QED BY <2>1, <3>1, <3>2
  <2>8. /\ binding' \in [Pids -> Bindings \cup {None}] /\ row # None
        /\ \A q \in Pids : binding'[q] = IF q = id.pid THEN row ELSE binding[q]
    BY <2>1, <2>2, <2>4, BindingPut
  <2>9. /\ link' \in [Links -> Connections \cup {None}] /\ c # None
        /\ \A j \in Links : link'[j] = IF j = k THEN c ELSE link[j]
    BY <2>1, <2>5, LinkPut
  <2>10. BridgeTypes'
    BY <1>1, <2>1, <2>7, <2>8, <2>9 DEF BridgeTypes
  <2>11. EnginesSteady
    BY <1>3, <2>6, <2>7 DEF EnginesSteady
  <2>12. LinksSteady
    BY <1>2, <2>5, <2>9 DEF LinksSteady, SameClient, Kind
  <2>13. BindingsSteady
    BY <2>2, <2>4, <2>8 DEF BindingsSteady
  <2>14. Rows'
    <3> SUFFICES ASSUME NEW j \in Links, link'[j] # None, link'[j].row
                 PROVE  /\ link'[j].id # None /\ binding'[link'[j].id.pid] # None
                        /\ binding'[link'[j].id.pid].life = link'[j].id.life
      BY DEF Rows, Rowed
    <3>1. CASE j = k
      BY <2>2, <2>4, <2>5, <2>8, <2>9, <3>1
    <3>2. CASE j # k
      <4>1. /\ link'[j] = link[j] /\ link[j].id # None /\ binding[link[j].id.pid] # None
            /\ binding[link[j].id.pid].life = link[j].id.life
        BY <2>9, <3>2 DEF Attached, Rows, Rowed
      <4>2. link[j].id.pid \in Pids
        BY <4>1, <2>9 DEF BridgeTypes, Connections, Identities
      <4> QED BY <2>3, <2>4, <2>8, <4>1, <4>2
    <3> QED BY <3>1, <3>2
  <2> QED BY <1>1, <2>10, <2>11, <2>12, <2>13, <2>14, SteadyKept, SteadyPointer DEF Attached
<1>5. CASE SdkList(k)
  <2>1. /\ engines' = [engines EXCEPT ![Len(engines)].granted = TRUE] /\ udp' = udp
        /\ binding' = IF link[k].row THEN Staged(link[k].id, "directory") ELSE binding
        /\ link' = [link EXCEPT ![k].phase = "idle"]
    BY <1>5 DEF SdkList
  <2>2. engines' \in Seq(Engines) /\ EnginesSteady
    <3>1. CASE Len(engines) \notin DOMAIN engines
      <4>1. engines' = engines
        BY <2>1, <3>1 DEF BridgeTypes
      <4> QED BY <1>3, <4>1 DEF BridgeTypes, EnginesSteady
    <3>2. CASE Len(engines) \in DOMAIN engines
      <4> DEFINE i == Len(engines)
                 e == [engines[i] EXCEPT !.granted = TRUE]
      <4>1. engines[i] \in Engines
        BY <3>2 DEF BridgeTypes
      <4>2. /\ e \in Engines /\ e.uid = engines[i].uid /\ e.bootstrap = engines[i].bootstrap
            /\ e.game = engines[i].game /\ e.room = engines[i].room /\ e.p2p = engines[i].p2p
        BY <4>1 DEF Engines
      <4>3. engines' = [engines EXCEPT ![i] = e] /\ i \in DOMAIN engines
        BY <2>1, <3>2
      <4> HIDE DEF e, i
      <4> QED BY <1>3, <4>2, <4>3, EngineSteady DEF Attached
    <3> QED BY <3>1, <3>2
  <2>3. /\ link' \in [Links -> Connections \cup {None}]
        /\ \A j \in Links \ {k} : link'[j] = link[j]
        /\ link'[k] # None /\ link'[k].kind = link[k].kind
        /\ link'[k].id = link[k].id /\ link'[k].row = link[k].row
    BY <1>2, <2>1, PhasePut
  <2>4. /\ binding' \in [Pids -> Bindings \cup {None}]
        /\ \A q \in Pids : \/ binding'[q] = binding[q]
                           \/ binding'[q] # None /\ binding[q] # None /\ binding'[q].stage = "directory"
                              /\ binding'[q].life = binding[q].life
    <3>1. CASE ~link[k].row
      BY <2>1, <3>1 DEF BridgeTypes
    <3>2. CASE link[k].row
      <4> DEFINE p == link[k].id.pid
                 row == [binding[p] EXCEPT !.stage = "directory"]
      <4>1. binding[p] # None /\ link[k].id # None
        BY <1>2, <3>2 DEF Attached, Rows, Rowed
      <4>2. p \in Pids
        BY <1>2, <4>1 DEF Connections, Identities
      <4>3. binding[p] \in Bindings
        BY <4>1, <4>2 DEF BridgeTypes
      <4>4. row \in Bindings /\ row.stage = "directory" /\ row.life = binding[p].life
        BY <4>3 DEF Bindings
      <4>5. binding' = [binding EXCEPT ![p] = row]
        BY <2>1, <3>2 DEF Staged
      <4> HIDE DEF p, row
      <4> QED BY <4>1, <4>2, <4>4, <4>5, BindingPut
    <3> QED BY <3>1, <3>2
  <2>5. BridgeTypes'
    BY <1>1, <2>1, <2>2, <2>3, <2>4 DEF BridgeTypes
  <2>6. LinksSteady /\ BindingsSteady
    BY <1>2, <2>3, <2>4 DEF LinksSteady, SameClient, Kind, BindingsSteady
  <2>7. Rows'
    <3>1. \A p \in Pids : binding[p] # None => binding'[p] # None /\ binding'[p].life = binding[p].life
      BY <2>4
    <3>2. \A j \in Links : link'[j] # None /\ link'[j].row => link[j] # None /\ link[j].row /\ link'[j].id = link[j].id
      BY <1>2, <2>3
    <3> QED BY <3>1, <3>2, RowsKept DEF Attached
  <2> QED BY <1>1, <2>2, <2>5, <2>6, <2>7, SteadyKept, SteadyPointer DEF Attached
<1> QED BY <1>4, <1>5

\* A connection that is served is a game connection of an engine.
LEMMA ServedIs ==
    ASSUME BridgeTypes, Attached, NEW k \in Links, Kind(k, "game")
    PROVE  /\ link[k] \in Connections /\ link[k] # None /\ link[k].kind = "game"
           /\ link[k].engine \in DOMAIN engines /\ Of(k) \in Engines /\ Of(k) = engines[link[k].engine]
           /\ link[k].owner \in Identities /\ link[k].owner # None /\ link[k].owner.pid \in Pids
           /\ link[k].phase \in Entering <=> Of(k).bootstrap = k
           /\ link[k].phase \in InGame <=> Of(k).game = k
           /\ link[k].phase \in Entering \cup InGame => link[k].id = link[k].owner
           /\ k # None
<1>1. link[k] \in Connections /\ link[k] # None /\ link[k].kind = "game" /\ Seated(k) /\ k # None
  BY BridgeAssumption DEF Kind, BridgeTypes, Attached, Clients, BridgeAssumption
<1>2. link[k].owner \in Identities /\ link[k].owner # None /\ link[k].owner.pid \in Pids
  BY <1>1, BridgeAssumption DEF Connections, Identities, BridgeAssumption
<1> QED BY <1>1, <1>2 DEF Seated, Of, BridgeTypes

\* A served connection stays in its class of phases.
LEMMA StayingStep ==
    ASSUME BridgeTypes, Attached, NEW k \in Links,
           BootstrapSent(k) \/ ProfileReady(k) \/ SelectRole(k) \/ StartRoom(k) \/ RoomLoaded(k) \/ RoomReady(k)
    PROVE  BridgeTypes' /\ Attached'
<1>1. UNCHANGED <<life, binding, udp, pointer>> /\ Kind(k, "game")
  BY DEF BootstrapSent, ProfileReady, SelectRole, StartRoom, RoomLoaded, RoomReady, Plays, Playing, Accepted
<1>2. /\ link[k] \in Connections /\ link[k] # None /\ link[k].kind = "game"
      /\ link[k].engine \in DOMAIN engines /\ Of(k) \in Engines /\ Of(k) = engines[link[k].engine]
  BY <1>1, ServedIs
<1>3. \A i \in DOMAIN engines : engines[i].game = None => engines[i].p2p = None
  BY DEF Attached, Clients, Serving
<1>4. engines' \in Seq(Engines) /\ EnginesSteady
  <2> DEFINE i == link[k].engine
  <2>1. CASE BootstrapSent(k) \/ ProfileReady(k)
    <3>1. engines' = engines
      BY <2>1 DEF BootstrapSent, ProfileReady
    <3> QED BY <1>3, <3>1 DEF BridgeTypes, EnginesSteady
  <2>2. CASE SelectRole(k)
    <3> DEFINE e == [engines[i] EXCEPT !.handoff = TRUE]
    <3>1. /\ e \in Engines /\ e.uid = engines[i].uid /\ e.bootstrap = engines[i].bootstrap
          /\ e.game = engines[i].game /\ e.room = engines[i].room /\ e.p2p = engines[i].p2p
      BY <1>2 DEF Engines
    <3>2. engines' = [engines EXCEPT ![i] = e]
      BY <1>2, <2>2 DEF SelectRole, With
    <3> HIDE DEF e
    <3> QED BY <1>2, <1>3, <3>1, <3>2, EngineSteady DEF Attached
  <2>3. CASE StartRoom(k) \/ RoomLoaded(k) \/ RoomReady(k)
    <3> DEFINE e == [engines[i] EXCEPT !.room = engines[i].room]
    <3>1. /\ e \in Engines /\ e.uid = engines[i].uid /\ e.bootstrap = engines[i].bootstrap
          /\ e.game = engines[i].game /\ e.room = engines[i].room /\ e.p2p = engines[i].p2p
      BY <1>2 DEF Engines
    <3>2. engines' = [engines EXCEPT ![i] = e]
      BY <1>2, <2>3 DEF StartRoom, RoomLoaded, RoomReady, Plays, With
    <3> HIDE DEF e
    <3> QED BY <1>2, <1>3, <3>1, <3>2, EngineSteady DEF Attached
  <2> QED BY <2>1, <2>2, <2>3
<1>5. /\ link' \in [Links -> Connections \cup {None}]
      /\ \A j \in Links \ {k} : link'[j] = link[j]
      /\ SameClient(k) /\ link'[k].row = link[k].row
  <2>1. CASE BootstrapSent(k)
    <3> DEFINE c == [link[k] EXCEPT !.sent = TRUE]
    <3>1. /\ c \in Connections /\ c.phase = link[k].phase /\ c.kind = link[k].kind /\ c.owner = link[k].owner
          /\ c.id = link[k].id /\ c.row = link[k].row /\ c.engine = link[k].engine
      BY <1>2 DEF Connections
    <3>2. link' = [link EXCEPT ![k] = c]
      BY <2>1 DEF BootstrapSent
    <3> HIDE DEF c
    <3>3. /\ link' \in [Links -> Connections \cup {None}] /\ c # None
          /\ \A j \in Links : link'[j] = IF j = k THEN c ELSE link[j]
      BY <3>1, <3>2, LinkPut
    <3> QED BY <1>2, <3>1, <3>3 DEF SameClient
  <2>2. CASE ~BootstrapSent(k)
    <3>1. PICK phase \in {"PROFILE", "HANDOFF", "LOADING", "WAIT_READY", "BATTLE"} :
              /\ link' = [link EXCEPT ![k].phase = phase]
              /\ phase \in Entering <=> link[k].phase \in Entering
              /\ phase \in InRoom <=> link[k].phase \in InRoom
              /\ phase \in InGame <=> link[k].phase \in InGame
      <4>1. CASE ProfileReady(k)
        BY <4>1 DEF ProfileReady, Moved, Entering, InRoom, InGame
      <4>2. CASE SelectRole(k)
        BY <4>2 DEF SelectRole, Moved, Entering, InRoom, InGame
      <4>3. CASE StartRoom(k)
        BY <4>3 DEF StartRoom, Playing, Plays, Moved, Entering, InRoom, InGame
      <4>4. CASE RoomLoaded(k)
        BY <4>4 DEF RoomLoaded, Playing, Plays, Moved, Entering, InRoom, InGame
      <4>5. CASE RoomReady(k)
        BY <4>5 DEF RoomReady, Playing, Plays, Moved, Entering, InRoom, InGame
      <4> QED BY <2>2, <4>1, <4>2, <4>3, <4>4, <4>5
    <3>2. /\ link' \in [Links -> Connections \cup {None}]
          /\ \A j \in Links \ {k} : link'[j] = link[j]
          /\ link'[k] # None /\ link'[k].phase = phase
          /\ link'[k].kind = link[k].kind /\ link'[k].owner = link[k].owner /\ link'[k].id = link[k].id
          /\ link'[k].row = link[k].row /\ link'[k].engine = link[k].engine
      BY <1>2, <3>1, PhasePut
    <3> QED BY <1>2, <3>1, <3>2 DEF SameClient
  <2> QED BY <2>1, <2>2
<1>6. BridgeTypes'
  BY <1>1, <1>4, <1>5 DEF BridgeTypes
<1>7. LinksSteady /\ BindingsSteady
  <2>1. \A j \in Links : Kind(j, "game") => SameClient(j)
    BY <1>5 DEF SameClient, Kind
  <2> QED BY <1>1, <1>5, <2>1 DEF LinksSteady, BindingsSteady, Kind
<1>8. Rows'
  <2>1. \A j \in Links : link'[j] # None /\ link'[j].row => link[j] # None /\ link[j].row /\ link'[j].id = link[j].id
    BY <1>2, <1>5 DEF SameClient
  <2> QED BY <1>1, <2>1, RowsKept DEF Attached
<1> QED BY <1>1, <1>4, <1>6, <1>7, <1>8, SteadyKept, SteadyPointer DEF Attached

\* The client writes the role-ready file, or asks for the directory.
LEMMA ReadyStep ==
    ASSUME BridgeTypes, Attached, NEW k \in Links, WritePointer(k) \/ Directory(k)
    PROVE  BridgeTypes' /\ Attached'
<1>1. UNCHANGED <<life, engines, link, udp>> /\ Kind(k, "game")
  BY DEF WritePointer, Directory, Accepted
<1>2. /\ link[k].owner \in Identities /\ link[k].owner # None /\ link[k].owner.pid \in Pids
      /\ link[k].phase \in Entering <=> Of(k).bootstrap = k
      /\ link[k].phase \in Entering \cup InGame => link[k].id = link[k].owner
  BY <1>1, ServedIs
<1>3. EnginesSteady /\ LinksSteady
  BY <1>1 DEF Attached, Clients, Serving, EnginesSteady, LinksSteady, SameClient, Kind
<1>4. CASE WritePointer(k)
  <2>1. pointer' = [by |-> link[k].owner, fresh |-> TRUE, left |-> FALSE] /\ binding' = binding
    BY <1>4 DEF WritePointer
  <2>2. BridgeTypes' /\ BindingsSteady
    BY <1>1, <1>2, <2>1 DEF BridgeTypes, BindingsSteady
  <2>3. Rows'
    BY <1>1, <2>1, RowsKept DEF Attached
  <2>4. Served(k)
    BY <1>1, <1>2, <1>4 DEF WritePointer, Served, Entering
  <2>5. Pointed'
    BY <1>1, <2>1, <2>4 DEF Pointed, Served, Kind, Of
  <2> QED BY <1>3, <2>2, <2>3, <2>5, SteadyKept DEF Attached
<1>5. CASE Directory(k)
  <2> DEFINE p == link[k].owner.pid
             row == [binding[p] EXCEPT !.lobby_ready = TRUE]
  <2>1. binding' = [binding EXCEPT ![p] = row] /\ pointer' = pointer /\ Bound(link[k].owner)
    BY <1>2, <1>5 DEF Directory, Accepted, InGame
  <2>2. binding[p] \in Bindings /\ binding[p] # None
    BY <1>2, <2>1 DEF Bound, BridgeTypes
  <2>3. /\ row \in Bindings /\ row.stage = binding[p].stage /\ row.life = binding[p].life
        /\ row.uid = binding[p].uid
    BY <2>2 DEF Bindings
  <2>4. p \in Pids
    BY <1>2
  <2> HIDE DEF p, row
  <2>5. /\ binding' \in [Pids -> Bindings \cup {None}] /\ row # None
        /\ \A q \in Pids : binding'[q] = IF q = p THEN row ELSE binding[q]
    BY <2>1, <2>3, <2>4, BindingPut
  <2>6. BridgeTypes' /\ BindingsSteady
    BY <1>1, <2>1, <2>2, <2>3, <2>5 DEF BridgeTypes, BindingsSteady
  <2>7. Rows'
    <3>1. \A q \in Pids : binding[q] # None => binding'[q] # None /\ binding'[q].life = binding[q].life
      BY <2>3, <2>5
    <3> QED BY <1>1, <3>1, RowsKept DEF Attached
  <2> QED BY <1>3, <2>1, <2>6, <2>7, SteadyKept, SteadyPointer DEF Attached
<1> QED BY <1>4, <1>5

\* One client takes, changes or leaves its slot: e is what becomes of its
\* engine, and the other connections stay what they are, but for their rows.
Others(k) ==
    \A j \in Links \ {k} :
        /\ link'[j] = None <=> link[j] = None
        /\ link'[j].kind = link[j].kind /\ link'[j].owner = link[j].owner /\ link'[j].id = link[j].id
        /\ link'[j].engine = link[j].engine /\ link'[j].phase = link[j].phase
Slot(k, e) ==
    LET i == link[k].engine
    IN  /\ engines' = [engines EXCEPT ![i] = e] /\ e \in Engines /\ e.uid = engines[i].uid
        /\ \A j \in Links \ {k} : /\ e.bootstrap = j <=> engines[i].bootstrap = j
                                  /\ e.game = j <=> engines[i].game = j
        /\ e.game = None => e.p2p = None /\ e.room = None
        /\ e.game \notin {None, k} => e.room = engines[i].room
Seat(k, e) ==
    \/ link'[k] = None /\ e.bootstrap # k /\ e.game # k
    \/ /\ link'[k] # None /\ link'[k].kind = "game" /\ link'[k].engine = link[k].engine
       /\ link'[k].owner = link[k].owner
       /\ link'[k].phase \in Entering <=> e.bootstrap = k
       /\ link'[k].phase \in InGame <=> e.game = k
       /\ link'[k].phase \in Entering \cup InGame => link'[k].id = link'[k].owner
       /\ e.game = k => (e.room # None <=> link'[k].phase \in InRoom)

LEMMA ClientMoved ==
    ASSUME BridgeTypes, Attached, NEW k \in Links, Kind(k, "game"), Others(k), NEW e, Slot(k, e), Seat(k, e)
    PROVE  /\ engines' \in Seq(Engines) /\ Of(k) = engines[link[k].engine] /\ engines'[link[k].engine] = e
           /\ \A j \in Links : Seated(j)'
           /\ \A i \in DOMAIN engines' : Serving(i)'
           /\ \A j \in Links \ {k} : Kind(j, "game") =>
                  /\ Kind(j, "game")' /\ link'[j].owner = link[j].owner
                  /\ engines'[link'[j].engine].uid = Of(j).uid
                  /\ engines'[link'[j].engine].game = j <=> Of(j).game = j
                  /\ engines'[link'[j].engine].bootstrap = j <=> Of(j).bootstrap = j
<1> DEFINE n == link[k].engine
<1>1. n \in DOMAIN engines /\ k # None /\ link[k] # None /\ link[k].kind = "game"
  BY ServedIs
<1>2. /\ engines' = [engines EXCEPT ![n] = e] /\ e \in Engines /\ e.uid = engines[n].uid
      /\ \A j \in Links \ {k} : /\ e.bootstrap = j <=> engines[n].bootstrap = j
                                /\ e.game = j <=> engines[n].game = j
      /\ e.game = None => e.p2p = None /\ e.room = None
      /\ e.game \notin {None, k} => e.room = engines[n].room
  BY DEF Slot
<1> HIDE DEF n
<1>3. /\ engines' \in Seq(Engines) /\ DOMAIN engines' = DOMAIN engines
      /\ \A i \in DOMAIN engines : engines'[i] = IF i = n THEN e ELSE engines[i]
  BY <1>1, <1>2, EnginePut
<1>4. ASSUME NEW j \in Links \ {k}, Kind(j, "game")
      PROVE  /\ link'[j] # None /\ link'[j].kind = "game" /\ link'[j].owner = link[j].owner
             /\ link'[j].engine = link[j].engine /\ link[j].engine \in DOMAIN engines
             /\ engines'[link[j].engine].uid = engines[link[j].engine].uid
             /\ engines'[link[j].engine].game = j <=> engines[link[j].engine].game = j
             /\ engines'[link[j].engine].bootstrap = j <=> engines[link[j].engine].bootstrap = j
  <2>1. link[j].engine \in DOMAIN engines
    BY <1>4 DEF Attached, Clients, Seated
  <2>2. link'[j] # None /\ link'[j].kind = "game" /\ link'[j].owner = link[j].owner /\ link'[j].engine = link[j].engine
    BY <1>4 DEF Others, Kind
  <2> QED BY <1>2, <1>3, <2>1, <2>2
<1>5. ASSUME NEW j \in Links, link'[j] # None, link'[j].kind = "game"
      PROVE  /\ link'[j].engine \in DOMAIN engines'
             /\ link'[j].phase \in Entering <=> engines'[link'[j].engine].bootstrap = j
             /\ link'[j].phase \in InGame <=> engines'[link'[j].engine].game = j
             /\ link'[j].phase \in Entering \cup InGame => link'[j].id = link'[j].owner
  <2>1. CASE j = k
    <3>1. link'[k].engine = n
      BY <1>5, <2>1 DEF Seat, n
    <3> QED BY <1>1, <1>3, <1>5, <2>1, <3>1 DEF Seat
  <2>2. CASE j # k
    <3>1. Kind(j, "game")
      BY <1>5, <2>2 DEF Others, Kind
    <3>2. Seated(j) /\ link'[j].phase = link[j].phase /\ link'[j].id = link[j].id
      BY <2>2 DEF Others, Attached, Clients
    <3> QED BY <1>3, <1>4, <2>2, <3>1, <3>2 DEF Seated, Of
  <2> QED BY <2>1, <2>2
<1>6. ASSUME NEW i \in DOMAIN engines
      PROVE  LET f == engines'[i]
             IN  /\ \A j \in {f.bootstrap, f.game} \ {None} :
                        link'[j] # None /\ link'[j].kind = "game" /\ link'[j].engine = i
                 /\ f.game = None => f.p2p = None /\ f.room = None
                 /\ f.game # None => (f.room # None <=> link'[f.game].phase \in InRoom)
  <2> DEFINE f == engines'[i]
  <2>0. Serving(i) /\ engines[i] \in Engines /\ f \in Engines
    BY <1>3 DEF Attached, Clients, BridgeTypes
  <2>1. CASE i # n
    <3>1. f = engines[i]
      BY <1>3, <2>1
    <3>2. ASSUME NEW j \in {f.bootstrap, f.game} \ {None}
          PROVE  link'[j] # None /\ link'[j].kind = "game" /\ link'[j].engine = i /\ link'[j].phase = link[j].phase
      <4>1. j \in Links /\ Kind(j, "game") /\ link[j].engine = i
        BY <2>0, <3>1 DEF Serving, Engines
      <4>2. j # k
        BY <2>1, <4>1 DEF n
      <4> QED BY <4>1, <4>2 DEF Others, Kind
    <3> QED BY <2>0, <3>1, <3>2 DEF Serving
  <2>2. CASE i = n
    <3>1. f = e
      BY <1>3, <2>2
    <3>2. ASSUME NEW j \in {f.bootstrap, f.game} \ {None}
          PROVE  link'[j] # None /\ link'[j].kind = "game" /\ link'[j].engine = i
      <4>1. j \in Links
        BY <2>0 DEF Engines
      <4>2. CASE j = k
        BY <2>2, <3>1, <4>2 DEF Seat, n
      <4>3. CASE j # k
        <5>1. j \in {engines[i].bootstrap, engines[i].game} \ {None}
          BY <1>2, <2>2, <3>1, <4>1, <4>3
        <5>2. Kind(j, "game") /\ link[j].engine = i
          BY <2>0, <5>1 DEF Serving
        <5> QED BY <4>1, <4>3, <5>2 DEF Others, Kind
      <4> QED BY <4>2, <4>3
    <3>3. f.game # None => (f.room # None <=> link'[f.game].phase \in InRoom)
      <4>1. CASE f.game = k
        BY <3>1, <3>2, <1>1, <4>1 DEF Seat
      <4>2. CASE f.game \notin {None, k}
        <5>1. f.game \in Links /\ f.game = engines[i].game /\ f.room = engines[i].room
          BY <1>2, <2>0, <2>2, <3>1, <4>2 DEF Engines
        <5>2. link'[f.game].phase = link[f.game].phase
          BY <4>2, <5>1 DEF Others
        <5> QED BY <2>0, <4>2, <5>1, <5>2 DEF Serving
      <4> QED BY <4>1, <4>2
    <3> QED BY <1>2, <3>1, <3>2, <3>3
  <2> QED BY <2>1, <2>2
<1>7. \A j \in Links : Seated(j)'
  BY <1>5 DEF Seated, Kind, Of
<1>8. \A i \in DOMAIN engines' : Serving(i)'
  BY <1>3, <1>6 DEF Serving, Kind
<1>9. \A j \in Links \ {k} : Kind(j, "game") =>
          /\ Kind(j, "game")' /\ link'[j].owner = link[j].owner
          /\ engines'[link'[j].engine].uid = Of(j).uid
          /\ engines'[link'[j].engine].game = j <=> Of(j).game = j
          /\ engines'[link'[j].engine].bootstrap = j <=> Of(j).bootstrap = j
  BY <1>4 DEF Kind, Of
<1>10. Of(k) = engines[link[k].engine] /\ engines'[link[k].engine] = e
  BY <1>1, <1>3 DEF Of, n
<1> QED BY <1>3, <1>7, <1>8, <1>9, <1>10

\* Who is served before the step is served after it, but for the one that
\* gives up its slot.
LEMMA ClientStays ==
    ASSUME BridgeTypes, Attached, NEW k \in Links, Kind(k, "game"), Others(k), NEW e, Slot(k, e), Seat(k, e)
    PROVE  /\ \A p \in Pids :
                  /\ binding[p] # None /\ binding[p].stage = "game"
                  /\ Of(k).game = k /\ e.game # k => link[k].owner # [pid |-> p, life |-> binding[p].life]
                  /\ binding'[p].life = binding[p].life /\ binding'[p].uid = binding[p].uid
                  => HasGame(p)'
           /\ /\ pointer'.by = pointer.by
              /\ pointer'.fresh /\ ~pointer'.left =>
                     /\ pointer.fresh /\ ~pointer.left
                     /\ k \in {Of(k).bootstrap, Of(k).game} \ {e.bootstrap, e.game} => link[k].owner # pointer.by
              => Pointed'
<1>1. ASSUME NEW j \in Links, Kind(j, "game")
      PROVE  /\ j # k \/ link'[k] # None =>
                    Kind(j, "game")' /\ link'[j].owner = link[j].owner
             /\ j # k \/ link'[k] # None => engines'[link'[j].engine].uid = Of(j).uid
             /\ j # k => /\ engines'[link'[j].engine].game = j <=> Of(j).game = j
                         /\ engines'[link'[j].engine].bootstrap = j <=> Of(j).bootstrap = j
             /\ j = k /\ link'[k] # None => engines'[link'[k].engine] = e
  <2>1. CASE j # k
    BY <1>1, <2>1, ClientMoved
  <2>2. CASE j = k
    <3>1. Of(k) = engines[link[k].engine] /\ engines'[link[k].engine] = e /\ e.uid = engines[link[k].engine].uid
      BY ClientMoved DEF Slot
    <3> QED BY <2>2, <3>1 DEF Seat, Kind
  <2> QED BY <2>1, <2>2
<1>2. ASSUME NEW p \in Pids, binding[p] # None, binding[p].stage = "game",
             Of(k).game = k /\ e.game # k => link[k].owner # [pid |-> p, life |-> binding[p].life],
             binding'[p].life = binding[p].life, binding'[p].uid = binding[p].uid
      PROVE  HasGame(p)'
  <2>1. PICK j \in Links : /\ Kind(j, "game") /\ Of(j).game = j
                           /\ link[j].owner = [pid |-> p, life |-> binding[p].life]
                           /\ Of(j).uid = binding[p].uid
    BY <1>2 DEF Attached, Clients, HasGame
  <2>2. j = k => e.game = k /\ link'[k] # None
    BY <1>2, <2>1 DEF Seat
  <2>3. /\ Kind(j, "game")' /\ link'[j].owner = link[j].owner
        /\ engines'[link'[j].engine].uid = Of(j).uid /\ engines'[link'[j].engine].game = j
    BY <1>1, <2>1, <2>2
  <2> QED BY <1>2, <2>1, <2>3 DEF HasGame, Of
<1>3. ASSUME pointer'.by = pointer.by,
             pointer'.fresh /\ ~pointer'.left =>
                 /\ pointer.fresh /\ ~pointer.left
                 /\ k \in {Of(k).bootstrap, Of(k).game} \ {e.bootstrap, e.game} => link[k].owner # pointer.by
      PROVE  Pointed'
  <2> SUFFICES ASSUME pointer'.fresh, ~pointer'.left
               PROVE  \E j \in Links : Served(j)' /\ link'[j].owner = pointer.by
    BY <1>3 DEF Pointed
  <2>1. PICK j \in Links : Served(j) /\ link[j].owner = pointer.by
    BY <1>3 DEF Attached, Pointed
  <2>2. Kind(j, "game") /\ (j = k => k \in {e.bootstrap, e.game} /\ link'[k] # None)
    BY <1>3, <2>1 DEF Served, Seat
  <2>3. /\ Kind(j, "game")' /\ link'[j].owner = link[j].owner
        /\ j \in {engines'[link'[j].engine].bootstrap, engines'[link'[j].engine].game}
    BY <1>1, <2>1, <2>2 DEF Served
  <2> QED BY <2>1, <2>3 DEF Served, Of
<1> QED BY <1>2, <1>3

\* A client takes a slot of its engine: the bootstrap one, then the game one.
LEMMA EnterStep ==
    ASSUME BridgeTypes, Attached, NEW k \in Links, Bootstrap(k) \/ EnterLobby(k)
    PROVE  BridgeTypes' /\ Attached'
<1> DEFINE i == link[k].engine
           id == link[k].owner
           stage == IF Bootstrap(k) THEN "bootstrap" ELSE "game"
           phase == IF Bootstrap(k) THEN "BOOTSTRAP" ELSE "LOBBY"
           row == [binding[id.pid] EXCEPT !.stage = stage]
           c == [link[k] EXCEPT !.id = link[k].owner, !.phase = phase]
           d == IF Bootstrap(k) THEN [engines[i] EXCEPT !.bootstrap = k]
                ELSE [engines[i] EXCEPT !.handoff = FALSE, !.game = k]
<1>1. Kind(k, "game")
  BY DEF Bootstrap, EnterLobby, Handoff, Accepted
<1>2. /\ link[k] \in Connections /\ i \in DOMAIN engines /\ engines[i] \in Engines /\ Of(k) = engines[i]
      /\ id \in Identities /\ id # None /\ id.pid \in Pids /\ k # None
      /\ Serving(i)
  BY <1>1, ServedIs DEF Attached, Clients
<1>3. /\ link[k].phase = "CONNECTED" /\ binding[id.pid] # None /\ binding[id.pid].life = id.life
      /\ engines[i].game = None /\ engines[i].bootstrap # k
      /\ binding[id.pid].uid = engines[i].uid
      /\ Bootstrap(k) => engines[i].bootstrap = None
  <2>1. engines[i].bootstrap # k
    BY <1>1, <1>2, PhasesApart, ServedIs DEF Bootstrap, EnterLobby, Handoff
  <2> QED BY <1>2, <2>1 DEF Bootstrap, EnterLobby, Handoff, Accepted, Bound, Idle
<1>4. binding' = [binding EXCEPT ![id.pid] = row] /\ link' = [link EXCEPT ![k] = c]
  BY DEF Bootstrap, EnterLobby, Staged
<1>5. engines' = [engines EXCEPT ![i] = d] /\ UNCHANGED <<life, udp, pointer>>
  BY <1>2 DEF Bootstrap, EnterLobby, With
<1>6. /\ row \in Bindings /\ row.life = id.life /\ row.uid = engines[i].uid /\ row.stage = stage
  <2>1. binding[id.pid] \in Bindings
    BY <1>2, <1>3 DEF BridgeTypes
  <2> QED BY <1>3, <2>1 DEF Bindings
<1>7. /\ c \in Connections /\ c.kind = "game" /\ c.id = id /\ c.owner = id /\ c.phase = phase
      /\ c.engine = i /\ c.row = link[k].row
  BY <1>1, <1>2 DEF Connections, Kind
<1>8. /\ d \in Engines /\ d.uid = engines[i].uid /\ d.room = engines[i].room /\ d.p2p = engines[i].p2p
      /\ Bootstrap(k) => d.bootstrap = k /\ d.game = engines[i].game
      /\ ~Bootstrap(k) => d.bootstrap = engines[i].bootstrap /\ d.game = k
  BY <1>2 DEF Engines
<1>9. stage # "game" <=> Bootstrap(k)
  OBVIOUS
<1>10. /\ phase \in Entering <=> Bootstrap(k)
       /\ phase \in InGame <=> ~Bootstrap(k)
       /\ phase \notin InRoom
  BY DEF Entering, InGame, InRoom
<1> HIDE DEF row, c, d, stage, phase, i, id
<1>11. /\ binding' \in [Pids -> Bindings \cup {None}] /\ row # None
       /\ \A q \in Pids : binding'[q] = IF q = id.pid THEN row ELSE binding[q]
  BY <1>2, <1>4, <1>6, BindingPut
<1>12. /\ link' \in [Links -> Connections \cup {None}] /\ c # None
       /\ \A j \in Links : link'[j] = IF j = k THEN c ELSE link[j]
  BY <1>4, <1>7, LinkPut
<1>13. Others(k) /\ Slot(k, d) /\ Seat(k, d)
  <2>1. Others(k)
    BY <1>12 DEF Others
  <2>2. engines[i].p2p = None /\ engines[i].room = None
    BY <1>2, <1>3 DEF Serving
  <2>3. Slot(k, d)
    BY <1>2, <1>3, <1>5, <1>8, <2>2, BridgeAssumption DEF Slot, i, BridgeAssumption
  <2>4. Seat(k, d)
    BY <1>2, <1>3, <1>7, <1>8, <1>10, <1>12, <2>2 DEF Seat, i, id
  <2> QED BY <2>1, <2>3, <2>4
<1>14. /\ engines' \in Seq(Engines) /\ \A j \in Links : Seated(j)'
       /\ \A n \in DOMAIN engines' : Serving(n)'
       /\ engines'[i] = d
  BY <1>1, <1>13, ClientMoved DEF i
<1>15. Pointed'
  <2>1. d.bootstrap = k \/ engines[i].bootstrap # k
    BY <1>3
  <2>2. k \notin {engines[i].bootstrap, engines[i].game}
    BY <1>2, <1>3
  <2> QED BY <1>1, <1>2, <1>5, <1>13, <2>2, ClientStays DEF Pointed, Attached
<1>16. ASSUME NEW p \in Pids
       PROVE  HasGame(p)'
  <2>1. CASE p # id.pid
    <3>1. binding'[p] = binding[p]
      BY <1>11, <2>1
    <3>2. Of(k).game # k
      BY <1>2, <1>3
    <3> QED BY <1>1, <1>13, <3>1, <3>2, ClientStays DEF HasGame
  <2>2. CASE p = id.pid /\ Bootstrap(k)
    <3>1. binding'[p].stage # "game"
      BY <1>6, <1>9, <1>11, <2>2
    <3> QED BY <3>1 DEF HasGame
  <2>3. CASE p = id.pid /\ ~Bootstrap(k)
    <3>1. binding'[p] = row /\ link'[k] = c
      BY <1>11, <1>12, <2>3
    <3>2. id = [pid |-> p, life |-> row.life]
      BY <1>2, <1>6, <2>3 DEF Identities
    <3>3. Kind(k, "game")' /\ link'[k].owner = [pid |-> p, life |-> binding'[p].life]
      BY <1>7, <1>12, <3>1, <3>2 DEF Kind
    <3>4. Of(k)' = d
      BY <1>7, <1>14, <3>1 DEF Of
    <3> QED BY <1>6, <1>8, <2>3, <3>1, <3>3, <3>4 DEF HasGame
  <2> QED BY <2>1, <2>2, <2>3
<1>17. Rows'
  <2>1. \A q \in Pids : binding[q] # None => binding'[q] # None /\ binding'[q].life = binding[q].life
    BY <1>3, <1>6, <1>11
  <2>2. ASSUME NEW j \in Links, link'[j] # None, link'[j].row
        PROVE  /\ link'[j].id # None /\ binding'[link'[j].id.pid] # None
               /\ binding'[link'[j].id.pid].life = link'[j].id.life
    <3>1. CASE j = k
      BY <1>2, <1>6, <1>7, <1>11, <1>12, <3>1
    <3>2. CASE j # k
      <4>1. link'[j] = link[j]
        BY <1>12, <3>2
      <4>2. link[j].id # None /\ binding[link[j].id.pid] # None /\ binding[link[j].id.pid].life = link[j].id.life
        BY <2>2, <4>1 DEF Attached, Rows, Rowed
      <4>3. link[j].id.pid \in Pids
        BY <2>2, <4>1, <4>2 DEF BridgeTypes, Connections, Identities
      <4> QED BY <2>1, <4>1, <4>2, <4>3
    <3> QED BY <3>1, <3>2
  <2> QED BY <2>2 DEF Rows, Rowed
<1>18. BridgeTypes'
  BY <1>5, <1>11, <1>12, <1>14 DEF BridgeTypes
<1> QED BY <1>14, <1>15, <1>16, <1>17, <1>18 DEF Attached, Clients

\* A client opens a room or leaves it.
LEMMA RoomStep ==
    ASSUME BridgeTypes, Attached, NEW k \in Links, NEW kind \in {"casual", "competitive"},
           CreateRoom(k, kind) \/ LeaveRoom(k)
    PROVE  BridgeTypes' /\ Attached'
<1> DEFINE i == link[k].engine
           room == IF CreateRoom(k, kind) THEN kind ELSE None
           phase == IF CreateRoom(k, kind) THEN "ROOM" ELSE "LOBBY"
           d == [engines[i] EXCEPT !.room = room]
<1>1. Kind(k, "game")
  BY DEF CreateRoom, LeaveRoom, Playing, Accepted
<1>2. /\ link[k] \in Connections /\ link[k] # None
      /\ i \in DOMAIN engines /\ engines[i] \in Engines /\ Of(k) = engines[i]
      /\ link[k].phase \in InGame <=> engines[i].game = k
      /\ link[k].phase \in Entering <=> engines[i].bootstrap = k
      /\ link[k].phase \in Entering \cup InGame => link[k].id = link[k].owner
      /\ k # None
  BY <1>1, ServedIs
<1>3. engines[i].game = k
  BY <1>2 DEF CreateRoom, LeaveRoom, Playing
<1>4. link' = [link EXCEPT ![k].phase = phase] /\ UNCHANGED <<life, binding, udp, pointer>>
  BY DEF CreateRoom, LeaveRoom, Plays, Moved
<1>5. engines' = [engines EXCEPT ![i] = d]
  BY <1>2 DEF CreateRoom, LeaveRoom, Plays, With
<1>6. /\ d \in Engines /\ d.uid = engines[i].uid /\ d.bootstrap = engines[i].bootstrap
      /\ d.game = engines[i].game /\ d.room = room
  BY <1>2 DEF Engines
<1>7. /\ phase \in InGame /\ phase \notin Entering
      /\ room # None <=> phase \in InRoom
      /\ phase \in {"hello", "list", "idle", "CONNECTED", "BOOTSTRAP", "PROFILE", "HANDOFF", "LOBBY",
                    "ROOM", "LOADING", "WAIT_READY", "BATTLE", "CLOSED"}
  BY BridgeAssumption DEF InGame, InRoom, Entering, BridgeAssumption
<1> HIDE DEF d, phase, room, i
<1>8. /\ link' \in [Links -> Connections \cup {None}]
      /\ \A j \in Links \ {k} : link'[j] = link[j]
      /\ link'[k] # None /\ link'[k].phase = phase
      /\ link'[k].kind = link[k].kind /\ link'[k].owner = link[k].owner /\ link'[k].id = link[k].id
      /\ link'[k].row = link[k].row /\ link'[k].engine = link[k].engine
  BY ZenonT(60), <1>2, <1>4, <1>7, PhasePut
<1>9. Others(k) /\ Slot(k, d) /\ Seat(k, d)
  <2>1. Others(k)
    BY <1>8 DEF Others
  <2>2. Slot(k, d)
    BY <1>2, <1>3, <1>5, <1>6 DEF Slot, i
  <2>3. engines[i].bootstrap # k
    BY <1>2, <1>3, PhasesApart
  <2>4. Seat(k, d)
    BY <1>1, <1>2, <1>3, <1>6, <1>7, <1>8, <2>3 DEF Seat, Kind, i
  <2> QED BY <2>1, <2>2, <2>4
<1>10. /\ engines' \in Seq(Engines) /\ \A j \in Links : Seated(j)'
       /\ \A n \in DOMAIN engines' : Serving(n)'
  BY <1>1, <1>9, ClientMoved
<1>11. Pointed'
  <2>1. k \notin {Of(k).bootstrap, Of(k).game} \ {d.bootstrap, d.game}
    BY <1>2, <1>6
  <2> QED BY <1>1, <1>4, <1>9, <2>1, ClientStays DEF Pointed
<1>12. \A p \in Pids : HasGame(p)'
  <2>1. d.game = k
    BY <1>3, <1>6
  <2> QED BY <1>1, <1>4, <1>9, <2>1, ClientStays DEF HasGame
<1>13. Rows'
  <2>1. \A j \in Links : link'[j] # None /\ link'[j].row => link[j] # None /\ link[j].row /\ link'[j].id = link[j].id
    BY <1>2, <1>8
  <2> QED BY <1>4, <2>1, RowsKept DEF Attached
<1>14. BridgeTypes'
  BY <1>4, <1>8, <1>10 DEF BridgeTypes
<1> QED BY <1>10, <1>11, <1>12, <1>13, <1>14 DEF Attached, Clients

\* Released and orphaned: the binding of a client goes, with all the rows that
\* named it.
LEMMA ReleaseKept ==
    ASSUME BridgeTypes, Attached, NEW k \in Links, NEW id \in Identities, NEW c \in Connections \cup {None},
           link[k] # None, c # None => ~c.row,
           binding' = Released(id), link' = [Orphaned(id) EXCEPT ![k] = c]
    PROVE  /\ binding' \in [Pids -> Bindings \cup {None}] /\ link' \in [Links -> Connections \cup {None}]
           /\ link'[k] = c /\ Others(k) /\ Rows'
           /\ \A p \in Pids : binding'[p] # None => binding'[p] = binding[p] /\ id # [pid |-> p, life |-> binding[p].life]
<1>0. id.pid \in Pids /\ id # None
  BY BridgeAssumption DEF Identities, BridgeAssumption
<1>1. /\ binding' \in [Pids -> Bindings \cup {None}]
      /\ \A p \in Pids : binding'[p] = IF p = id.pid /\ Owns(id) THEN None ELSE binding[p]
  BY <1>0 DEF Released, BridgeTypes
<1>2. ASSUME NEW p \in Pids, binding'[p] # None
      PROVE  binding'[p] = binding[p] /\ id # [pid |-> p, life |-> binding[p].life]
  BY <1>0, <1>1, <1>2 DEF Owns
<1>3. ASSUME NEW j \in Links, link[j] # None
      PROVE  /\ Orphaned(id)[j] \in Connections /\ Orphaned(id)[j] # None
             /\ Orphaned(id)[j].kind = link[j].kind /\ Orphaned(id)[j].owner = link[j].owner
             /\ Orphaned(id)[j].id = link[j].id /\ Orphaned(id)[j].engine = link[j].engine
             /\ Orphaned(id)[j].phase = link[j].phase
             /\ Orphaned(id)[j].row => link[j].row /\ ~(link[j].id = id /\ Owns(id))
  <2>1. link[j] \in Connections
    BY <1>3 DEF BridgeTypes
  <2>2. Orphaned(id)[j] = IF link[j].id = id /\ Owns(id) THEN [link[j] EXCEPT !.row = FALSE] ELSE link[j]
    BY <1>3 DEF Orphaned
  <2>3. /\ [link[j] EXCEPT !.row = FALSE] \in Connections /\ [link[j] EXCEPT !.row = FALSE].row = FALSE
        /\ [link[j] EXCEPT !.row = FALSE].kind = link[j].kind /\ [link[j] EXCEPT !.row = FALSE].owner = link[j].owner
        /\ [link[j] EXCEPT !.row = FALSE].id = link[j].id /\ [link[j] EXCEPT !.row = FALSE].engine = link[j].engine
        /\ [link[j] EXCEPT !.row = FALSE].phase = link[j].phase
    BY <2>1 DEF Connections
  <2>4. Orphaned(id)[j] \in Connections
    BY <2>1, <2>2, <2>3
  <2> QED BY <1>3, <2>2, <2>3, <2>4, BridgeAssumption DEF BridgeAssumption
<1>4. \A j \in Links : link[j] = None => Orphaned(id)[j] = None
  BY DEF Orphaned
<1>5. Orphaned(id) \in [Links -> Connections \cup {None}]
  <2>1. \A j \in Links : Orphaned(id)[j] \in Connections \cup {None}
    BY <1>3, <1>4
  <2> QED BY <2>1 DEF Orphaned
<1>6. /\ link' \in [Links -> Connections \cup {None}]
      /\ \A j \in Links : link'[j] = IF j = k THEN c ELSE Orphaned(id)[j]
  BY <1>5
<1>7. Others(k)
  <2>1. \A j \in Links \ {k} : link[j] = None => link'[j] = link[j]
    BY <1>4, <1>6
  <2> QED BY <1>3, <1>6, <2>1 DEF Others
<1>8. ASSUME NEW j \in Links, link'[j] # None, link'[j].row
      PROVE  /\ link'[j].id # None /\ binding'[link'[j].id.pid] # None
             /\ binding'[link'[j].id.pid].life = link'[j].id.life
  <2>1. j # k /\ link'[j] = Orphaned(id)[j] /\ link[j] # None
    BY <1>4, <1>6, <1>8
  <2>2. link[j].row /\ ~(link[j].id = id /\ Owns(id)) /\ link'[j].id = link[j].id
    BY <1>3, <1>8, <2>1
  <2>3. link[j].id # None /\ binding[link[j].id.pid] # None /\ binding[link[j].id.pid].life = link[j].id.life
    BY <2>1, <2>2 DEF Attached, Rows, Rowed
  <2>4. link[j].id \in Identities /\ link[j].id.pid \in Pids
    BY <2>1, <2>3 DEF BridgeTypes, Connections, Identities
  <2>5. link[j].id.pid = id.pid /\ Owns(id) => link[j].id = id
    BY <2>3, <2>4 DEF Owns, Identities
  <2>6. binding'[link[j].id.pid] = binding[link[j].id.pid]
    BY <1>1, <2>2, <2>4, <2>5
  <2> QED BY <2>2, <2>3, <2>6
<1>9. Rows'
  BY <1>8 DEF Rows, Rowed
<1> QED BY <1>1, <1>2, <1>6, <1>7, <1>9

\* What Engine.disconnect makes of the engine of a connection.
Left(k) ==
    LET e == Of(k)
    IN  IF e.game = k
        THEN [e EXCEPT !.bootstrap = IF @ = k THEN None ELSE @, !.game = None, !.p2p = None, !.room = None]
        ELSE [e EXCEPT !.bootstrap = IF @ = k THEN None ELSE @]

LEMMA LeftIs ==
    ASSUME BridgeTypes, Attached, NEW k \in Links, Kind(k, "game")
    PROVE  /\ Left(k) \in Engines /\ Left(k).uid = Of(k).uid
           /\ Left(k).bootstrap = IF Of(k).bootstrap = k THEN None ELSE Of(k).bootstrap
           /\ Left(k).game = IF Of(k).game = k THEN None ELSE Of(k).game
           /\ Left(k).game = None => Left(k).p2p = None /\ Left(k).room = None
           /\ Left(k).game # None => Left(k).room = Of(k).room
           /\ Disconnected(k) = [engines EXCEPT ![link[k].engine] = Left(k)]
           /\ link[k].engine \in DOMAIN engines
<1>1. /\ Of(k) \in Engines /\ Of(k) = engines[link[k].engine]
      /\ link[k].engine \in DOMAIN engines /\ Serving(link[k].engine)
  BY ServedIs DEF Attached, Clients
<1>2. Of(k).game = None => Of(k).p2p = None /\ Of(k).room = None
  BY <1>1 DEF Serving
<1>3. Disconnected(k) = [engines EXCEPT ![link[k].engine] = Left(k)]
  BY DEF Disconnected, With, Left
<1> QED BY <1>1, <1>2, <1>3 DEF Left, Engines

\* e is what is left of the engine, with other grants: nobody else notices.
LEMMA LeavingSlot ==
    ASSUME BridgeTypes, Attached, NEW k \in Links, Kind(k, "game"), NEW e \in Engines,
           e.uid = Left(k).uid, e.bootstrap = Left(k).bootstrap, e.game = Left(k).game,
           e.p2p = Left(k).p2p, e.room = Left(k).room,
           engines' = [engines EXCEPT ![link[k].engine] = e],
           \/ link'[k] = None
           \/ /\ link'[k] # None /\ link'[k].kind = "game" /\ link'[k].engine = link[k].engine
              /\ link'[k].owner = link[k].owner /\ link'[k].phase = "CLOSED"
    PROVE  Slot(k, e) /\ Seat(k, e) /\ e.bootstrap # k /\ e.game # k
<1>1. k # None /\ Of(k) = engines[link[k].engine]
  BY ServedIs
<1>2. e.bootstrap # k /\ e.game # k
  BY <1>1, LeftIs
<1>3. Slot(k, e)
  <2> DEFINE n == engines[link[k].engine]
  <2>1. /\ e.bootstrap = IF n.bootstrap = k THEN None ELSE n.bootstrap
        /\ e.game = IF n.game = k THEN None ELSE n.game
        /\ e.uid = n.uid
        /\ e.game = None => e.p2p = None /\ e.room = None
        /\ e.game # None => e.room = n.room
    BY <1>1, LeftIs
  <2>2. \A j \in Links : j # None
    BY BridgeAssumption DEF BridgeAssumption
  <2>3. engines' = [engines EXCEPT ![link[k].engine] = e]
    OBVIOUS
  <2>4. \A j \in Links \ {k} : /\ e.bootstrap = j <=> n.bootstrap = j
                               /\ e.game = j <=> n.game = j
    BY <2>1, <2>2
  <2> HIDE DEF n
  <2> QED BY <2>1, <2>3, <2>4 DEF Slot, n
<1>4. Seat(k, e)
  BY <1>2, PhasesApart DEF Seat
<1> QED BY <1>2, <1>3, <1>4

\* The game client goes back to region selection: its binding stays, for the
\* next connection.
LEMMA RegionsStep ==
    ASSUME BridgeTypes, Attached, NEW k \in Links, ReturnToRegions(k)
    PROVE  BridgeTypes' /\ Attached'
<1> DEFINE i == link[k].engine
           id == link[k].owner
           row == [binding[id.pid] EXCEPT !.stage = ReturnedStage, !.lobby_ready = FALSE]
           e == [Left(k) EXCEPT !.handoff = TRUE]
<1>1. Kind(k, "game") /\ Of(k).game = k /\ Bound(id) /\ link' = [link EXCEPT ![k].phase = "CLOSED"]
      /\ pointer' = Gone(k) /\ UNCHANGED <<life, udp>>
  BY DEF ReturnToRegions, Accepted, Moved
<1>2. /\ link[k] \in Connections /\ link[k] # None /\ link[k].kind = "game" /\ i \in DOMAIN engines
      /\ id \in Identities /\ id.pid \in Pids /\ link[k].id = id
  BY <1>1, ServedIs
<1>3. /\ binding' = [binding EXCEPT ![id.pid] = row]
      /\ binding[id.pid] \in Bindings /\ binding[id.pid] # None
      /\ row \in Bindings /\ row.stage # "game" /\ row.life = binding[id.pid].life
  <2>1. binding[id.pid] # None /\ binding[id.pid] \in Bindings
    BY <1>1, <1>2 DEF Bound, BridgeTypes
  <2>2. binding' = [binding EXCEPT ![id.pid] = row]
    BY <1>2 DEF ReturnToRegions
  <2> QED BY <2>1, <2>2 DEF Bindings, ReturnedStage
<1>4. /\ e \in Engines /\ e.uid = Left(k).uid /\ e.bootstrap = Left(k).bootstrap /\ e.game = Left(k).game
      /\ e.p2p = Left(k).p2p /\ e.room = Left(k).room
  <2> DEFINE left == Left(k)
  <2>1. left \in Engines
    BY <1>1, LeftIs
  <2> HIDE DEF left
  <2>2. /\ e \in Engines /\ e.uid = left.uid /\ e.bootstrap = left.bootstrap /\ e.game = left.game
        /\ e.p2p = left.p2p /\ e.room = left.room
    BY <2>1 DEF Engines, left
  <2> QED BY <2>2 DEF left
<1>5. engines' = [engines EXCEPT ![i] = e]
  <2>1. engines' = [[engines EXCEPT ![i] = Left(k)] EXCEPT ![i].handoff = TRUE]
    BY <1>1, LeftIs DEF ReturnToRegions
  <2>2. [engines EXCEPT ![i] = Left(k)][i] = Left(k)
    BY <1>2
  <2> QED BY <2>1, <2>2
<1> HIDE DEF row, e, i, id
<1>6. /\ binding' \in [Pids -> Bindings \cup {None}] /\ row # None
      /\ \A q \in Pids : binding'[q] = IF q = id.pid THEN row ELSE binding[q]
  BY <1>2, <1>3, BindingPut
<1>7. /\ link' \in [Links -> Connections \cup {None}]
      /\ \A j \in Links \ {k} : link'[j] = link[j]
      /\ link'[k] # None /\ link'[k].phase = "CLOSED"
      /\ link'[k].kind = link[k].kind /\ link'[k].owner = link[k].owner /\ link'[k].id = link[k].id
      /\ link'[k].row = link[k].row /\ link'[k].engine = link[k].engine
  BY <1>1, <1>2, PhasePut
<1>8. Others(k)
  BY <1>7 DEF Others
<1>9. Slot(k, e) /\ Seat(k, e) /\ e.game # k
  <2>1. engines' = [engines EXCEPT ![link[k].engine] = e]
    BY <1>5 DEF i
  <2>2. /\ link'[k] # None /\ link'[k].kind = "game" /\ link'[k].engine = link[k].engine
        /\ link'[k].owner = link[k].owner /\ link'[k].phase = "CLOSED"
    BY <1>2, <1>7
  <2> QED BY <1>1, <1>4, <2>1, <2>2, LeavingSlot
<1>10. /\ engines' \in Seq(Engines) /\ \A j \in Links : Seated(j)'
       /\ \A n \in DOMAIN engines' : Serving(n)'
  BY <1>1, <1>8, <1>9, ClientMoved
<1>11. Pointed'
  <2>1. /\ pointer'.by = pointer.by
        /\ pointer'.fresh /\ ~pointer'.left => pointer.fresh /\ ~pointer.left /\ link[k].owner # pointer.by
    BY <1>1 DEF Gone, BridgeTypes
  <2> QED BY <1>1, <1>8, <1>9, <2>1, ClientStays
<1>12. ASSUME NEW p \in Pids
       PROVE  HasGame(p)'
  <2>1. CASE p = id.pid
    BY <1>3, <1>6, <2>1 DEF HasGame
  <2>2. CASE p # id.pid
    <3>1. binding'[p] = binding[p]
      BY <1>6, <2>2
    <3>2. \A n : link[k].owner # [pid |-> p, life |-> n]
      BY <2>2 DEF id
    <3> QED BY <1>1, <1>8, <1>9, <3>1, <3>2, ClientStays DEF HasGame
  <2> QED BY <2>1, <2>2
<1>13. Rows'
  <2>1. \A j \in Links : link'[j] # None /\ link'[j].row => link[j] # None /\ link[j].row /\ link'[j].id = link[j].id
    BY <1>2, <1>7
  <2>2. \A q \in Pids : binding[q] # None => binding'[q] # None /\ binding'[q].life = binding[q].life
    BY <1>3, <1>6
  <2> QED BY <2>1, <2>2, RowsKept DEF Attached
<1>14. BridgeTypes'
  <2>1. pointer' \in [by : Identities \cup {None}, fresh : BOOLEAN, left : BOOLEAN]
    BY <1>1 DEF Gone, BridgeTypes
  <2> QED BY <1>1, <1>6, <1>7, <1>10, <2>1 DEF BridgeTypes
<1> QED BY <1>10, <1>11, <1>12, <1>13, <1>14 DEF Attached, Clients

\* The client goes back to the login: its binding goes, and with it every row
\* that named it.
LEMMA ReturnStep ==
    ASSUME BridgeTypes, Attached, NEW k \in Links, ReturnToLogin(k)
    PROVE  BridgeTypes' /\ Attached'
<1> DEFINE i == link[k].engine
           id == link[k].owner
           c == [Orphaned(id)[k] EXCEPT !.phase = "CLOSED"]
           e == [Left(k) EXCEPT !.handoff = FALSE, !.granted = FALSE]
<1>1. Kind(k, "game") /\ Of(k).bootstrap = k /\ Bound(id)
      /\ pointer' = Gone(k) /\ UNCHANGED <<life, udp>>
  BY DEF ReturnToLogin, Accepted
<1>2. /\ link[k] \in Connections /\ link[k] # None /\ link[k].kind = "game" /\ i \in DOMAIN engines
      /\ id \in Identities /\ id.pid \in Pids /\ link[k].id = id
  BY <1>1, ServedIs
<1>3. binding' = Released(id) /\ link' = [Orphaned(id) EXCEPT ![k] = c]
  BY <1>2 DEF ReturnToLogin
<1>4. Orphaned(id)[k] = [link[k] EXCEPT !.row = FALSE]
  BY <1>1, <1>2, BridgeAssumption DEF Orphaned, Owns, Bound, BridgeAssumption
<1>5. /\ c \in Connections /\ c.kind = "game" /\ c.engine = i /\ c.owner = id /\ c.phase = "CLOSED" /\ c.row = FALSE
  BY <1>2, <1>4 DEF Connections
<1>6. /\ e \in Engines /\ e.uid = Left(k).uid /\ e.bootstrap = Left(k).bootstrap /\ e.game = Left(k).game
      /\ e.p2p = Left(k).p2p /\ e.room = Left(k).room
  <2> DEFINE left == Left(k)
  <2>1. left \in Engines
    BY <1>1, LeftIs
  <2> HIDE DEF left
  <2>2. /\ e \in Engines /\ e.uid = left.uid /\ e.bootstrap = left.bootstrap /\ e.game = left.game
        /\ e.p2p = left.p2p /\ e.room = left.room
    BY <2>1 DEF Engines, left
  <2> QED BY <2>2 DEF left
<1>7. engines' = [engines EXCEPT ![i] = e]
  <2>1. engines' = [[engines EXCEPT ![i] = Left(k)] EXCEPT ![i] = [@ EXCEPT !.handoff = FALSE, !.granted = FALSE]]
    BY <1>1, LeftIs DEF ReturnToLogin
  <2>2. [engines EXCEPT ![i] = Left(k)][i] = Left(k)
    BY <1>2
  <2> QED BY <2>1, <2>2
<1> HIDE DEF c, e, i, id
<1>8. c # None
  BY <1>5, BridgeAssumption DEF BridgeAssumption
<1>9. /\ binding' \in [Pids -> Bindings \cup {None}] /\ link' \in [Links -> Connections \cup {None}]
      /\ link'[k] = c /\ Others(k) /\ Rows'
      /\ \A p \in Pids : binding'[p] # None => binding'[p] = binding[p] /\ id # [pid |-> p, life |-> binding[p].life]
  BY <1>2, <1>3, <1>5, ReleaseKept
<1>10. Slot(k, e) /\ Seat(k, e)
  BY <1>1, <1>5, <1>6, <1>7, <1>8, <1>9, LeavingSlot DEF i, id
<1>11. /\ engines' \in Seq(Engines) /\ \A j \in Links : Seated(j)'
       /\ \A n \in DOMAIN engines' : Serving(n)'
  BY <1>1, <1>9, <1>10, ClientMoved
<1>12. Pointed'
  <2>1. /\ pointer'.by = pointer.by
        /\ pointer'.fresh /\ ~pointer'.left => pointer.fresh /\ ~pointer.left /\ link[k].owner # pointer.by
    BY <1>1 DEF Gone, BridgeTypes
  <2> QED BY <1>1, <1>9, <1>10, <2>1, ClientStays
<1>13. ASSUME NEW p \in Pids
       PROVE  HasGame(p)'
  <2>1. CASE binding'[p] = None
    BY <2>1 DEF HasGame
  <2>2. CASE binding'[p] # None
    <3>1. binding'[p] = binding[p] /\ link[k].owner # [pid |-> p, life |-> binding[p].life]
      BY <1>9, <2>2 DEF id
    <3> QED BY <1>1, <1>9, <1>10, <3>1, ClientStays DEF HasGame
  <2> QED BY <2>1, <2>2
<1>14. BridgeTypes'
  <2>1. pointer' \in [by : Identities \cup {None}, fresh : BOOLEAN, left : BOOLEAN]
    BY <1>1 DEF Gone, BridgeTypes
  <2> QED BY <1>1, <1>9, <1>11, <2>1 DEF BridgeTypes
<1> QED BY <1>9, <1>11, <1>12, <1>13, <1>14 DEF Attached, Clients

\* A connection ends: of a client that is served, with its binding and the
\* role-ready file; of one between two connections, alone.
LEMMA EndStep ==
    ASSUME BridgeTypes, Attached, NEW k \in Links, GameEnd(k)
    PROVE  BridgeTypes' /\ Attached'
<1> DEFINE id == link[k].id
           e == Left(k)
<1>1. Kind(k, "game") /\ UNCHANGED <<life, udp>> /\ engines' = Disconnected(k)
  BY DEF GameEnd
<1>2. /\ link[k] \in Connections /\ link[k] # None /\ link[k].kind = "game"
      /\ link[k].phase \in Entering <=> Of(k).bootstrap = k
      /\ link[k].phase \in InGame <=> Of(k).game = k
      /\ link[k].phase \in Entering \cup InGame => id = link[k].owner
      /\ link[k].owner \in Identities
  BY <1>1, ServedIs
<1>3. /\ e \in Engines /\ e.uid = Left(k).uid /\ e.bootstrap = Left(k).bootstrap /\ e.game = Left(k).game
      /\ e.p2p = Left(k).p2p /\ e.room = Left(k).room
      /\ engines' = [engines EXCEPT ![link[k].engine] = e]
  BY <1>1, LeftIs
<1> HIDE DEF e
<1>4. /\ binding' \in [Pids -> Bindings \cup {None}] /\ link' \in [Links -> Connections \cup {None}]
      /\ link'[k] = None /\ Others(k) /\ Rows'
      /\ \A p \in Pids : binding'[p] # None =>
             binding'[p] = binding[p] /\ (Of(k).game = k => link[k].owner # [pid |-> p, life |-> binding[p].life])
  <2>1. CASE LostByItself(k)
    <3>1. link[k].phase \in Entering \cup InGame
      BY <1>2, <2>1 DEF LostByItself
    <3>2. id \in Identities /\ id = link[k].owner
      BY <1>2, <3>1
    <3>3. binding' = Released(id) /\ link' = [Orphaned(id) EXCEPT ![k] = None]
      BY <2>1 DEF GameEnd
    <3> HIDE DEF id
    <3>4. /\ binding' \in [Pids -> Bindings \cup {None}] /\ link' \in [Links -> Connections \cup {None}]
          /\ link'[k] = None /\ Others(k) /\ Rows'
          /\ \A p \in Pids : binding'[p] # None => binding'[p] = binding[p] /\ id # [pid |-> p, life |-> binding[p].life]
      BY <1>2, <3>2, <3>3, ReleaseKept
    <3> QED BY <3>2, <3>4
  <2>2. CASE ~LostByItself(k)
    <3>1. binding' = binding /\ link' = [link EXCEPT ![k] = None] /\ Of(k).game # k
      BY <2>2 DEF GameEnd, LostByItself
    <3>2. /\ link' \in [Links -> Connections \cup {None}]
          /\ \A j \in Links : link'[j] = IF j = k THEN None ELSE link[j]
      BY <3>1, LinkPut
    <3>3. Others(k)
      BY <3>2 DEF Others
    <3>4. Rows'
      BY <3>1, <3>2, RowsKept DEF Attached
    <3>5. binding' \in [Pids -> Bindings \cup {None}]
      BY <3>1 DEF BridgeTypes
    <3> QED BY <3>1, <3>2, <3>3, <3>4, <3>5
  <2> QED BY <2>1, <2>2
<1>5. Slot(k, e) /\ Seat(k, e)
  BY <1>1, <1>3, <1>4, LeavingSlot
<1>6. /\ engines' \in Seq(Engines) /\ \A j \in Links : Seated(j)'
      /\ \A n \in DOMAIN engines' : Serving(n)'
  BY <1>1, <1>4, <1>5, ClientMoved
<1>7. /\ pointer'.by = pointer.by
      /\ pointer'.fresh /\ ~pointer'.left =>
             /\ pointer.fresh /\ ~pointer.left
             /\ k \in {Of(k).bootstrap, Of(k).game} => link[k].owner # pointer.by
      /\ pointer' \in [by : Identities \cup {None}, fresh : BOOLEAN, left : BOOLEAN]
  <2>1. CASE LostByItself(k)
    BY <2>1 DEF GameEnd, BridgeTypes
  <2>2. CASE ~LostByItself(k) /\ Of(k).bootstrap = k /\ link[k].phase = "HANDOFF"
    BY <2>2 DEF GameEnd, Gone, BridgeTypes
  <2>3. CASE ~LostByItself(k) /\ ~(Of(k).bootstrap = k /\ link[k].phase = "HANDOFF")
    <3>1. pointer' = pointer
      BY <2>3 DEF GameEnd
    <3>2. k \notin {Of(k).bootstrap, Of(k).game}
      BY <2>3 DEF LostByItself
    <3> QED BY <3>1, <3>2 DEF BridgeTypes
  <2> QED BY <2>1, <2>2, <2>3
<1>8. Pointed'
  BY <1>1, <1>4, <1>5, <1>7, ClientStays
<1>9. ASSUME NEW p \in Pids
      PROVE  HasGame(p)'
  <2>1. CASE binding'[p] = None
    BY <2>1 DEF HasGame
  <2>2. CASE binding'[p] # None
    <3>1. /\ binding'[p] = binding[p]
          /\ Of(k).game = k => link[k].owner # [pid |-> p, life |-> binding[p].life]
      BY <1>4, <2>2
    <3> QED BY <1>1, <1>4, <1>5, <3>1, ClientStays DEF HasGame
  <2> QED BY <2>1, <2>2
<1>10. BridgeTypes'
  BY <1>1, <1>4, <1>6, <1>7 DEF BridgeTypes
<1> QED BY <1>4, <1>6, <1>8, <1>9, <1>10 DEF Attached, Clients

LEMMA BridgeStep ==
    ASSUME BridgeTypes, Attached, BridgeNext
    PROVE  BridgeTypes' /\ Attached'
<1>1. ASSUME NEW p \in Pids, Exit(p) \/ Overdue(p) \/ SessionOver(p)
      PROVE  BridgeTypes' /\ Attached'
  BY <1>1, ClockStep
<1>2. ASSUME NEW p \in Pids, NEW u \in Uids, Bind(p, u)
      PROVE  BridgeTypes' /\ Attached'
  BY <1>2, BindStep
<1>3. ASSUME NEW k \in Links, NEW p \in Pids, NEW kind \in {"sdk", "game"}, Connect(k, p, kind)
      PROVE  BridgeTypes' /\ Attached'
  BY <1>3, ConnectionStep
<1>4. ASSUME NEW k \in Links, SdkEnd(k)
      PROVE  BridgeTypes' /\ Attached'
  BY <1>4, ConnectionStep
<1>5. ASSUME NEW k \in Links, SdkLogin(k) \/ SdkList(k)
      PROVE  BridgeTypes' /\ Attached'
  BY <1>5, SdkStep
<1>6. ASSUME NEW k \in Links, \/ BootstrapSent(k) \/ ProfileReady(k) \/ SelectRole(k)
                              \/ StartRoom(k) \/ RoomLoaded(k) \/ RoomReady(k)
      PROVE  BridgeTypes' /\ Attached'
  BY <1>6, StayingStep
<1>7. ASSUME NEW k \in Links, Bootstrap(k) \/ EnterLobby(k)
      PROVE  BridgeTypes' /\ Attached'
  BY <1>7, EnterStep
<1>8. ASSUME NEW k \in Links, WritePointer(k) \/ Directory(k)
      PROVE  BridgeTypes' /\ Attached'
  BY <1>8, ReadyStep
<1>9. ASSUME NEW k \in Links, ReturnToRegions(k) \/ ReturnToLogin(k) \/ GameEnd(k)
      PROVE  BridgeTypes' /\ Attached'
  BY <1>9, RegionsStep, ReturnStep, EndStep
<1>10. ASSUME NEW k \in Links, NEW kind \in {"casual", "competitive"}, CreateRoom(k, kind) \/ LeaveRoom(k)
       PROVE  BridgeTypes' /\ Attached'
  BY <1>10, RoomStep
<1>11. ASSUME NEW k \in Links, LeaveRoom(k)
       PROVE  BridgeTypes' /\ Attached'
  BY <1>11, RoomStep
<1>12. ASSUME \/ \E i \in DOMAIN engines : Lapse(i)
              \/ \E x \in Endpoints : Unregister(x) \/ \E id \in Identities : Datagram(x, id)
              \/ \E k \in Links : BindP2P(k)
       PROVE  BridgeTypes' /\ Attached'
  BY <1>12, LeaseStep
<1> QED BY <1>1, <1>2, <1>3, <1>4, <1>5, <1>6, <1>7, <1>8, <1>9, <1>10, <1>11, <1>12 DEF BridgeNext

LEMMA BridgeInvariant == BridgeSpec => [](BridgeTypes /\ Attached)
<1>1. BridgeInit => BridgeTypes /\ Attached
  <2> SUFFICES ASSUME BridgeInit
               PROVE  BridgeTypes /\ Attached
    OBVIOUS
  <2>1. BridgeTypes
    BY BridgeAssumption DEF BridgeInit, BridgeTypes, BridgeAssumption
  <2>2. \A k \in Links : link[k] = None
    BY DEF BridgeInit
  <2>3. \A p \in Pids : binding[p] = None
    BY DEF BridgeInit
  <2>4. DOMAIN engines = {} /\ ~pointer.fresh
    BY DEF BridgeInit
  <2> QED BY <2>1, <2>2, <2>3, <2>4 DEF Attached, Rows, Rowed, Clients, Seated, Kind, HasGame, Pointed
<1>2. BridgeTypes /\ Attached /\ [BridgeNext]_bridgeVars => (BridgeTypes /\ Attached)'
  <2> SUFFICES ASSUME BridgeTypes, Attached, UNCHANGED bridgeVars
               PROVE  BridgeTypes' /\ Attached'
    BY BridgeStep
  <2>1. /\ life' = life /\ binding' = binding /\ engines' = engines /\ link' = link
        /\ udp' = udp /\ pointer' = pointer
    BY DEF bridgeVars
  <2>2. BridgeTypes'
    BY <2>1 DEF BridgeTypes
  <2>3. Rows'
    BY <2>1 DEF Attached, Rows, Rowed
  <2>4. Clients'
    BY <2>1 DEF Attached, Clients, Seated, Serving, HasGame, Kind, Of
  <2>5. Pointed'
    BY <2>1 DEF Attached, Pointed, Served, Kind, Of
  <2> QED BY <2>2, <2>3, <2>4, <2>5 DEF Attached
<1> QED BY <1>1, <1>2, PTL DEF BridgeSpec

\* Nothing of a client outlives its connections, whatever happens to its
\* process, its session and its other connections: its binding in stage "game",
\* the role-ready file it wrote, its lease and its room (auth.py, service.py).
THEOREM ClientsAlwaysHeld == BridgeSpec => []ClientsHeld
<1>1. BridgeTypes /\ Attached => ClientsHeld
  <2> SUFFICES ASSUME BridgeTypes, Attached
               PROVE  ClientsHeld
    OBVIOUS
  <2>1. \A p \in Pids :
            binding[p] # None /\ binding[p].stage = "game" =>
                \E k \in Links : /\ Kind(k, "game") /\ Of(k).game = k
                                 /\ link[k].owner = [pid |-> p, life |-> binding[p].life]
                                 /\ Of(k).uid = binding[p].uid
    BY DEF Attached, Clients, HasGame
  <2>2. pointer.fresh /\ ~pointer.left => \E k \in Links : Served(k) /\ link[k].owner = pointer.by
    BY DEF Attached, Pointed
  <2>3. ASSUME NEW i \in DOMAIN engines
        PROVE  /\ engines[i].game = None => engines[i].p2p = None /\ engines[i].room = None
               /\ engines[i].game # None =>
                      (engines[i].room # None) =
                          (link[engines[i].game].phase \in {"ROOM", "LOADING", "WAIT_READY", "BATTLE"})
    <3>1. Serving(i)
      BY DEF Attached, Clients
    <3> QED BY <3>1 DEF Serving, InRoom
  <2> QED BY <2>1, <2>2, <2>3 DEF ClientsHeld
<1> QED BY <1>1, BridgeInvariant, PTL

=============================================================================
