------------------------------ MODULE Accounts ------------------------------
(***************************************************************************)
(* Accounts of the public service: AuthManager of server/kk_local/auth.py, *)
(* PublicAuthManager of public_auth.py and their tables (storage/auth.py,  *)
(* storage/public_access.py).  A call is a coroutine that checks its       *)
(* request, waits for a hashing slot, has a worker thread hash the         *)
(* password and then decides in one transaction; everything it read before *)
(* may have changed by then, its caller may be gone and the service may    *)
(* have been restarted.  Tables survive a restart, coroutines do not.      *)
(*                                                                         *)
(* A credential is the number of its row's version (salts are never        *)
(* repeated), 0 for none; a call presents the password of some version.    *)
(* A row that has expired is as good as gone to every reader of sessions,  *)
(* and login deletes it before it counts them.                             *)
(***************************************************************************)
EXTENDS SequencesExt

CONSTANTS
    Names,        \* normalized account names
    Legacy,       \* accounts of the offline service, without a credential
    Codes,        \* invitations
    Calls,        \* identities of coroutines
    None,
    SessionLimit, \* sessions of one account (3)
    Tolerance,    \* failures that block an account (5)
    FailureRows,  \* accounts whose failures are kept (10000)
    HashWorkers, HashWaiters,  \* hash_workers and hash_waiters of the policy
    Subjects,     \* bound: who logs in
    Administered, \* bound: whose password is reset and who is disabled
    MaxVersion    \* bound: versions of a credential

Versions == 0 .. MaxVersion
Passwords == 1 .. MaxVersion
Requests ==
    [op : {"register", "login", "reset"}, name : Names, row : Versions, typed : Passwords,
     code : Codes \cup {None}, stage : {"queued", "hashing", "hashed"}]

ASSUME AccountsAssumption ==
    /\ Legacy \subseteq Names /\ Subjects \subseteq Names /\ Administered \subseteq Names
    /\ None \notin Names \cup Codes \cup Requests
    /\ SessionLimit \in Nat \ {0} /\ Tolerance \in Nat \ {0} /\ FailureRows \in Nat
    /\ HashWorkers \in Nat \ {0} /\ HashWaiters \in Nat /\ MaxVersion \in Nat \ {0}

VARIABLES
    accounts,       \* names with an account
    credential,     \* auth_credentials
    disabled,       \* public_disabled
    sessions,       \* auth_sessions: versions they were granted for, newest first
    failures,       \* auth_failures, 0 for no row
    blocked,        \* names with blocked_until in the future
    outdated,       \* names whose failures are an hour old
    used_by,        \* public_invites.used_by
    void,           \* invitations that were revoked or have expired
    call,           \* a coroutine's local variables, or None
    hash_slots,     \* free slots of the semaphore
    hash_admitted,  \* calls queued for a slot or holding one
    orphans,        \* hash jobs whose caller is gone
    tries           \* history: failures answered, less the blocks served for them

tables == <<accounts, credential, disabled, sessions, failures, blocked, outdated, used_by, void, tries>>
pool == <<hash_slots, hash_admitted, orphans>>
vars == <<tables, call, pool>>

Init ==
    /\ accounts = Legacy
    /\ credential = [n \in Names |-> 0]
    /\ disabled = {}
    /\ sessions = [n \in Names |-> <<>>]
    /\ failures = [n \in Names |-> 0]
    /\ blocked = {} /\ outdated = {}
    /\ used_by = [i \in Codes |-> None]
    /\ void = {}
    /\ call = [c \in Calls |-> None]
    /\ hash_slots = HashWorkers /\ hash_admitted = 0 /\ orphans = 0
    /\ tries = [n \in Names |-> 0]

-----------------------------------------------------------------------------
(* Hashing (public_auth.py, _hash)                                         *)

\* The call enters _hash, which refuses it when too many are waiting.
Queue(c, op, n, typed, code) ==
    /\ call[c] = None
    /\ hash_admitted < HashWorkers + HashWaiters
    /\ hash_admitted' = hash_admitted + 1
    /\ call' = [call EXCEPT ![c] = [op |-> op, name |-> n, row |-> credential[n],
                                    typed |-> typed, code |-> code, stage |-> "queued"]]
    /\ UNCHANGED <<hash_slots, orphans>>

In(c, stage) == call[c] # None /\ call[c].stage = stage

StartHash(c) ==
    /\ In(c, "queued")
    /\ hash_slots > 0
    /\ hash_slots' = hash_slots - 1
    /\ call' = [call EXCEPT ![c].stage = "hashing"]
    /\ UNCHANGED <<tables, hash_admitted, orphans>>

\* The worker has finished: its done callback returns the slot.
Hashed(c) ==
    /\ In(c, "hashing")
    /\ hash_slots' = hash_slots + 1
    /\ hash_admitted' = hash_admitted - 1
    /\ call' = [call EXCEPT ![c].stage = "hashed"]
    /\ UNCHANGED <<tables, orphans>>

OrphanHashed ==
    /\ orphans > 0
    /\ orphans' = orphans - 1
    /\ hash_slots' = hash_slots + 1
    /\ hash_admitted' = hash_admitted - 1
    /\ UNCHANGED <<tables, call>>

\* Mutant: a cancelled caller returns its slot while the worker still runs.
ReleasesAtOnce(c) ==
    /\ hash_slots' = IF In(c, "hashing") THEN hash_slots + 1 ELSE hash_slots
    /\ hash_admitted' = IF In(c, "hashed") THEN hash_admitted ELSE hash_admitted - 1
    /\ orphans' = IF In(c, "hashing") THEN orphans + 1 ELSE orphans
\* What is returned for a caller that goes away: the place in the queue, but
\* not the slot of a job that cannot be stopped.
Releases(c) ==
    /\ hash_admitted' = IF In(c, "queued") THEN hash_admitted - 1 ELSE hash_admitted
    /\ orphans' = IF In(c, "hashing") THEN orphans + 1 ELSE orphans
    /\ UNCHANGED hash_slots

\* The connection is lost or times out, or no slot gets free in time.
Cancel(c) ==
    /\ call[c] # None
    /\ Releases(c)
    /\ call' = [call EXCEPT ![c] = None]
    /\ UNCHANGED tables

Restart ==
    /\ call' = [c \in Calls |-> None]
    /\ hash_slots' = HashWorkers /\ hash_admitted' = 0 /\ orphans' = 0
    /\ UNCHANGED tables

\* The transaction of a hashed call, and the end of the call.
Decides(c, op) ==
    /\ In(c, "hashed") /\ call[c].op = op
    /\ call' = [call EXCEPT ![c] = None]
    /\ UNCHANGED pool

-----------------------------------------------------------------------------
(* Registration                                                            *)

Redeemable(i) == i \notin void /\ used_by[i] = None

RegisterStart(c, n, i) ==
    /\ Redeemable(i)
    /\ Queue(c, "register", n, 1, i)
    /\ UNCHANGED tables

\* Mutant: the invitation that was checked before the hash is good.
Redeemed(i) == i # None
\* consume: the invitation has to be good still.
Consumes(i) == Redeemable(i)

\* Account, credential and invitation are written together or not at all.
Register(c) ==
    LET n == call[c].name  i == call[c].code
    IN  /\ Decides(c, "register")
        /\ IF n \notin accounts /\ Consumes(i)
           THEN /\ accounts' = accounts \cup {n}
                /\ credential' = [credential EXCEPT ![n] = 1]
                /\ used_by' = [used_by EXCEPT ![i] = n]
           ELSE UNCHANGED <<accounts, credential, used_by>>
        /\ UNCHANGED <<disabled, sessions, failures, blocked, outdated, void, tries>>

RevokeInvite(i) ==
    /\ i \notin void
    /\ void' = void \cup {i}
    /\ UNCHANGED <<accounts, credential, disabled, sessions, failures, blocked, outdated,
                   used_by, tries, call, pool>>

-----------------------------------------------------------------------------
(* Login                                                                   *)

\* Failure rows without those of the names N.
Forgiven(N) ==
    /\ failures' = [n \in Names |-> IF n \in N THEN 0 ELSE failures[n]]
    /\ tries' = [n \in Names |-> IF n \in N THEN 0 ELSE tries[n]]
    /\ blocked' = blocked \ N
    /\ outdated' = outdated \ N

LoginStart(c, n, typed) ==
    /\ n \notin blocked
    /\ Queue(c, "login", n, typed, None)
    /\ Forgiven(outdated)
    /\ UNCHANGED <<accounts, credential, disabled, sessions, used_by, void>>

\* Mutant: the password of the row that was read before the hash is good.
Matches(k) == k.row # 0 /\ k.typed = k.row /\ k.name \notin disabled
\* The password matches a credential that is still the account's, and the
\* account has not been disabled.
Valid(k) == k.row # 0 /\ k.typed = k.row /\ credential[k.name] = k.row /\ k.name \notin disabled

Uncapped(n) == failures[n] + 1   \* mutant
Counted(n) == Min({Tolerance, failures[n] + 1})

\* A failure is recorded unless the table is full; the last one tolerated,
\* and every later one, blocks the account.
Fail(n) ==
    IF failures[n] > 0 \/ Cardinality({m \in Names : failures[m] > 0}) < FailureRows
    THEN /\ failures' = [failures EXCEPT ![n] = Counted(n)]
         /\ blocked' = IF Counted(n) >= Tolerance THEN blocked \cup {n} ELSE blocked
         /\ outdated' = outdated \ {n}
         /\ tries' = [tries EXCEPT ![n] = @ + 1]
    ELSE UNCHANGED <<failures, blocked, outdated, tries>>

\* The two newest sessions are kept beside the new one.
Grant(n, version) ==
    sessions' = [sessions EXCEPT ![n] = <<version>> \o SubSeq(@, 1, Min({SessionLimit - 1, Len(@)}))]

\* Mutant: a block that began during the hash does not count.
Unimpeded(n) == TRUE
Admitted(n) == n \notin blocked

\* The decision after the hash; while the account is blocked not even the
\* right password is answered, nor a wrong one counted.
Login(c) ==
    LET n == call[c].name
    IN  /\ Decides(c, "login")
        /\ CASE ~Admitted(n) ->
                  UNCHANGED <<sessions, failures, blocked, outdated, tries>>
             [] Admitted(n) /\ ~Valid(call[c]) ->
                  Fail(n) /\ UNCHANGED sessions
             [] Admitted(n) /\ Valid(call[c]) ->
                  Forgiven(outdated \cup {n}) /\ Grant(n, call[c].row)
        /\ UNCHANGED <<accounts, credential, disabled, used_by, void>>

\* Logout, or the session's eight hours have passed.
EndSession(n) ==
    \E k \in DOMAIN sessions[n] :
        /\ sessions' = [sessions EXCEPT ![n] = RemoveAt(@, k)]
        /\ UNCHANGED <<accounts, credential, disabled, failures, blocked, outdated, used_by,
                       void, tries, call, pool>>

\* The thirty seconds of a block, or the hour of a failure, have passed.
Unblock(n) ==
    /\ n \in blocked
    /\ blocked' = blocked \ {n}
    /\ tries' = [tries EXCEPT ![n] = @ - 1]
    /\ UNCHANGED <<accounts, credential, disabled, sessions, failures, outdated, used_by,
                   void, call, pool>>

Age(n) ==
    /\ failures[n] > 0 /\ n \notin blocked \cup outdated
    /\ outdated' = outdated \cup {n}
    /\ UNCHANGED <<accounts, credential, disabled, sessions, failures, blocked, used_by,
                   void, tries, call, pool>>

-----------------------------------------------------------------------------
(* Administration                                                          *)

\* set_local_password
ResetStart(c, n) ==
    /\ n \in accounts
    /\ credential[n] < MaxVersion
    /\ Queue(c, "reset", n, 1, None)
    /\ UNCHANGED tables

Reset(c) ==
    LET n == call[c].name
    IN  /\ Decides(c, "reset")
        /\ credential[n] < MaxVersion
        /\ credential' = [credential EXCEPT ![n] = @ + 1]
        /\ sessions' = [sessions EXCEPT ![n] = <<>>]
        /\ Forgiven({n})
        /\ UNCHANGED <<accounts, disabled, used_by, void>>

Disable(n) ==
    /\ credential[n] # 0 /\ n \notin disabled
    /\ disabled' = disabled \cup {n}
    /\ sessions' = [sessions EXCEPT ![n] = <<>>]
    /\ UNCHANGED <<accounts, credential, failures, blocked, outdated, used_by, void, tries, call, pool>>

-----------------------------------------------------------------------------
Next ==
    \/ \E c \in Calls :
           \/ \E n \in Names, i \in Codes : RegisterStart(c, n, i)
           \/ \E n \in Subjects, v \in Passwords : LoginStart(c, n, v)
           \/ \E n \in Administered : ResetStart(c, n)
    \/ \E c \in Calls : StartHash(c) \/ Hashed(c) \/ Cancel(c) \/ Register(c) \/ Login(c) \/ Reset(c)
    \/ OrphanHashed
    \/ Restart
    \/ \E i \in Codes : RevokeInvite(i)
    \/ \E n \in Subjects : EndSession(n) \/ Unblock(n) \/ Age(n)
    \/ \E n \in Administered : Disable(n)

Spec == Init /\ [][Next]_vars

-----------------------------------------------------------------------------
\* Every variable holds a value of the column or attribute it stands for.
TypeOK ==
    /\ accounts \subseteq Names /\ disabled \subseteq Names
    /\ credential \in [Names -> Versions]
    /\ sessions \in [Names -> Seq(Versions)]
    /\ failures \in [Names -> 0 .. Tolerance]
    /\ blocked \subseteq Names /\ outdated \subseteq Names
    /\ used_by \in [Codes -> Names \cup {None}]
    /\ void \subseteq Codes
    /\ call \in [Calls -> Requests \cup {None}]
    /\ hash_slots \in Nat /\ hash_admitted \in Nat /\ orphans \in Nat
    /\ tries \in [Names -> Nat]

\* "Do not grant a stale password after a concurrent local reset": every
\* session was granted for the credential the account has now, a disabled
\* account has none, and an account has at most SessionLimit.
SessionsCurrent ==
    /\ TypeOK
    /\ \A n \in Names :
           /\ \A k \in DOMAIN sessions[n] : sessions[n][k] = credential[n] /\ n \notin disabled
           /\ Len(sessions[n]) <= SessionLimit

\* Registrations and invitations pay for each other: every account that was
\* registered spent exactly one invitation, however many calls held the same
\* code or wanted the same name, and a call that failed spent none.
InvitesSpent ==
    /\ \A n \in accounts \ Legacy : Cardinality({i \in Codes : used_by[i] = n}) = 1
    /\ \A i \in Codes : used_by[i] \in (accounts \ Legacy) \cup {None}

\* Nobody learns more about a password than one answer per block after the
\* first Tolerance: calls that were hashing when the block began get none.
\* Failures a full table does not record are not counted.
GuessesPaced ==
    \A n \in Names : tries[n] <= Tolerance - (IF n \in blocked THEN 0 ELSE 1)

\* The slots that are not free are the running jobs, with or without a
\* caller; admission counts these and the waiting calls.
HashSlotsExact ==
    LET running == Cardinality({c \in Calls : In(c, "hashing")}) + orphans
    IN  /\ hash_slots = HashWorkers - running
        /\ hash_admitted = running + Cardinality({c \in Calls : In(c, "queued")})
=============================================================================
