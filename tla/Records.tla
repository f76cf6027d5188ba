------------------------------ MODULE Records ------------------------------
(***************************************************************************)
(* One direction of the record protection of the native service: class     *)
(* Records of server/kk_local/native_crypto.py, which numbers the records  *)
(* a peer seals and refuses the ones it has opened before.  The network    *)
(* may lose, delay, duplicate, reorder and forge records.  AES-GCM is      *)
(* external: a record decrypts if and only if the peer sealed it.          *)
(***************************************************************************)
EXTENDS Integers

CONSTANTS Limit,    \* LIMIT, records per key (2^32 in the code)
          Window    \* width of the replay window (1024 in the code)

ASSUME RecordsAssumption ==
    /\ Limit \in Nat
    /\ Window \in Nat \ {0}

VARIABLES
    channel,  \* "UDP", or "TCP" for the SDK and GAME channels
    sent,     \* the sealing side's counter
    next,     \* the next number a stream expects
    high,     \* the highest number a datagram was opened with, or -1
    seen,     \* bitmap of the window: ages of opened datagrams behind high
    closed,   \* a RecordError closed the stream
    opened    \* history: how often a number was opened

vars == <<channel, sent, next, high, seen, closed, opened>>

Sequence == 0 .. Limit - 1
Ages == 0 .. Window - 1

\* What may reach the receiver: any header that inspect() lets pass, with a
\* body that decrypts only when the peer sealed that record.
Packets == {p \in [seq : Sequence, genuine : BOOLEAN] : p.genuine => p.seq < sent}

Init ==
    /\ channel \in {"UDP", "TCP"}
    /\ sent = 0
    /\ next = 0
    /\ high = -1
    /\ seen = {}
    /\ closed = FALSE
    /\ opened = [s \in Sequence |-> 0]

Seal ==
    /\ sent < Limit
    /\ sent' = sent + 1
    /\ UNCHANGED <<channel, next, high, seen, closed, opened>>

\* Mutant: only the highest number is remembered; a stream tolerates gaps.
Overtaken(s) == IF channel = "UDP" THEN high - s >= Window \/ high = s ELSE s < next

\* The check before decryption.
Replayed(s) ==
    IF channel = "UDP" THEN high - s >= Window \/ high - s \in seen ELSE s # next

\* A record that is new and decrypts is returned to the caller; only then is
\* the replay state committed.
Accepted(p) == ~Replayed(p.seq) /\ p.genuine
CommitsEarly(p) == ~Replayed(p.seq)   \* mutant: before it is authenticated
Commits(p) == Accepted(p)

\* A new highest number shifts the bitmap, which loses what falls out of it.
Highest(s) == IF s > high THEN s ELSE high
ShiftedUncut(s) == {a + (Highest(s) - high) : a \in seen}            \* mutant
ShiftedShort(s) == {a \in Ages : a - (s - high - 1) \in seen}          \* mutant
Shifted(s) == {a \in Ages : a - (Highest(s) - high) \in seen}

\* Records.open: a rejected datagram is dropped, a rejected stream record
\* ends the connection.
Open(p) ==
    /\ ~closed
    /\ opened' = IF Accepted(p) THEN [opened EXCEPT ![p.seq] = @ + 1] ELSE opened
    /\ closed' = (channel = "TCP" /\ ~Accepted(p))
    /\ high' = IF Commits(p) /\ channel = "UDP" THEN Highest(p.seq) ELSE high
    /\ seen' = IF Commits(p) /\ channel = "UDP"
               THEN Shifted(p.seq) \cup {Highest(p.seq) - p.seq} ELSE seen
    /\ next' = IF Commits(p) /\ channel = "TCP" THEN next + 1 ELSE next
    /\ UNCHANGED <<channel, sent>>

Next == Seal \/ \E p \in Packets : Open(p)

Spec == Init /\ [][Next]_vars

-----------------------------------------------------------------------------
\* Every field has its type.
TypeOK ==
    /\ channel \in {"UDP", "TCP"}
    /\ sent \in 0 .. Limit
    /\ next \in 0 .. Limit
    /\ high \in -1 .. Limit - 1
    /\ seen \subseteq Ages
    /\ closed \in BOOLEAN
    /\ opened \in [Sequence -> Nat]

\* The window remembers exactly the recent past: an age is marked if and only
\* if the record of that age was opened, nothing above the window was, and a
\* forged number never moves it past what the peer sealed.
WindowExact ==
    channel = "UDP" =>
        /\ high < sent
        /\ \A a \in Ages : a \in seen <=> high - a >= 0 /\ opened[high - a] > 0
        /\ \A s \in Sequence : s > high => opened[s] = 0

\* Whatever the network forged or replayed, a datagram that was never opened
\* is still admitted unless Window newer numbers have passed it.
FreshAdmitted ==
    channel = "UDP" =>
        \A s \in Sequence :
            s < sent /\ opened[s] = 0 /\ high - s < Window => ~Replayed(s)

\* Records are delivered at most once each, a stream's in the order they were
\* sealed in and without a gap.
Promise == INSTANCE Delivery WITH delivered <- opened, ordered <- channel = "TCP"
AtMostOnce == Promise!Spec
=============================================================================
