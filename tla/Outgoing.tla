------------------------------ MODULE Outgoing ------------------------------
(***************************************************************************)
(* What waits to be sent to the players of the public service: the queue   *)
(* of each engine (enqueue, take_pending and disconnect of engine.py), the *)
(* two coroutines of a game connection that send (game and pulse of        *)
(* native_service.py), the threads that encode large messages, and the     *)
(* budget all of it is reserved in (MemoryBudget of public_policy.py).     *)
(*                                                                         *)
(* Memory is counted in messages.  A message costs one unit in a queue and *)
(* two while it is sent.                                                   *)
(***************************************************************************)
EXTENDS Integers, FiniteSets, Functions

CONSTANTS
    Players,        \* each with one game connection at a time
    QueueLimit,     \* pending messages of an engine (1024)
    PlayerBudget,   \* per_client_outgoing
    TotalBudget,    \* outgoing_bytes
    EncodeWorkers,
    EncodeWaiters,
    Replies         \* bound: sizes of what a handler answers

Roles == {"game", "pulse"}
Senders == Players \X Roles

ASSUME OutgoingAssumption ==
    /\ {QueueLimit, PlayerBudget, TotalBudget, EncodeWorkers, EncodeWaiters} \subseteq Nat
    /\ Replies \subseteq Nat
    /\ IsFiniteSet(Players) /\ Players \cap Senders = {}

VARIABLES
    connection,       \* player -> "none", "open", "closing" (its writer is closed),
                      \* "failed" or "ending" (its game coroutine is in its finally)
    pending_messages, \* player -> messages in the queue of its engine
    delivery_failed,  \* players whose queue was given up
    step,             \* sender -> where send() waits
    owners,           \* reservations: of an engine's queue, of a send()
    orphans,          \* <<player, size>> -> encodings whose sender is gone
    used, group_used, \* MemoryBudget
    encode_slots,     \* the semaphore
    encode_waiters

outgoingVars == <<connection, pending_messages, delivery_failed, step, owners, orphans,
                  used, group_used, encode_slots, encode_waiters>>

Sizes == 1 .. PlayerBudget

OutgoingInit ==
    /\ connection = [u \in Players |-> "none"]
    /\ pending_messages = [u \in Players |-> 0]
    /\ delivery_failed = {}
    /\ step = [w \in Senders |-> "idle"]
    /\ owners = [o \in Players \cup Senders |-> 0]
    /\ orphans = [o \in Players \X Sizes |-> 0]
    /\ used = 0 /\ group_used = [u \in Players |-> 0]
    /\ encode_slots = EncodeWorkers /\ encode_waiters = 0

-----------------------------------------------------------------------------
(* MemoryBudget                                                            *)

Fits(u, o, size) ==
    /\ used - owners[o] + size <= TotalBudget
    /\ group_used[u] - owners[o] + size <= PlayerBudget

\* set(o, size, group=u)
Reserve(u, o, size) ==
    /\ owners' = [owners EXCEPT ![o] = size]
    /\ used' = used - owners[o] + size
    /\ group_used' = [group_used EXCEPT ![u] = @ - owners[o] + size]
Free(u, o) == Reserve(u, o, 0)

-----------------------------------------------------------------------------
(* The queue of an engine                                                  *)

\* Mutant: a queue that is given up is not paid back.
Forget(u) ==
    /\ pending_messages' = [pending_messages EXCEPT ![u] = 0]
    /\ UNCHANGED <<owners, used, group_used>>
\* The queue is emptied, and its reservation returned.
Clear(u) ==
    /\ pending_messages' = [pending_messages EXCEPT ![u] = 0]
    /\ Free(u, u)

\* enqueue, on behalf of anybody: it never fails.
Enqueue(u) ==
    /\ connection[u] # "none" /\ u \notin delivery_failed
    /\ LET size == pending_messages[u] + 1
       IN  IF size <= QueueLimit /\ Fits(u, u, size)
           THEN /\ pending_messages' = [pending_messages EXCEPT ![u] = size]
                /\ Reserve(u, u, size)
                /\ UNCHANGED delivery_failed
           ELSE /\ delivery_failed' = delivery_failed \cup {u}
                /\ Clear(u)
    /\ UNCHANGED <<connection, step, orphans, encode_slots, encode_waiters>>

\* 2010
Login(u) ==
    /\ connection[u] = "none"
    /\ connection' = [connection EXCEPT ![u] = "open"]
    /\ delivery_failed' = delivery_failed \ {u}
    /\ UNCHANGED <<pending_messages, step, owners, orphans, used, group_used,
                   encode_slots, encode_waiters>>

-----------------------------------------------------------------------------
(* send                                                                    *)

\* A send that fails ends the game coroutine; pulse only closes the writer,
\* and game will notice.
Failing(u, role) ==
    connection' = [connection EXCEPT ![u] = IF role = "game" THEN "failed" ELSE "closing"]
Runs(u) == connection[u] \in {"open", "closing"}

\* take_pending and send in one go: what was queued is reserved anew, at twice
\* the cost; when it does not fit it is lost and the connection is closed.
SendPending(u, role, more) ==
    LET size == 2 * (pending_messages[u] + more)
        w == <<u, role>>
    IN  /\ size > 0
        /\ pending_messages' = [pending_messages EXCEPT ![u] = 0]
        /\ IF used - owners[u] + size <= TotalBudget /\ group_used[u] - owners[u] + size <= PlayerBudget
           THEN /\ step' = [step EXCEPT ![w] = "lock"]
                /\ owners' = [owners EXCEPT ![u] = 0, ![w] = size]
                /\ used' = used - owners[u] + size
                /\ group_used' = [group_used EXCEPT ![u] = @ - owners[u] + size]
                /\ UNCHANGED connection
           ELSE Free(u, u) /\ Failing(u, role) /\ UNCHANGED step

\* The game coroutine handled a message.
Answer(u) ==
    /\ Runs(u) /\ step[<<u, "game">>] = "idle"
    /\ \E more \in Replies : SendPending(u, "game", more)
    /\ UNCHANGED <<delivery_failed, orphans, encode_slots, encode_waiters>>

\* Every tenth of a second the pulse sends what is queued, and a heartbeat
\* every second; it closes the connection of a player that fell behind.
Pulse(u) ==
    /\ connection[u] = "open" /\ step[<<u, "pulse">>] = "idle"
    /\ IF u \in delivery_failed
       THEN /\ Failing(u, "pulse")
            /\ UNCHANGED <<pending_messages, step, owners, used, group_used>>
       ELSE \E more \in {0, 1} : SendPending(u, "pulse", more)
    /\ UNCHANGED <<delivery_failed, orphans, encode_slots, encode_waiters>>

Locked(u) == \E role \in Roles : step[<<u, role>>] \in {"turn", "slot", "encoding", "drain"}

Acquire(w) ==
    /\ Runs(w[1]) /\ step[w] = "lock" /\ ~Locked(w[1])
    /\ step' = [step EXCEPT ![w] = "turn"]
    /\ UNCHANGED <<connection, pending_messages, delivery_failed, owners, orphans, used, group_used,
                   encode_slots, encode_waiters>>

\* send() ends: its reservation is returned, and if it failed the connection
\* is closed.
Done(w, failed) ==
    /\ step' = [step EXCEPT ![w] = "idle"]
    /\ Free(w[1], w)
    /\ IF failed THEN Failing(w[1], w[2]) ELSE UNCHANGED connection
    /\ UNCHANGED <<pending_messages, delivery_failed, orphans>>

\* The next message is large: it waits for a worker if not too many do.
Delegate(w) ==
    /\ Runs(w[1]) /\ step[w] = "turn"
    /\ IF encode_waiters >= EncodeWorkers + EncodeWaiters
       THEN Done(w, TRUE) /\ UNCHANGED <<encode_slots, encode_waiters>>
       ELSE /\ encode_waiters' = encode_waiters + 1
            /\ step' = [step EXCEPT ![w] = "slot"]
            /\ UNCHANGED <<connection, pending_messages, delivery_failed, owners, orphans, used,
                           group_used, encode_slots>>

Encode(w) ==
    /\ Runs(w[1]) /\ step[w] = "slot" /\ encode_slots > 0
    /\ encode_slots' = encode_slots - 1
    /\ step' = [step EXCEPT ![w] = "encoding"]
    /\ UNCHANGED <<connection, pending_messages, delivery_failed, owners, orphans, used, group_used,
                   encode_waiters>>

\* Callback of the worker.
WorkerDone == encode_slots' = encode_slots + 1 /\ encode_waiters' = encode_waiters - 1

Encoded(w) ==
    /\ step[w] = "encoding"
    /\ step' = [step EXCEPT ![w] = "turn"]
    /\ WorkerDone
    /\ UNCHANGED <<connection, pending_messages, delivery_failed, owners, orphans, used, group_used>>

\* Nothing large is left.
Drain(w) ==
    /\ Runs(w[1]) /\ step[w] = "turn"
    /\ step' = [step EXCEPT ![w] = "drain"]
    /\ UNCHANGED <<connection, pending_messages, delivery_failed, owners, orphans, used, group_used,
                   encode_slots, encode_waiters>>
\* The peer takes it, or not within two seconds.
Drained(w) ==
    /\ Runs(w[1]) /\ step[w] = "drain"
    /\ \E slow \in BOOLEAN : Done(w, slow)
    /\ UNCHANGED <<encode_slots, encode_waiters>>

-----------------------------------------------------------------------------
(* The end of a connection                                                 *)

Encoding(w) == step[w] = "encoding"
\* Mutant: the reservation of a cancelled send is returned at once.
ReleasedAtOnce(ws) == ws
\* What a worker still encodes cannot be cancelled and stays reserved.
Released(ws) == {w \in ws : ~Encoding(w)}

\* game leaves its loop between two messages, or is cancelled in the middle
\* of one, and cancels pulse: of each, the encoding that runs goes on with
\* the reservation it works for.
Finish(u) ==
    /\ Runs(u) \/ connection[u] = "failed"
    /\ LET mine == {<<u, role>> : role \in Roles}
           kept == {w \in mine : Encoding(w)}
           freed == SumFunctionOnSet(owners, Released(mine))
       IN  /\ step' = [w \in Senders |-> IF w \in mine THEN "idle" ELSE step[w]]
           /\ owners' = [o \in DOMAIN owners |-> IF o \in mine THEN 0 ELSE owners[o]]
           /\ orphans' = [o \in DOMAIN orphans |->
                  IF o[1] = u THEN orphans[o] + Cardinality({w \in kept : owners[w] = o[2]})
                  ELSE orphans[o]]
           /\ used' = used - freed
           /\ group_used' = [group_used EXCEPT ![u] = @ - freed]
           /\ encode_waiters' = encode_waiters - Cardinality({w \in mine : step[w] = "slot"})
    /\ connection' = [connection EXCEPT ![u] = "ending"]
    /\ UNCHANGED <<pending_messages, delivery_failed, encode_slots>>

\* Engine.disconnect, once pulse is gone.
Disconnect(u) ==
    /\ connection[u] = "ending"
    /\ connection' = [connection EXCEPT ![u] = "none"]
    /\ Clear(u)
    /\ UNCHANGED <<delivery_failed, step, orphans, encode_slots, encode_waiters>>

\* The last worker of a send that is gone returns its reservation.
OrphanDone(o) ==
    /\ orphans[o] > 0
    /\ orphans' = [orphans EXCEPT ![o] = @ - 1]
    /\ used' = used - o[2]
    /\ group_used' = [group_used EXCEPT ![o[1]] = @ - o[2]]
    /\ WorkerDone
    /\ UNCHANGED <<connection, pending_messages, delivery_failed, step, owners>>

OutgoingNext ==
    \/ \E u \in Players : Login(u) \/ Enqueue(u) \/ Answer(u) \/ Pulse(u) \/ Finish(u) \/ Disconnect(u)
    \/ \E w \in Senders : Acquire(w) \/ Delegate(w) \/ Encode(w) \/ Encoded(w) \/ Drain(w) \/ Drained(w)
    \/ \E o \in DOMAIN orphans : OrphanDone(o)

-----------------------------------------------------------------------------
Waiting(s) == Cardinality({w \in Senders : step[w] = s})
Orphaned(u) == SumFunction([n \in Sizes |-> n * orphans[<<u, n>>]])
Jobs == Waiting("encoding") + SumFunction(orphans)

\* The budget counts what is really held, neither more nor less, whichever
\* coroutine is cancelled where and whatever overflows: a queue costs what it
\* holds, a send until it is over and, when it is cancelled, until its worker
\* is; a player who is gone holds nothing else.  The workers that are not free
\* are the running encodings, and no more sends than may wait do.
BuffersPaid ==
    /\ \A u \in Players :
           /\ owners[u] = pending_messages[u]
           /\ group_used[u] = owners[u] + owners[<<u, "game">>] + owners[<<u, "pulse">>] + Orphaned(u)
           /\ group_used[u] <= PlayerBudget
           /\ u \in delivery_failed \/ connection[u] = "none" => pending_messages[u] = 0
           /\ \A role \in Roles :
                  LET w == <<u, role>>
                  IN  /\ owners[w] > 0 <=> step[w] # "idle"
                      /\ step[w] # "idle" => connection[u] \notin {"none", "ending"}
    /\ used = SumFunction(group_used) /\ used <= TotalBudget
    /\ encode_slots = EncodeWorkers - Jobs /\ encode_slots >= 0
    /\ encode_waiters = Waiting("slot") + Jobs
    /\ encode_waiters <= EncodeWorkers + EncodeWaiters
=============================================================================
