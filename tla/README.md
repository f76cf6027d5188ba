# Verification of the KungFu Kid local server

TLA+ models of the server under `src/server/kk_local`, the TLC runs that check
them and the theorems TLAPS proves about them. The code is the reference: every
definition is translated from it, and `PROJECT.json` names the lines.

## 1. The system

A Python asyncio server revives an online fighting game. One event loop runs
everything; another thread only hashes passwords and encodes large packets.
Concurrency is therefore the interleaving of coroutines at their awaits, of
messages of different players, of timers, and of the TCP and UDP paths of one
player.

| Component | State it keeps | Operations | Talks to |
|---|---|---|---|
| **Room hub** `rooms.py`, `room_lifecycle.py`, `room_flow.py`, `room_requests.py`, `seat_exchange.py` | rooms, rosters, owner, stage, readiness, seats and positions, start probe, seat exchange, invitations, suspended users | create, join, leave, remove, settings, team, transfer, ready, load, input-ready, toggle spectator, invite, exchange, disconnect, rejoin, expire | engines (writes their room and phase), store (battle serial) |
| **Competitive results** `battle_results.py`, `lab_settlement.py` | reports, replies and acknowledgements of a room | report, consensus, acknowledge | room hub |
| **Engine** `engine.py`, `handlers/session.py` | one account's bootstrap and game connection, phase, handoff, UDP lease, outgoing queue | 1010/2010/2060/3320, bind, disconnect, queue | hub, store |
| **Native admission** `native_admission.py`, `native_auth_api.py` | grants, five registries of them, deadlines | issue, ready, claim SDK, resolve, release, revoke, prune, cancel | accounts, engine, hub |
| **Native service** `native_service.py` | coroutines of SDK and game connections, budgets | accept, read, dispatch, pulse, close, maintenance | admission, engine, protection |
| **Record protection** `native_crypto.py` | sequence numbers, replay window, connection identities | seal, open, accept | service |
| **Native relay** `native_relay.py`, `sdp_peer.py`, `native_udp_policy.py` | UDP endpoints of grants, rates | bind, heartbeat, unbind, fan-out | admission, hub |
| **Accounts** `auth.py`, `storage/auth.py`, `public_auth.py`, `storage/public_access.py` | credentials, sessions, tickets, failures, invitations, suspensions | register, login, select region, consume ticket, logout, reset, disable | store, admission (revocation) |
| **Account API** `auth_service.py`, `public_auth_api.py` | request framing, rate buckets | dispatch | accounts, admission |
| **Policy and listener** `public_policy.py`, `public_listener.py` | connection leases, memory reservations | acquire, promote, release, reserve | service, engine |
| **Battle relay** `battle_relay.py`, `battle_receipts.py`, `battle_pairs.py` | sequence numbers, cache of decisions, active states, projectiles, hit and death receipts, pickups, pairs | dispatch, execution and later delivery of 8071 sub-messages | hub, native relay |
| **Team series, stages, foster** `team_series.py`, `pve.py`, `foster.py` | rounds and scores; waves, groups, monsters, triggers | spawn, remove, act, block, finish; round events, continue, result | hub, battle relay |
| **Authenticated bridge** `service.py`, `auth.py`, `native_identity.py`, `handlers/single_room.py` | bindings of client processes, one engine, role-ready file, UDP addresses, single rooms | bind, SDK login, bootstrap, role, lobby, return, UDP registration, room start | accounts, engine |
| **Store and economy** `store.py`, `storage/*`, `shop.py`, `mailbox.py`, `renewal.py`, `weapon_upgrade.py`, `talisman*.py`, `*quest*.py`, `title_rewards.py` | SQLite tables, open offers and quotes | transactions with commit callbacks | engine |
| **Wire formats, administration, metrics, client tools** | none of interest | parsing, command line, logging | |

What is hard here, and what has to hold:

* *One member leaves, everything refers to it.* The owner, the stage barriers,
  the ledgers, the probe, the exchange, the invitations and the other engines
  all have to follow (`RosterAgreement`, `OwnerSeated`, `BarriersOpen`).
* *Consent goes stale.* Readiness, a probe reply, an invitation and a seat
  exchange are given to one roster and may be used on another
  (`ChangeUnreadies`, `StartAgreed`, `InvitesCurrent`, `SwapConsented`).
* *Reconnects race deadlines* (`MembersServed`).
* *A coroutine resumes after an await* and its grant was revoked, replaced or
  handed over (`ConnectionsServed`, `NobodyDisplaced`).
* *Two admissions of one account* (`RegistriesAgree`, `OnePresence`), and one
  that never becomes a game (`NoSquatting`).
* *Datagrams are lost, duplicated, reordered* (`WindowExact`, `FreshAdmitted`,
  `AtMostOnce`).
* *A connection is counted twice*, as pending and as authenticated, by two
  coroutines that may be cancelled at any await (`ConnectionsCounted`); *a slow
  receiver* fills its queue while others send to it, and what it holds of the
  budget has to come back once (`BuffersPaid`).
* *A password is hashed between two looks at the tables*, while accounts are
  reset, disabled or guessed at (`SessionsCurrent`, `InvitesSpent`,
  `GuessesPaced`, `HashSlotsExact`).
* *A client process dies anywhere, and its number is used again*
  (`ClientsHeld`).
* *One battle event arrives once per recipient*, by two transports, late and out
  of order (`InOrder`, `NothingStale`), and decides together with earlier ones
  of several members (`WitnessesSpentOnce`, `ReservationHonoured`,
  `PairsConsented`).
* *A Host tells the course of a battle* and its events are repeated and
  reordered (`MonstersAccounted`, `SeriesDecided`).
* *An offer is answered by a later message*, after the balance, the item or the
  tables changed (`BooksBalance`, `ItemsAccounted`, `StockBalances`,
  `RewardsEarned`), and *a claim is followed by a deletion whether it failed or
  not* (`AttachmentKept`). *Equipment changes while a match starts*
  (`MatchGearFixed`).

`PROJECT.json` lists every hazard at its line with the properties that cover it.

## 2. The modules

| Module | Models | Extends |
|---|---|---|
| `RoomState` | state of the hub and the part of the engines it touches; seats, positions, identities, barriers | |
| `RoomLifecycle` | `room_lifecycle.py`; connections and leases | `RoomState` |
| `RoomFlow` | `room_flow.py`, results | `RoomLifecycle` |
| `RoomRequests` | `room_requests.py` | `RoomFlow` |
| `SeatExchange` | `seat_exchange.py` | `RoomRequests` |
| `RoomHub` | the hub as one state machine, its properties | `SeatExchange` |
| `MCRoomHub` | symmetry sets for TLC | `RoomHub` |
| `RoomHubProofs` | lemmas about seats and barriers; theorems: types, membership, ownership, seats, readiness, trades, invitations | `RoomHub`, `FiniteSetTheorems`, `TLAPS` |
| `RoomMatchProofs` | theorems: barriers, stages, connections, starts | `RoomHubProofs` |
| `Delivery` | abstract: an at-most-once channel | |
| `Records` | one direction of `native_crypto.Records` | |
| `Presence` | abstract: one connection plays for an account | |
| `NativeAdmission` | sessions, tickets, grants | |
| `NativeService` | the coroutines and UDP endpoints of the grants, properties | `NativeAdmission` |
| `MCNativeService` | symmetry set for TLC | `NativeService` |
| `NativeServiceProofs` | theorems: registries, connections, refinement of `Presence` | `NativeService`, `TLAPS` |
| `Accounts` | accounts, credentials, sessions, invitations and the hashing pool of the public service | |
| `NativeBridge` | the authenticated bridge: bindings, connections, the engine, the role-ready file, UDP addresses, single rooms | `Accounts` |
| `MCAccounts` | the two as one machine, symmetry set for TLC | `NativeBridge` |
| `AccountsProofs` | theorems about both | `NativeBridge`, `TLAPS` |
| `BattleRelay` | the dispatch of battle messages of the public service | |
| `HostModes` | stage waves, foster groups and team series, which the Host decides | `BattleRelay` |
| `MCBattleRelay` | the plans of a stage and a foster battle, symmetry set for TLC | `HostModes` |
| `BattleProofs` | theorems: delivery, ledgers, the series, monsters | `HostModes`, `FiniteSetTheorems`, `SumLemmas`, `TLAPS` |
| `Listener` | a connection of the public service: leases, TLS, the first record | |
| `Outgoing` | queues, sending coroutines, encoding pool, memory budget | |
| `Transport`, `MCTransport` | records, listener and outgoing as one machine; symmetry set | `Records`, `Listener`, `Outgoing` |
| `TransportProofs` | theorems about records, listener and buffers, refinement of `Delivery` | `Transport`, `FiniteSetTheorems`, `SumLemmas`, `TLAPS` |
| `Store` | wallets and inventories, what every part of the economy writes | |
| `Commerce` | shop and mailbox | `Store` |
| `Gear` | equipment, consumables, talismans in battle | `Store` |
| `Upkeep` | renewals, upgrades, repairs | `Gear` |
| `Rewards` | match points, training, quests, titles | `Gear` |
| `Economy`, `MCEconomy` | the four as one machine, their properties; the tasks of the runs | `Commerce`, `Upkeep`, `Rewards` |
| `EconomyProofs` | theorems: attachments, gear, items, books, stock, rewards | `Economy`, `SumLemmas`, `TLAPS` |
| `SumLemmas` | lemmas about sums over finite sets | `Functions`, `FiniteSetTheorems`, `WellFoundedInduction`, `TLAPS` |

### Room hub

A state variable is named after the attribute it stands for; attributes of a
`SharedRoom` are functions of room objects, those of `Member` and `Engine`
functions of users. A room object is listed in `rooms` or not; its number is
just its name there. One action is one handler with everything it calls.
`RoomHub.handle` runs `expire()` first: an action that handles a message
requires `Expired` (nothing is left whose roster identity changed), and the
deadlines themselves are actions of their own, enabled while their timer runs.
A `ProtocolError` closes the offender's connection, which is `Disconnect`.
`NativeService = TRUE` makes the loss of a connection a release of the grant
(leave, then disconnect); otherwise a waiting room suspends the seat.

Data that no property tells apart is left out: names, maps, equipment, the
contents of battle reports (a report is the roster it names), the value of
settings except the watch option. Scores or hit points that disagree are the
reporter's `Disconnect`.

### Record protection

`Records` is one direction of one key. `Packets` are all headers `inspect`
accepts; a body decrypts only if the peer sealed that number. `opened` is a
history variable that counts acceptances. The window is modelled as the set of
ages whose bit is set.

### Native admission and service

A grant is an object that is never reused; a link is a connection with the
coroutine that serves it. `service`, `outer` and `held` are the local variables
of the coroutines, so every await between two uses of a grant is a point where
all other actions can happen. A refused request raises and ends the coroutine:
`CloseSdk` and `CloseGame` are the `finally` blocks, enabled at any time. Time
is the set of deadlines that have passed (`overdue`). The hub appears as
`engines` only; `Release` of a game connection here is `Disconnect` with
`NativeService` in `RoomHub`, `TakeHandoff` is its `Enter`, and `OnePresence`
is what `RoomHub` relies on: a user enters only after leaving.

### Accounts

A call (register, login, reset) is a coroutine: it checks its request, queues
for a hashing slot, has a worker hash, and decides in one transaction. `call`
holds its local variables, among them `row`, the version of the credential it
read before the hash; a credential is the number of its version, since every
write draws a new salt. `Cancel` takes the caller away at any await and leaves
an orphaned worker behind; `Restart` loses coroutines and slots and keeps the
tables. Disabling, revocation and resets may happen while calls hash, as
`accounts.py` and the tests do it; the released `public_admin` tool takes the
service lock first, which only removes behaviours. `NativeAdmission` has its own
abstraction of the sessions (a set, with their deadlines); the two modules meet
in `remove_account_sessions` and in the revocation callback.

### Authenticated bridge

A process is a number and the life the number is in; `Exit` ends a life, and a
later `Bind` may meet the next. `engines` is the sequence of engines the service
made, the last one current; a coroutine keeps the one it was accepted with, as
the code's closures do. Each message of the game connection is an action; the
end of a coroutine at any await is `SdkEnd` or `GameEnd` with its `finally`.
Deadlines are `Overdue` and `Lapse`. `pointer` is the role-ready file with the
process that wrote it; `left` is a history bit that says how its writer went.

### Battle relay and the Host's battles

A message is its payload reduced to what decides: kind, sender, sequence number,
the player it is about and a key. `Execute` is `dispatch_public` on a payload it
does not remember: the handler of that kind runs, `outputs` is everybody it is
meant for and the recipients named by this copy get it. `Repeat` is the same
function on a payload it remembers. `log` and `inbox` are history variables. The
15-second lease of a selection is `ExpirePair`, enabled while there is one. A
departure aborts the match in `RoomHub`, therefore the members of a battle are
constant. A battle of the model exchanges messages of one family; families share
only the sequence numbers (movements not even these) and the cache, and a message
of one is dropped or delivered without looking at the ledgers of another.
Movements continue under the number of their action: one is new if its number is
newer or if it differs from the sender's last (`Fresh`, `motion_payloads`).

`HostModes` adds the battles of the local service in which the Host decides.
Spawns, removals and actions come with the Host's sequence numbers, by TCP or as
an observed datagram; both change the same ledgers. `born`, `gone`, `fled` and
`rounds` are history variables, against which the ledgers are compared. The family
of a battle is `"assault"`, `"foster"` or `"series"` beside those of `BattleRelay`.

### Transport

In `Listener`, `at` says where the two coroutines of a socket are: `attach` and
the handler it creates both release the lease, and either may be cancelled at any
await; a socket is used again once both have ended. `Outgoing` counts memory in messages: one unit
in a queue, two while it is sent, because `send` reserves the message and its
encoding. `Engine.enqueue`, `take_pending`, the drains of `game` and `pulse`,
the lock they share, the worker that encodes and the budget are actions; a
connection may be lost between any two. `Records` is described above. The three
share only the end of a connection, which each meets in any state, hence a
behaviour of `Transport` is of one `part`.

### Economy

A store transaction rolls back when its body raises, so a request is one action
whose guard has every reason to refuse; the two-message protocols (offer and
renewal, quote and repair, announcement and confirmation of a talisman, claim and
deletion of a mail) are two actions between which tables, balances and items
change. Receipts are the tables of the code; properties compare balances and
items with them. `Gear`, `Upkeep` and `Rewards` follow one user, the `Keeper`;
`Commerce` has two. `desk` is the part whose requests a behaviour contains:
parts meet only in wallets and inventories, whose accounting every run of a desk
checks.

## 3. The runs

| Run | Instance | Checks |
|---|---|---|
| `Matches` | 3 users, mode 1, one spectator seat, 2 battles | `TypeOK RosterAgreement OwnerSeated MembersServed BarriersOpen StageOrder ChangeUnreadies` |
| `PublicDeadline` | 3 users, mode 1, 2 battles, public policy, fairness | `MatchEnds` |
| `Invitations` | 2 rooms, 2 connection identities, probe on | `InvitesCurrent StartAgreed` |
| `Seats` | team mode 3, banks of 2 | `SeatsExclusive SwapConsented` |
| `Transport` | both kinds of channel, window 3, 10 numbers; 3 sockets, 2 addresses, 2 users; 2 players, queues of 3 | `WindowExact FreshAdmitted AtMostOnce ConnectionsCounted BuffersPaid` |
| `Entry` | 2 grants, 2 links, with and without public policy | `RegistriesAgree ConnectionsServed NobodyDisplaced OnePresence` |
| `Squatting` | 1 grant, 2 links, fairness | `NoSquatting` |
| `Accounts` | 3 names, one without a credential, 1 invitation, 2 calls, one worker and one waiter; 2 accounts, 1 process number, 2 connections, 2 engines | `SessionsCurrent InvitesSpent GuessesPaced HashSlotsExact ClientsHeld` |
| `Battle` | 3 fighters, 1 key, a cache of 2, seven families; 2 actors, 2 waves, 2 groups; a series of three rounds | `InOrder WitnessesSpentOnce NothingStale ReservationHonoured PairsConsented MonstersAccounted SeriesDecided` |
| `Economy` | 2 users, 2 goods, 2 mails, 3 title levels, 2 tasks, eight desks | `BooksBalance ItemsAccounted StockBalances RewardsEarned AttachmentKept MatchGearFixed` |
| `Endpoints` | 2 grants | `EndpointsCurrent`, **violated** |
| `LostAttachment` | as `Economy`, desk commerce | `FailedClaimKeeps`, **violated** |

Which hub a run stands for. `Matches` is a hub as the tests build it
(`RoomHub(spectator_capacity=1)`): no latency probe, reconnects possible. `Seats`
and `Invitations` are the hub of the offline composition, with the probe. `PublicDeadline` is the hub of the public
service: native connections, no probe, no spectators. `RoomAssumption` excludes
the combinations no composition builds.

Bounds. Three users give an owner, a member who acts and one who watches the
change; two fighters and a third who joins, watches or is the last at a
barrier. Two banks of two positions can be full, have a gap and be traded.
Two connection identities tell a reconnected player from the same connection;
runs that do not look at identities have one. `MaxBattles = 2` lets the ledgers
of one battle meet the next. The role sets (`Creators`, `Droppers`, `Leasers`,
`Leavers`, `Watchers`, `Managers`, `Movers`, `Inviters`) say which users take
which kind of action in a run; they only remove behaviours, and between them
the runs fire every action. `Window = 3` has an oldest, a middle and a newest
age, and ten numbers pass it three times. Two grants of one account and `Limit = 1`
let every admission meet a stale predecessor; two links are a connection and its
successor (SDK then game, bootstrap then game).

In `Accounts` a failure limit, a session limit and a version limit of 2 are each reached
and passed in a run, one row of failures makes the second name meet a full
table, and two calls with one worker leave one queued while the other hashes.
`Subjects` are the names that log in, the third only registers; `Administered`
is the name whose password is reset and who is disabled, the one that starts
without a credential. Coroutines and connections of the two parts share their
names, so that one permutation serves both. In `Battle` two recipients of every event let a second copy arrive
late; a cache of 2 forgets decisions of a battle of `MaxEvents = 4` executed
events; a reporter has four numbers, which overflow two open receipts, and a
projectile three, which a second announcement of a hit needs. `Shooters`,
`Reporters`, `Partners` and `Walkers` name who shoots, is damaged, pairs, and
moves; the ledgers of different members do not meet there. Three `Positions`
under one action's number are one more than the cache holds.

In the bridge part of `Accounts` one process number with two lives is enough for
a reused number, two connections for bootstrap and game, two engines for a
second SDK login. In `Battle`, two actors and three templates, one of no wave,
let a wave be filled, overfilled and answered wrongly; a limit of two monsters is
reached with a corpse among them; five numbers let an event be repeated and
arrive after a later one. A series of `Limit = 3` is decided after two rounds or
three. In `Transport` every budget of `Listener` is 1 or 2 and met by three sockets;
a queue of 3 overflows, the player's budget of 7 and the common one of 9 are both
reached. In `Economy` a purse of 3 pays for one thing and not for the next, a
capacity of 4 is filled, every table an offer depends on changes twice
(`MaxRevision`, `MaxVersion`), and two quotes tell an old one from the new.
`Buyers` and `Addressees` name who buys and gets mail; the other user receives gifts.

Fairness. `RoomHub!FairSpec` assumes weak fairness of `ExpirePublicDeadline`:
`NativeService.summarize` calls `hub.expire()` every second and the clock passes
every deadline. `NativeService!FairSpec` assumes the same of `Prune`, called by
the same loop, and of the passing of the admission deadline. Nothing is assumed
of clients.

Four configurations say `CHECK_DEADLOCK FALSE`, because the system they model may
stop. `Transport.cfg`: a stream that was sent a bad record is closed, and a sender
that used up its numbers stops. `Battle.cfg`: senders run out of numbers, and a
series or a stage that is over has nothing left to say. `Economy.cfg` and
`LostAttachment.cfg`: versions, orders, quotes and battles are used up. All
others check it.

### What the failing runs show

`Endpoints`. `NativeAdmission.release` clears `grants`, `by_uid`, `by_transport`, `by_sdk`,
`by_udp` and `by_player`, but not `NativeRelay.peers`. The game coroutine's
`finally` calls `relay.forget` only if the connection is still current, which it
is not once `release` has disconnected it. After a revocation, a prune or
`cancel_game` the endpoint stays bound to a dead grant; when the player comes
back from the same address and port, message 1001 of the new grant is refused
with "UDP endpoint occupied". `deploy/README.md:21` says that revocation events
clean up the associated grant at once. Another local port works.

`LostAttachment`. The client sends the deletion 1340 behind each claim 2171 and
does not wait. `mailbox.handle` keeps the attachment by refusing that one
deletion if the claim failed, but it remembers the mail that is *previewed*
(line 119), not the one that was claimed. If another mail, or none, is previewed,
the deletion that follows is executed and the attachment is gone. The comment at
`mailbox.py:125` says of every failed claim that the attachment "remains
recoverable". `AttachmentKept` is what holds: it does if the claimed mail is the
open one, which is what the client's window does.

### Observations that no run reports

* A client that starts a second bootstrap connection while a handoff is pending
  makes that connection current: its later end releases the grant and the game
  with it. `NobodyDisplaced` states what holds: a connection that handed over, was
  never current or was disconnected ends alone.
* Without public policy, 2060 on the bootstrap connection leaves a grant with an
  engine and nothing to expire it before its session: the account stays "already
  online" until logout or `cancel_game`. `NoSquatting` is claimed under public
  policy only.
* A fourth login removes the account's oldest session and, under public policy,
  the game it is playing.
* A connection lost again while its seat is suspended renews the deadline.
* An aborted match drops the invitations of the member who left, not of the
  others; they are looked at again when they are accepted.
* When the table of failures is full (10000 names), failures of further names
  are not recorded, so their guesses are not slowed; `GuessesPaced` speaks of the
  names that have a row.
* A copy of an event that names a further recipient is dropped once its sender
  has sent something newer: that recipient never gets it.
* The positions of one action share its number: a later copy of an earlier
  position reaches a further recipient after a later position, and an earlier
  position that the cache forgot is executed and delivered again. `InOrder`
  claims of movements that none comes after one of a later action.
* A later copy of a Host's approval is delivered even if the request was
  withdrawn in between; of pickups only the sequence number is looked at again.
* An identity is spent by `accept` even if the promotion of its lease is then
  refused.
* `send` reserves a message twice, so a queue that holds more than half of its
  player's budget cannot be sent; the attempt closes its own recipient. The
  common budget can end a recipient because others are slow.
* A repeated 8289 takes a later, still unconfirmed 4200 of the same talisman with it.
* A title that was announced keeps a later pending one from being announced until
  the player reconnects.
* The owner of a room may change equipment while the start probe runs; what a
  match uses is fixed from its start (`MatchGearFixed`).
* In stage and series battles an event that was observed in the UDP relay makes
  its TCP copy a repetition, which is dropped.
* A foster monster that is dead may be given hit points again by a late event and
  then counts as living; the sequence of `foster` finish messages decides nothing.
* A role-ready file whose client returned by 2060, or died in the handoff between
  bootstrap and game, is not invalidated, and `profile_ready` holds for a later
  client. `service.py:34` says "A previous client's pointer must not authorize a
  later client process."; `ClientsHeld` claims it except in these two cases.
* After 2060 from the lobby the 240 seconds of the binding may be over already:
  the client that returns is refused.
* An SDK login between the end of bootstrap and 2010 replaces the engine, and the
  first client's handoff is lost: `native_client_already_active` is looked up in
  the current engine only.
* `id(engine.game)` may be reused by a later connection; the identities of the
  model may be, too.

## 4. The proofs

TLC checks the instances above; TLAPS proves the following for every value of
the constants that satisfies the named assumptions of the modules. Of the sets of
users, rooms, calls, connections and messages these say at most that they are
finite, or that a role set is part of another, or disjoint from it; of limits, that
they are numbers; of the catalogues (goods, tasks, waves, groups), what their records
contain; of `None`, that it is none of the values a variable holds instead of it. The
`MC` modules extend the modules that make them, so TLC evaluates every one.
Each invariant below was checked by TLC on the instance of its run before it
was proved. Every proof has a lemma per action, or per group of actions that
disturb the same parts, and a step lemma that combines them.

**Room hub** (`RoomHubProofs`, `RoomMatchProofs`). `TypeOK`,
`RosterAgreement` and `OwnerSeated` are not inductive each by itself. The
invariant everything else rests on is

    Roster == TypeOK /\ RosterAgreement /\ OwnerSeated /\ Seated /\ Unlisted /\ ProbeOwned

`Seated` gives the seats whose minimum elects the next owner, `Unlisted` says a
room object not in `rooms` is as empty as a fresh one, so that `Create` starts
clean, and `ProbeOwned` says a probe was made by a fighting owner, because the
last reply to it starts the match later, when `OwnerSeated` begins to speak of
`stage # "room"`.

* `BarriersAlwaysOpen`: `Ledgers == BarriersOpen /\ LedgersIdle` over `Roster`. A
  barrier that opens must find the next one's ledger empty, which `LedgersIdle`
  says stage by stage; and replies to a result exist only while the reports that
  settled it are kept (`Settled`), or a late departure could leave nobody to
  reply. `StagesInOrder` is proved of the same steps.
* `MembersAlwaysServed`: per user (`Served`) a connection and the phase of the
  room's stage, or none and a suspended seat of a waiting room. It needs the
  ledgers: which barrier opens decides the phase of everybody at once.
* `StartsAgreed`: adds `ProbeReady`. A probe is bound to a roster in which every
  fighter was ready, hence its last reply, if the roster is intact, finds them ready.
* `ChangesUnready`, `SeatsAlwaysExclusive`, `SwapsConsented`: of each step the
  rooms it is not about are the same (`Same`), then each kind of step of the
  one room is looked at (`Admits`, `Departs`, `Governed`, `Moves`). A trade of
  positions can only be `AcceptSwap`, because a move lands on a free position.
* `InvitesAlwaysCurrent` over `Roster`: an invitation's room is listed and both
  sides are connected; whoever drops a connection or a room drops them.

**Admission** (`NativeServiceProofs`). The invariant is `IInv`:

    IInv == TypeOK /\ Registered /\ EnginesIssued /\ SessionsKept /\ Attended /\ SlotsHeld

`Registered` is stronger than `RegistriesAgree`: each registry points at the grants
that point back at it, so a release takes a grant out of all of them. `EnginesIssued`
says only an issued grant has an engine, so that a new grant starts without one.
`Attended` ties what an engine knows to the coroutine that serves it, its phase
and the grant it holds; without it the end of one connection could touch
another's engine. `SlotsHeld` does the same for SDK slots, `SessionsKept` relates
grants and sessions under public policy. `PresenceImplemented` is the refinement:
every step of `NativeService` is a step of `Presence` or a stutter.

**Accounts** (`AccountsProofs`). `TableInv` has one part per property, each with
the fact the property lacks: an account without a credential has no session
(`SessionsGranted`), two invitations never name one account (`InvitesPaired`),
the answers counted never exceed the failures recorded and a blocked account has
reached the tolerance (`GuessesCounted`). `PoolCounted` states `HashSlotsExact`
with the finiteness of the calls in each stage, which makes it inductive for an
infinite set of calls.

**Authenticated bridge** (`AccountsProofs`). `ClientsAlwaysHeld` rests on

    BridgeTypes /\ Attached      Attached == Rows /\ Clients /\ Pointed

`Rows` says a connection that may still use a row of the bindings finds it there;
`Clients` that connections and engines point at each other as the phases say
(`Seated`, `Serving`), and that a binding in stage "game" has its game (`HasGame`);
`Pointed` is the clause about the role-ready file. A coroutine keeps an engine
that has been replaced, so all of it is said of every engine, not of the last.

**Battle relay and series** (`BattleProofs`). `DeliveredInOrder` follows from

    Remembering == Reached /\ Numbering /\ Ordered

whatever is remembered or delivered has a number its sender has reached; a number
is that of one event, of a movement that of one action; and who is still to get an
event has not had it. It holds wherever the cache is cut (`LastOf` and its
lemmas). `NothingStaleTold` is the corresponding step. The ledgers each need an
account of the past: `OnePromise` (an item is reserved once, `PickupsHonoured`),
`ChoiceHeard` (what a selection in force was told by, `PairsAgreed`), `SeriesFollows`
(the last decision and what the series does now, `SeriesAlwaysDecided`). For
`WitnessesAlwaysSpentOnce`, `Paid` balances the reports executed against the
receipts spent and still open, which the bounded ledger may only lose, and
`ReceiptsCovered` carries that to every prefix of the log; `Witnessing` and
`ResultsCovered` do it for projectiles.

`MonstersAlwaysAccounted` rests on

    MonstersKept == Mustered /\ (outcome = TRUE => stage # "battle")
                    /\ (family = "assault" => WavesCounted)
                    /\ (family = "foster" => GroupsCounted)

`Mustered`: the monsters there are those that came and did not go. `WavesCounted`:
those that came are the quotas of the waves passed and what this wave has brought,
and no wave is passed before all of its own went. `GroupsCounted`: those of a timed
group are there, died, or fled. A victory is thus told only when every wave has
gone, or every group was brought and none of it fled.

**Transport** (`TransportProofs`). `Sound` ties the window, the counters and the
history together; from it follow `WindowIsExact`, `FreshIsAdmitted` and the
refinement `RecordsDeliverOnce`: every `Open` is a `Deliver` of the abstract
channel or a stutter, for any window and both kinds of channel.
`TransportRunsRecords` carries them to the machine the run checks. For the listener,
`ConnectionsAlwaysCounted` rests on `Admitting`: a lease is open exactly while a
coroutine may use it (`Leased`), each counter is the number of elements of the set
it stands for (`Budgeted`, from two lemmas on adding and removing one element), and
an identity is spent exactly when it has been served (`Spent`).

The buffers of the sender (`BuffersAlwaysPaid`) rest on

    Paying == OutgoingTypes /\ (\A u \in Players : PlayerPaid(u)) /\ BudgetPaid /\ WorkersPaid

A player is charged for its queue, for its two senders and for the encodings they
abandoned (`PlayerPaid`); the common budget is the sum of these charges
(`BudgetPaid`), and a slot of the encoders is held by a job, abandoned or not
(`WorkersPaid`). Closing a connection releases everything of one player at once
but its abandoned encodings, so `used` falls by a sum over what was held; that
needs the set of players to be finite and no player to be a pair of a player and
a role, for `owners` is one table of both.

**Economy** (`EconomyProofs`). `AttachmentAlwaysKept` rests on `Mailed`, the types of
the mailbox and of what a connection remembers of it, and `Protected`: the mail
that is to be deleted behind a claim of the open mail is its claimant's, and either
the next deletion of it is suppressed or it has nothing to lose. No other
connection can undo that, because `mail_failed_delete` is the claimant's own and a
mail that was claimed stays so. `MatchGearAlwaysFixed` rests on

    Geared == Stocked /\ Promised /\ Quoted /\ Shopping

`Stocked` says what can be worn is counted in pieces, so that a use leaves less;
`Promised` that a use waiting to be confirmed is of a talisman that is still
there, which needs to know that neither a repair nor a trade removes one; `Quoted`
that a quote fills a talisman under a rule; `Shopping` that the desk of the shop is
never in a match. There is a lemma for each way an inventory changes.

What the books say is proved of the same steps, in two layers. The first is

    ItemsInvariant == Typed /\ Mailed /\ Protected /\ Geared /\ Accounted /\ Titled

`Typed` is what the tables look like. `Accounted` is `ItemsAccounted` item by item:
who has an item has a grant that names both, or had it at first; a grant has its
item; no two grants name one number, and all numbers are below the next. It is
inductive only with `Titled`: at most one title waits for a choice, and what was
chosen was offered and given; otherwise a second choice
would be a second grant. The second layer is one invariant for each property:

* `BooksAlwaysBalance` over `Balanced`: each purse is what it was, less every receipt
  of that user and currency, plus the gold of the rewarded tasks. The receipts are
  sets whose prices are summed, and a request that debits adds a new member: an order
  or operation that has its receipt is refused, and a task is rewarded once.
* `RewardsAlwaysEarned` over `Worked`, `Trained` and `Scored`. `Worked`: a task in
  progress has no more to show than the battles settled since it was accepted, and one
  that was rewarded is not begun again, however the rule changes. `Trained`: the
  intervals that were paid lie behind each other and behind the one that runs.
  `Scored`: the points are the awards and wages, cut at `MaxPoints`.
* `StockAlwaysBalances` over

      StockKept == PotionsKept at the desk of potions;
                   Tallied /\ Quotable /\ Waiting /\ Told at those of talismans and repairs

  What is left of each kind is what there was, less the uses, plus the repairs.
  `Quotable` and `Waiting` say a quote or a pending use names the price that will be
  charged when it is confirmed; `Told` that a use the others were told of has its
  billing, and is not newer than the last acknowledged, so that none is told twice.

**Sums** (`SumLemmas`). A sum is the fold `SumFunctionOnSet`, a recursive function on
the subsets of what is summed. What it does when one summand is added, removed or
changed would be an induction, and the library's induction theorems take an operator
as a parameter, which the installed provers cannot instantiate. `Smallest` replaces
them: of the subsets that violate a statement one is minimal, because inclusion
is well-founded on a finite set (`WFMin`, which takes a set and not an operator). Each
lemma derives a contradiction from the minimal one. That is why the sums of
`Outgoing`, `HostModes` and the modules of the economy are written as `SumFunction` of
a function, and why the sets they run over are assumed finite.

**Only model-checked.** The liveness properties `MatchEnds` and `NoSquatting`:
liveness under fairness is out of this prover's reach. Every invariant and every
action property of a passing run has its theorem. The two violated properties have
nothing to prove. The theorems speak of the same specifications as the runs; they
say nothing of the abstraction itself, which is section 2's.

## 5. Not modelled, and the plan

`PROJECT.json` gives every component's status. In order:

1. The rest of `BattleRelay`: reborn synchronisation and chests.
2. The read deadlines and the incoming budget of the public service, its token
   buckets, and the task limit of the account API.
3. The rooms of `single_room.py` with their settings, and the room directory.

Not modelled, and why: wire layouts, catalogues and migrations (data without
behaviour); profile edits, rankings, chat and directories (queries and broadcasts
that keep no protocol state); the insecure offline adapter, the menu probe and
the lab capture (development tools); administration, metrics and the client-side
tools; the SDO compatibility login, whose account rules are those of `auth.py`.
