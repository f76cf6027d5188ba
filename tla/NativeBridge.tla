---------------------------- MODULE NativeBridge ----------------------------
(***************************************************************************)
(* The authenticated bridge of one computer: AuthManager binds a login to  *)
(* a client process (server/kk_local/auth.py, native_identity.py), Service *)
(* (service.py) takes that process through the SDK, bootstrap and game     *)
(* connections and gives it the one Engine of the service, without a hub,  *)
(* so that rooms are those of handlers/single_room.py.                     *)
(*                                                                         *)
(* Its logins are sessions of Accounts; of a session only matters here     *)
(* that it ends, which is a step of the environment.                       *)
(*                                                                         *)
(* Any step may find the process gone, its number taken by another one,    *)
(* the session ended or the engine replaced by a further SDK login.  A     *)
(* coroutine keeps the engine it was accepted with.                        *)
(***************************************************************************)
EXTENDS Accounts

CONSTANTS
    Pids,         \* process numbers, reused by the system
    Uids,         \* accounts
    Links,        \* TCP connections; their number is the limit of _track (16)
    Endpoints,    \* UDP addresses; their number is that of authorize_udp (64)
    BindingLimit, \* bindings AuthManager keeps (16)
    MaxLives,     \* bound: processes that one number is given to
    MaxEngines    \* bound: SDK logins of a behaviour

Identities == [pid : Pids, life : 0 .. MaxLives]   \* NativeIdentity
Bindings ==
    [life : 0 .. MaxLives, uid : Uids, stage : {"bound", "sdk", "directory", "bootstrap", "game"},
     lobby_ready : BOOLEAN, expired : BOOLEAN, ended : BOOLEAN]
Connections ==
    [kind : {"sdk", "game"}, owner : Identities, id : Identities \cup {None}, row : BOOLEAN, engine : Nat,
     phase : {"hello", "list", "idle", "CONNECTED", "BOOTSTRAP", "PROFILE", "HANDOFF", "LOBBY",
              "ROOM", "LOADING", "WAIT_READY", "BATTLE", "CLOSED"},
     sent : BOOLEAN]

ASSUME BridgeAssumption ==
    /\ None \notin Pids \cup Uids \cup Links \cup Endpoints \cup {"casual", "competitive"}
    /\ None \notin Identities \cup Bindings \cup Connections
    /\ BindingLimit \in Nat /\ MaxLives \in Nat /\ MaxEngines \in Nat

VARIABLES
    life,     \* which process a number belongs to (its creation time)
    binding,  \* AuthManager.native_bindings
    engines,  \* every Engine made so far; self.engine is the last one
    link,     \* local variables of the coroutine that serves a connection
    udp,      \* native_udp_peers: the process an address was attributed to
    pointer   \* the role-ready file: its writer, whether start_time admits it
              \* and, as history, whether its writer went away unhurt

bridgeVars == <<life, binding, engines, link, udp, pointer>>

Process(p) == [pid |-> p, life |-> life[p]]
Running(id) == id.life = life[id.pid]

BridgeInit ==
    /\ life = [p \in Pids |-> 0]
    /\ binding = [p \in Pids |-> None]
    /\ engines = <<>>
    /\ link = [k \in Links |-> None]
    /\ udp = [x \in Endpoints |-> None]
    /\ pointer = [by |-> None, fresh |-> FALSE, left |-> FALSE]

\* The process ends and a later one gets its number; its connections end
\* after what it sent has been read.
Exit(p) ==
    /\ life[p] < MaxLives
    /\ life' = [life EXCEPT ![p] = @ + 1]
    /\ UNCHANGED <<binding, engines, link, udp, pointer>>

-----------------------------------------------------------------------------
(* Bindings                                                                *)

\* native_binding finds a row for this very process, in time and in session.
Bound(id) ==
    LET row == binding[id.pid]
    IN  /\ row # None
        /\ row.life = id.life
        /\ row.stage = "game" \/ ~row.expired
        /\ ~row.ended

Staged(id, stage) == [binding EXCEPT ![id.pid].stage = stage]

\* A ticket was bought with a session of the account; expired rows are
\* dropped first.
Bind(p, u) ==
    LET old == binding[p]
        kept == {q \in Pids : binding[q] # None /\ (binding[q].stage = "game" \/ ~binding[q].expired)}
    IN  /\ old # None => old.life # life[p]
        /\ Cardinality(kept) < BindingLimit
        /\ binding' = [q \in Pids |->
               IF q = p THEN [life |-> life[p], uid |-> u, stage |-> "bound", lobby_ready |-> FALSE,
                              expired |-> FALSE, ended |-> FALSE]
               ELSE IF q \in kept THEN binding[q] ELSE None]
        /\ link' = [k \in Links |->
               IF link[k] # None /\ link[k].id # None /\ link[k].id.pid \notin kept \ {p}
               THEN [link[k] EXCEPT !.row = FALSE] ELSE link[k]]
        /\ UNCHANGED <<life, engines, udp, pointer>>

\* 240 seconds after bind_native_client, whatever the row's stage is by then.
Overdue(p) ==
    /\ binding[p] # None /\ ~binding[p].expired
    /\ binding' = [binding EXCEPT ![p].expired = TRUE]
    /\ UNCHANGED <<life, engines, link, udp, pointer>>

\* The session behind a binding ends: logged out, replaced or expired.
SessionOver(p) ==
    /\ binding[p] # None /\ ~binding[p].ended
    /\ binding' = [binding EXCEPT ![p].ended = TRUE]
    /\ UNCHANGED <<life, engines, link, udp, pointer>>

\* release_native: only a row of this very process.
Owns(id) == id # None /\ binding[id.pid] # None /\ binding[id.pid].life = id.life
Released(id) == IF Owns(id) THEN [binding EXCEPT ![id.pid] = None] ELSE binding
Orphaned(id) ==
    [k \in Links |-> IF link[k] # None /\ link[k].id = id /\ Owns(id)
                     THEN [link[k] EXCEPT !.row = FALSE] ELSE link[k]]

-----------------------------------------------------------------------------
(* SDK connections                                                         *)

Kind(k, kind) == link[k] # None /\ link[k].kind = kind
Opened(p, kind) ==
    [kind |-> kind, owner |-> Process(p), id |-> None, row |-> FALSE,
     engine |-> Len(engines), phase |-> IF kind = "sdk" THEN "hello" ELSE "CONNECTED",
     sent |-> FALSE]

\* _track; a game connection is turned away while there is no engine yet.
Connect(k, p, kind) ==
    /\ link[k] = None
    /\ kind = "game" => engines # <<>>
    /\ link' = [link EXCEPT ![k] = Opened(p, kind)]
    /\ UNCHANGED <<life, binding, engines, udp, pointer>>

Idle(e) == e.game = None /\ e.bootstrap = None

\* The first SDK message: a bound process gets a new engine unless the
\* present one serves a client.
SdkLogin(k) ==
    LET id == link[k].owner
    IN  /\ Kind(k, "sdk") /\ link[k].phase = "hello"
        /\ Running(id) /\ Bound(id) /\ binding[id.pid].stage = "bound"
        /\ engines # <<>> => Idle(engines[Len(engines)])
        /\ Len(engines) < MaxEngines
        /\ engines' = Append(engines, [uid |-> binding[id.pid].uid, granted |-> FALSE, handoff |-> FALSE,
                                       bootstrap |-> None, game |-> None, p2p |-> None, room |-> None])
        /\ udp' = [x \in Endpoints |-> None]
        /\ binding' = Staged(id, "sdk")
        /\ link' = [link EXCEPT ![k] = [@ EXCEPT !.phase = "list", !.id = id, !.row = TRUE]]
        /\ UNCHANGED <<life, pointer>>

\* The server list grants whatever engine the service has by now; the row
\* may be another process's, or nobody's, since.
SdkList(k) ==
    /\ Kind(k, "sdk") /\ link[k].phase = "list"
    /\ engines' = [engines EXCEPT ![Len(engines)].granted = TRUE]
    /\ binding' = IF link[k].row THEN Staged(link[k].id, "directory") ELSE binding
    /\ link' = [link EXCEPT ![k].phase = "idle"]
    /\ UNCHANGED <<life, udp, pointer>>

SdkEnd(k) ==
    /\ Kind(k, "sdk")
    /\ link' = [link EXCEPT ![k] = None]
    /\ UNCHANGED <<life, binding, engines, udp, pointer>>

\* grant_until and pending_handoff are good for 120 seconds each.
Lapse(e) ==
    /\ \/ engines[e].granted /\ engines' = [engines EXCEPT ![e].granted = FALSE]
       \/ engines[e].handoff /\ engines' = [engines EXCEPT ![e].handoff = FALSE]
       \/ engines[e].p2p # None /\ engines' = [engines EXCEPT ![e].p2p = None]
    /\ UNCHANGED <<life, binding, link, udp, pointer>>

-----------------------------------------------------------------------------
(* Game connections                                                        *)

Of(k) == engines[link[k].engine]
With(k, e) == [engines EXCEPT ![link[k].engine] = e]
Moved(k, phase) == [link EXCEPT ![k].phase = phase]

\* Every message is admitted anew; the first one fixes the identity.
Accepted(k) ==
    /\ Kind(k, "game")
    /\ link[k].id = None => Running(link[k].owner)
    /\ Bound(link[k].owner)
    /\ binding[link[k].owner.pid].uid = Of(k).uid
Handoff(k, stage) ==
    Accepted(k) /\ link[k].phase = "CONNECTED" /\ binding[link[k].owner.pid].stage = stage

\* 1010
Bootstrap(k) ==
    /\ Handoff(k, "directory")
    /\ Of(k).granted /\ Idle(Of(k))
    /\ engines' = With(k, [Of(k) EXCEPT !.bootstrap = k])
    /\ binding' = Staged(link[k].owner, "bootstrap")
    /\ link' = [link EXCEPT ![k] = [@ EXCEPT !.id = link[k].owner, !.phase = "BOOTSTRAP"]]
    /\ UNCHANGED <<life, udp, pointer>>

\* The reply to 1010 has been sent.
BootstrapSent(k) ==
    /\ Kind(k, "game") /\ link[k].phase = "BOOTSTRAP" /\ ~link[k].sent
    /\ link' = [link EXCEPT ![k].sent = TRUE]
    /\ UNCHANGED <<life, binding, engines, udp, pointer>>

\* The client process writes the file once it shows the bootstrap data.
WritePointer(k) ==
    /\ Kind(k, "game") /\ link[k].phase = "BOOTSTRAP" /\ link[k].sent /\ Running(link[k].owner)
    /\ pointer' = [by |-> link[k].owner, fresh |-> TRUE, left |-> FALSE]
    /\ UNCHANGED <<life, binding, engines, link, udp>>

\* profile_ready, from pulse.
ProfileReady(k) ==
    /\ Kind(k, "game") /\ link[k].phase = "BOOTSTRAP" /\ link[k].sent
    /\ Bound(link[k].id) /\ pointer.fresh
    /\ link' = Moved(k, "PROFILE")
    /\ UNCHANGED <<life, binding, engines, udp, pointer>>

\* 3320
SelectRole(k) ==
    /\ Accepted(k) /\ Of(k).bootstrap = k /\ link[k].phase = "PROFILE"
    /\ engines' = With(k, [Of(k) EXCEPT !.handoff = TRUE])
    /\ link' = Moved(k, "HANDOFF")
    /\ UNCHANGED <<life, binding, udp, pointer>>

\* 2010
EnterLobby(k) ==
    /\ Handoff(k, "bootstrap")
    /\ Of(k).handoff /\ Of(k).game = None
    /\ engines' = With(k, [Of(k) EXCEPT !.handoff = FALSE, !.game = k])
    /\ binding' = Staged(link[k].owner, "game")
    /\ link' = [link EXCEPT ![k] = [@ EXCEPT !.id = link[k].owner, !.phase = "LOBBY"]]
    /\ UNCHANGED <<life, udp, pointer>>

\* 2250
Directory(k) ==
    /\ Accepted(k) /\ Of(k).game = k /\ link[k].phase = "LOBBY"
    /\ binding' = [binding EXCEPT ![link[k].id.pid].lobby_ready = TRUE]
    /\ UNCHANGED <<life, engines, link, udp, pointer>>

\* Engine.disconnect, without a hub.
Disconnected(k) ==
    LET e == Of(k)
    IN  With(k, IF e.game = k
                THEN [e EXCEPT !.bootstrap = IF @ = k THEN None ELSE @,
                               !.game = None, !.p2p = None, !.room = None]
                ELSE [e EXCEPT !.bootstrap = IF @ = k THEN None ELSE @])
Gone(k) == [pointer EXCEPT !.left = @ \/ pointer.by = link[k].owner]

\* 2060 from the lobby: back to region selection, where 2010 comes from.
StillGame == "game"   \* mutant
ReturnedStage == "bootstrap"
ReturnToRegions(k) ==
    /\ Accepted(k) /\ Of(k).game = k /\ link[k].phase = "LOBBY" /\ Of(k).room = None
    /\ engines' = [Disconnected(k) EXCEPT ![link[k].engine].handoff = TRUE]
    /\ binding' = [binding EXCEPT ![link[k].id.pid] =
                       [@ EXCEPT !.stage = ReturnedStage, !.lobby_ready = FALSE]]
    /\ link' = Moved(k, "CLOSED")
    /\ pointer' = Gone(k)
    /\ UNCHANGED <<life, udp>>

\* 2060 from the bootstrap connection: back to the login.
ReturnToLogin(k) ==
    /\ Accepted(k) /\ Of(k).bootstrap = k
    /\ engines' = [Disconnected(k) EXCEPT ![link[k].engine] =
                       [@ EXCEPT !.handoff = FALSE, !.granted = FALSE]]
    /\ binding' = Released(link[k].id)
    /\ link' = [Orphaned(link[k].id) EXCEPT ![k].phase = "CLOSED"]
    /\ pointer' = Gone(k)
    /\ UNCHANGED <<life, udp>>

\* The end of _game, for whatever reason: the peer closed, a message was
\* refused, pulse gave up, or 2070 was flushed.
LostInGame(k) == Of(k).game = k   \* mutant
LostByItself(k) == Of(k).game = k \/ (Of(k).bootstrap = k /\ link[k].phase # "HANDOFF")
GameEnd(k) ==
    LET id == link[k].id
    IN  /\ Kind(k, "game")
        /\ engines' = Disconnected(k)
        /\ IF LostByItself(k)
           THEN /\ pointer' = [pointer EXCEPT !.fresh = FALSE]
                /\ binding' = Released(id)
                /\ link' = [Orphaned(id) EXCEPT ![k] = None]
           ELSE /\ pointer' = IF Of(k).bootstrap = k /\ link[k].phase = "HANDOFF"
                              THEN Gone(k) ELSE pointer
                /\ link' = [link EXCEPT ![k] = None]
                /\ UNCHANGED binding
        /\ UNCHANGED <<life, udp>>

-----------------------------------------------------------------------------
(* UDP and rooms                                                           *)

\* authorize_udp: an address is attributed to a process once per SDK login.
Attributed(x, id) == IF udp[x] = None THEN Running(id) ELSE udp[x] = id
MayUse(id) == Bound(id) /\ binding[id.pid].stage = "game" /\ binding[id.pid].uid = engines[Len(engines)].uid

\* 1001; the attribution is kept even if the datagram is refused later.
Datagram(x, id) ==
    LET e == engines[Len(engines)]
        renews == e.p2p # None /\ e.p2p.peer = x
    IN  /\ engines # <<>> /\ Attributed(x, id)
        /\ udp' = [udp EXCEPT ![x] = id]
        /\ engines' = IF MayUse(id) /\ e.p2p = None /\ e.game # None
                      THEN [engines EXCEPT ![Len(engines)].p2p = [peer |-> x, bound |-> FALSE]]
                      ELSE engines
        /\ udp' # udp \/ engines' # engines
        /\ UNCHANGED <<life, binding, link, pointer>>

\* 1012
Unregister(x) ==
    LET e == engines[Len(engines)]
    IN  /\ engines # <<>> /\ e.p2p # None /\ e.p2p.peer = x
        /\ udp[x] # None /\ MayUse(udp[x])
        /\ engines' = [engines EXCEPT ![Len(engines)].p2p = None]
        /\ UNCHANGED <<life, binding, link, udp, pointer>>

Playing(k, phase) == Accepted(k) /\ Of(k).game = k /\ link[k].phase = phase
Plays(k, room, phase) ==
    /\ engines' = With(k, [Of(k) EXCEPT !.room = room])
    /\ link' = Moved(k, phase)
    /\ UNCHANGED <<life, binding, udp, pointer>>

\* 1156
BindP2P(k) ==
    /\ Accepted(k) /\ Of(k).game = k /\ Of(k).p2p # None /\ ~Of(k).p2p.bound
    /\ engines' = With(k, [Of(k) EXCEPT !.p2p.bound = TRUE])
    /\ UNCHANGED <<life, binding, link, udp, pointer>>

\* 3010, 3110 or 4031, 4030, 4160 and 8040; a competitive room has nobody
\* to play against.
CreateRoom(k, kind) ==
    Playing(k, "LOBBY") /\ Of(k).p2p # None /\ Of(k).p2p.bound /\ Plays(k, kind, "ROOM")
LeaveRoom(k) == (Playing(k, "ROOM") \/ Playing(k, "BATTLE")) /\ Plays(k, None, "LOBBY")
StartRoom(k) ==
    /\ Playing(k, "ROOM") /\ Of(k).p2p # None /\ Of(k).room # "competitive"
    /\ Plays(k, Of(k).room, "LOADING")
RoomLoaded(k) == Playing(k, "LOADING") /\ Plays(k, Of(k).room, "WAIT_READY")
RoomReady(k) == Playing(k, "WAIT_READY") /\ Plays(k, Of(k).room, "BATTLE")

-----------------------------------------------------------------------------
BridgeNext ==
    \/ \E p \in Pids : Exit(p) \/ Overdue(p) \/ SessionOver(p) \/ \E u \in Uids : Bind(p, u)
    \/ \E k \in Links, p \in Pids, kind \in {"sdk", "game"} : Connect(k, p, kind)
    \/ \E k \in Links : SdkLogin(k) \/ SdkList(k) \/ SdkEnd(k)
    \/ \E e \in DOMAIN engines : Lapse(e)
    \/ \E k \in Links : \/ Bootstrap(k) \/ BootstrapSent(k) \/ WritePointer(k) \/ ProfileReady(k)
                        \/ SelectRole(k) \/ EnterLobby(k) \/ Directory(k)
                        \/ ReturnToRegions(k) \/ ReturnToLogin(k) \/ GameEnd(k)
    \/ \E x \in Endpoints : Unregister(x) \/ \E id \in Identities : Datagram(x, id)
    \/ \E k \in Links : \/ BindP2P(k) \/ LeaveRoom(k) \/ StartRoom(k) \/ RoomLoaded(k) \/ RoomReady(k)
                        \/ \E kind \in {"casual", "competitive"} : CreateRoom(k, kind)

BridgeSpec == BridgeInit /\ [][BridgeNext]_bridgeVars

-----------------------------------------------------------------------------
\* Whether k is a connection its engine serves.
Served(k) == Kind(k, "game") /\ k \in {Of(k).bootstrap, Of(k).game}

\* Nothing of a client outlives its connections.  A binding in stage "game",
\* which never expires, has the game connection of an engine of its account;
\* a role-ready file start_time admits is that of a client being served,
\* unless its writer went back to region selection or login or was in the
\* handoff between two connections; an engine has a UDP lease or a room only
\* with a game connection, and the room is there exactly in its phases.
ClientsHeld ==
    /\ \A p \in Pids :
           binding[p] # None /\ binding[p].stage = "game" =>
               \E k \in Links : /\ Kind(k, "game") /\ Of(k).game = k
                                /\ link[k].owner = [pid |-> p, life |-> binding[p].life]
                                /\ Of(k).uid = binding[p].uid
    /\ pointer.fresh /\ ~pointer.left => \E k \in Links : Served(k) /\ link[k].owner = pointer.by
    /\ \A i \in DOMAIN engines :
           LET e == engines[i]
           IN  /\ e.game = None => e.p2p = None /\ e.room = None
               /\ e.game # None =>
                      (e.room # None) = (link[e.game].phase \in {"ROOM", "LOADING", "WAIT_READY", "BATTLE"})
=============================================================================
