------------------------------ MODULE HostModes ------------------------------
(***************************************************************************)
(* Battles whose course the Host tells the server (local service only):    *)
(* stage assault with its waves (pve.py), foster with its groups           *)
(* (foster.py) and team series of several rounds (team_series.py,          *)
(* battle_results.py).                                                     *)
(*                                                                         *)
(* The Host's events come by TCP or are observed in its UDP relay; either  *)
(* may be repeated, late or out of order, and both change the same state.  *)
(* The server does not simulate combat: it admits what can follow from     *)
(* what it was told before.                                                *)
(***************************************************************************)
EXTENDS BattleRelay, Integers

CONSTANTS
    Modes,         \* bound: of "assault", "foster" and "series", those played
    Actors,        \* identities the Host gives to monsters
    Templates,
    Waves,         \* of the stage plan: wave -> template -> count
    Groups,        \* of the foster plan: spawns, limit and block of each group
    GlobalLimit,   \* monsters of a foster battle, corpses included
    InitialHp,     \* of a monster
    Limit,         \* rounds of a series: 1, 3, 5 or 7
    MaxNumber,     \* bound: sequence numbers of the Host's events about monsters
    MaxDecisions   \* bound: the same about the rounds of a series

ASSUME HostModesAssumption ==
    /\ Modes \subseteq {"assault", "foster", "series"} /\ Modes \cap Families = {}
    /\ GlobalLimit \in Nat /\ InitialHp \in Nat \ {0} /\ MaxNumber \in Nat /\ MaxDecisions \in Nat
    /\ Limit \in {1, 3, 5, 7}
    /\ IsFiniteSet(Templates) /\ Waves \in Seq([Templates -> Nat])
    /\ \A g \in DOMAIN Groups : Groups[g].spawns \in Seq(Templates)
    /\ None \notin [active : BOOLEAN, sequence : Nat, group : Templates \cup DOMAIN Groups, hp : Int]
    /\ None \notin BOOLEAN

VARIABLES
    stage,           \* "battle", "result" or "room"
    actors,          \* actor -> active, sequence, template, group, hp; or None
    event_versions,  \* actor -> sequence of its last event in this life
    index,           \* waves that are over
    finished,
    spawned,         \* template or group -> monsters spawned, of this wave or of all
    retired,         \* group -> dead monsters that were removed
    triggered,       \* groups a fighter has come near
    opened,          \* blocks -> sequence of the last event, whether it is open
    result_acks,     \* members who have left the result view
    outcome,         \* of the result, or None
    series,          \* scores, phase, ready, viewing, versions and report
    born, gone,      \* history: monsters spawned and removed in the battle
    fled,            \* history: group -> monsters removed alive
    rounds           \* history: the Host's decisions that counted, with the scores

npcVars == <<actors, event_versions, index, finished, spawned, retired,
             triggered, opened, born, gone, fled>>
hostVars == <<stage, npcVars, result_acks, outcome, series, rounds>>
relayVars == <<last_sequence, ledgers, pairs, cache, log, inbox>>
allVars == <<vars, hostVars>>

GroupIds == DOMAIN Groups
Blocks == {Groups[g].block : g \in GroupIds}

HostInit ==
    /\ stage = "battle"
    /\ actors = [a \in Actors |-> None]
    /\ event_versions = [a \in Actors |-> 0]
    /\ index = 0 /\ finished = FALSE
    /\ spawned = [x \in Templates \cup GroupIds |-> 0]
    /\ retired = [g \in GroupIds |-> 0]
    /\ triggered = {}
    /\ opened = [b \in Blocks |-> [sequence |-> 0, open |-> FALSE]]
    /\ result_acks = {} /\ outcome = None
    /\ series = [scores |-> <<0, 0>>, phase |-> "playing", ready |-> {}, viewing |-> {},
                 versions |-> [u \in Members |-> 0], report |-> None]
    /\ born = 0 /\ gone = 0 /\ fled = [g \in GroupIds |-> 0] /\ rounds = <<>>

-----------------------------------------------------------------------------
(* Monsters                                                                *)

Active == {a \in Actors : actors[a] # None /\ actors[a].active}
Assault == family = "assault"
Fought == stage = "battle" /\ family \in {"assault", "foster"}

\* A spawn or a removal: newer than the last; in foster also than what the
\* monster did since.
Newer(a, seq) ==
    /\ actors[a] # None => seq > actors[a].sequence
    /\ ~Assault => seq > event_versions[a]

Living(g) == Cardinality({a \in Active : actors[a].group = g /\ actors[a].hp > 0})

\* The groups whose next monster is the one that comes up at the point.
Matching(point) ==
    {g \in triggered :
        /\ Living(g) < Groups[g].limit
        /\ spawned[g] < Len(Groups[g].spawns)
        /\ Groups[g].spawns[spawned[g] + 1] = point}

\* 20400: a monster of the current wave, or the next one of a single group.
Spawn(a, point, seq) ==
    /\ Fought /\ ~finished
    /\ a \notin Active /\ Newer(a, seq)
    /\ \E x \in Templates \cup GroupIds :
           /\ IF Assault THEN x = point /\ spawned[x] < Waves[index + 1][x]
              ELSE Cardinality(Active) < GlobalLimit /\ Matching(point) = {x}
           /\ spawned' = [spawned EXCEPT ![x] = @ + 1]
           /\ actors' = [actors EXCEPT ![a] =
                  [active |-> TRUE, sequence |-> seq, group |-> x, hp |-> InitialHp]]
    /\ event_versions' = [event_versions EXCEPT ![a] = 0]
    /\ born' = born + 1
    /\ UNCHANGED <<index, finished, retired, triggered, opened, gone, fled>>

\* Mutant: what is removed counts as defeated.
Removed(a) == 1
\* Only what was dead when it was removed is retired.
Retires(a) == IF actors[a].hp = 0 THEN 1 ELSE 0

\* 20401
Despawn(a, seq) ==
    /\ Fought /\ a \in Active /\ Newer(a, seq)
    /\ actors' = [actors EXCEPT ![a].active = FALSE, ![a].sequence = seq]
    /\ event_versions' = [event_versions EXCEPT ![a] = 0]
    /\ IF Assault THEN UNCHANGED <<retired, fled>>
       ELSE LET g == actors[a].group
            IN  /\ retired' = [retired EXCEPT ![g] = @ + Retires(a)]
                /\ fled' = [fled EXCEPT ![g] = IF actors[a].hp = 0 THEN @ ELSE @ + 1]
    /\ gone' = gone + 1
    /\ UNCHANGED <<index, finished, spawned, triggered, opened, born>>

\* 8121 and the other events of a live monster: damage, or its opposite.
Act(a, seq, amount) ==
    /\ Fought /\ a \in Active
    /\ seq > event_versions[a] /\ seq > actors[a].sequence
    /\ event_versions' = [event_versions EXCEPT ![a] = seq]
    /\ actors' = IF Assault THEN actors
                 ELSE [actors EXCEPT ![a].hp = Min({InitialHp, Max({0, @ - amount})})]
    /\ UNCHANGED <<index, finished, spawned, retired, triggered, opened,
                   born, gone, fled>>

\* A fighter comes near a group.
Trigger(g) ==
    /\ Fought /\ ~Assault /\ g \notin triggered
    /\ triggered' = triggered \cup {g}
    /\ UNCHANGED <<actors, event_versions, index, finished, spawned, retired,
                   opened, born, gone, fled>>

GroupComplete(g) ==
    LET mine == {a \in Active : actors[a].group = g}
    IN  /\ spawned[g] = Len(Groups[g].spawns)
        /\ \A a \in mine : actors[a].hp = 0
        /\ retired[g] + Cardinality(mine) = spawned[g]

\* 20403 closes a block, 20404 opens it once the groups behind it are complete.
Block(b, seq, open) ==
    /\ Fought /\ seq > opened[b].sequence
    /\ open /\ ~Assault => \A g \in GroupIds : Groups[g].block = b => GroupComplete(g)
    /\ opened' = [opened EXCEPT ![b] = [sequence |-> seq, open |-> open]]
    /\ UNCHANGED <<actors, event_versions, index, finished, spawned, retired,
                   triggered, born, gone, fled>>

\* Mutant: the next wave may begin over what is left of the last.
Spawned == \A t \in Templates : spawned[t] = Waves[index + 1][t]
\* All of the wave came, and none of it is there.
Defeated == Spawned /\ Active = {}

\* 20571
ReportWave ==
    /\ Fought /\ Assault /\ ~finished
    /\ Defeated
    /\ index' = index + 1
    /\ finished' = (index' = Len(Waves))
    /\ spawned' = [x \in DOMAIN spawned |-> 0]
    /\ UNCHANGED <<actors, event_versions, retired, triggered, opened,
                   born, gone, fled>>

\* 20407.  One counts, whatever its number.
Finish ==
    /\ Fought /\ ~Assault /\ ~finished
    /\ finished' = TRUE
    /\ UNCHANGED <<actors, event_versions, index, spawned, retired, triggered, opened,
                   born, gone, fled>>

Cleared ==
    IF Assault THEN finished /\ Active = {}
               ELSE finished /\ \A g \in GroupIds : GroupComplete(g)

\* 4110 of the Host: cleared, or failed with all fighters dead.
Result(clear) ==
    /\ Fought
    /\ IF clear THEN Cleared ELSE ~finished
    /\ stage' = "result" /\ outcome' = clear
    /\ UNCHANGED <<npcVars, result_acks, series, rounds, relayVars>>

\* 4115
Acknowledge(u) ==
    /\ stage = "result" /\ family # "series" /\ u \notin result_acks
    /\ result_acks' = result_acks \cup {u}
    /\ stage' = IF result_acks' = Members THEN "room" ELSE stage
    /\ UNCHANGED <<npcVars, outcome, series, rounds, relayVars>>

Numbered == 1 .. MaxNumber

NpcNext ==
    \/ \E a \in Actors, seq \in Numbered :
           \/ \E point \in Templates : Spawn(a, point, seq)
           \/ Despawn(a, seq)
           \/ \E amount \in {1, -1} : Act(a, seq, amount)
    \/ \E g \in GroupIds : Trigger(g)
    \/ \E b \in Blocks, seq \in 1 .. MaxSequence, open \in BOOLEAN : Block(b, seq, open)
    \/ ReportWave
    \/ Finish

-----------------------------------------------------------------------------
(* Series                                                                  *)

Played == stage = "battle" /\ family = "series"
Half == Limit \div 2
Plus(scores, side) == [scores EXCEPT ![side] = @ + 1]
Steps(scores) == {scores, Plus(scores, 1), Plus(scores, 2)}
Top(scores) == Max({scores[1], scores[2]})
Bottom(scores) == Min({scores[1], scores[2]})

\* Mutant: by UDP a copy of an old decision counts again.
Unversioned(u, seq, tcp) == tcp => seq > last_sequence[u]
\* observe: newer than what counted; by TCP also than what was relayed.
Counts(u, seq, tcp) == seq > series.versions[u] /\ (tcp => seq > last_sequence[u])

Decided(u, seq, tcp, next) ==
    /\ Played /\ Counts(u, seq, tcp)
    /\ series' = [next EXCEPT !.versions[u] = seq]
    /\ last_sequence' = IF tcp THEN [last_sequence EXCEPT ![u] = seq] ELSE last_sequence
    /\ rounds' = IF u = Host THEN Append(rounds, [seq |-> seq, phase |-> next.phase, scores |-> next.scores])
                 ELSE rounds
    /\ UNCHANGED <<stage, npcVars, result_acks, outcome, ledgers, pairs, cache, log, inbox>>

\* 8294: a round is over; nobody has won the series.
Interval(seq, tcp, scores) ==
    /\ series.phase = "playing" /\ scores \in Steps(series.scores) /\ Top(scores) <= Half
    /\ Decided(Host, seq, tcp, [series EXCEPT !.scores = scores, !.phase = "interval", !.ready = {Host}])
\* 8295: the next one begins, whoever is ready.
Continue(seq, tcp) ==
    /\ series.phase = "interval"
    /\ Decided(Host, seq, tcp, [series EXCEPT !.phase = "playing", !.ready = {}])
\* 8296: of another fighter, to the Host.
Ready(u, seq, tcp) ==
    /\ u # Host /\ series.phase = "interval" /\ u \notin series.ready
    /\ Decided(u, seq, tcp, [series EXCEPT !.ready = @ \cup {u}])
\* 8297: the series is over; its report follows.
Finishing(seq, tcp) ==
    /\ series.phase = "playing"
    /\ Decided(Host, seq, tcp, [series EXCEPT !.phase = "finishing"])

\* 4111: the winner has just got its majority.
AcceptsFinal(scores) ==
    /\ series.phase = "finishing"
    /\ scores \in Steps(series.scores) \ {series.scores}
    /\ Top(scores) = Half + 1 /\ Bottom(scores) < Half + 1

SeriesResult(scores) ==
    /\ Played /\ AcceptsFinal(scores)
    /\ series' = [series EXCEPT !.report = scores, !.phase = "result"]
    /\ stage' = "result" /\ result_acks' = {}
    /\ UNCHANGED <<npcVars, outcome, rounds, relayVars>>

\* 3550: a fighter looks at the result, and comes back from it.
View(u) ==
    /\ stage = "result" /\ series.phase = "result" /\ u \notin result_acks \cup series.viewing
    /\ series' = [series EXCEPT !.viewing = @ \cup {u}]
    /\ UNCHANGED <<stage, npcVars, result_acks, outcome, rounds, relayVars>>
Return(u) ==
    /\ stage = "result" /\ series.phase = "result" /\ u \in series.viewing \ result_acks
    /\ result_acks' = result_acks \cup {u}
    /\ stage' = IF result_acks' = Members THEN "room" ELSE stage
    /\ UNCHANGED <<npcVars, outcome, series, rounds, relayVars>>

Scores == [1 .. 2 -> 0 .. Half + 1]
SeriesNext ==
    \/ \E seq \in 1 .. MaxDecisions, tcp \in BOOLEAN :
           \/ \E scores \in Scores : Interval(seq, tcp, scores)
           \/ Continue(seq, tcp) \/ Finishing(seq, tcp)
           \/ \E u \in Members : seq <= MaxSequence /\ Ready(u, seq, tcp)
    \/ \E scores \in Scores : SeriesResult(scores)
    \/ \E u \in Members : View(u) \/ Return(u)

-----------------------------------------------------------------------------
\* A battle of the public service, or one of these.
BattleInit ==
    /\ family \in Families \cup Modes
    /\ RelayInit
    /\ HostInit
BattleNext ==
    /\ UNCHANGED family
    /\ \/ Next /\ UNCHANGED hostVars
       \/ NpcNext /\ UNCHANGED <<stage, result_acks, outcome, series, rounds, relayVars>>
       \/ \E clear \in BOOLEAN : Result(clear)
       \/ \E u \in Members : Acknowledge(u)
       \/ SeriesNext
BattleSpec == BattleInit /\ [][BattleNext]_allVars

-----------------------------------------------------------------------------
Quota(w) == SumFunction([t \in Templates |-> Waves[w][t]])
SpawnedNow == SumFunction([t \in Templates |-> spawned[t]])
Through(last) == SumFunction([w \in 1 .. last |-> Quota(w)])

\* Every monster is counted once, whatever identities the Host uses again and
\* however its events are repeated or late: those of a wave are its quota and
\* all of them are gone before the next; a group is complete, and the battle
\* cleared, only when each of its monsters came up and died.
MonstersAccounted ==
    /\ Cardinality(Active) = born - gone
    /\ family = "assault" =>
           /\ born = SpawnedNow + Through(index)
           /\ gone >= Through(index)
           /\ outcome = TRUE => gone = Through(Len(Waves))
    /\ family = "foster" =>
           /\ Cardinality(Active) <= GlobalLimit
           /\ \A g \in GroupIds :
                  /\ spawned[g] <= Len(Groups[g].spawns)
                  /\ GroupComplete(g) \/ outcome = TRUE =>
                         spawned[g] = Len(Groups[g].spawns) /\ fled[g] = 0

\* The Host's decisions count once each and in the order it made them, by
\* whichever transport they come; rounds and intervals alternate, a round
\* gives at most one point, and the series ends with the round in which a
\* side first has the majority.
SeriesDecided ==
    /\ \A i \in DOMAIN rounds \ {1} :
           LET before == rounds[i - 1]  now == rounds[i]
           IN  /\ now.seq > before.seq
               /\ before.phase # "finishing" /\ now.phase # before.phase
               /\ now.scores \in Steps(before.scores)
               /\ now.phase # "interval" => now.scores = before.scores
    /\ \A i \in DOMAIN rounds : Top(rounds[i].scores) <= Half
    /\ series.report # None =>
           /\ Last(rounds).phase = "finishing"
           /\ Top(series.report) = Half + 1
           /\ series.report[1] + series.report[2] <=
                  1 + Cardinality({i \in DOMAIN rounds : rounds[i].phase = "interval"})
=============================================================================
