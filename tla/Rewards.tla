------------------------------ MODULE Rewards ------------------------------
(***************************************************************************)
(* What the Keeper earns: match points and training                        *)
(* (features/progression.py), quests (quests.py, ordinary_quests.py,       *)
(* quest_rewards.py) and titles (title_rewards.py, tutorial.py).           *)
(*                                                                         *)
(* An ordinary task is complete when the battles counted in the profile    *)
(* since it was accepted suffice, and is rewarded when the list is asked   *)
(* for; a daily task counts won battles of its own and is claimed.  The    *)
(* rule of a reward is frozen when the task is accepted.  Every reward     *)
(* comes with an item.                                                     *)
(***************************************************************************)
EXTENDS Gear

CONSTANTS
    Tasks,         \* key -> family, needed battles, title, and the task it follows
    TitleLevels,   \* levels in the client's table
    Prizes,       \* what a title may offer
    PointsPerHour, PointsCap,   \* of training
    MaxPoints,     \* the largest score (2^31 - 1)
    MaxHours,      \* bound: the clock, in hours
    Managed,       \* bound: the tasks whose rules and availability change
    ManagedTitles  \* bound: the titles whose offer changes

ASSUME RewardsAssumption ==
    /\ IsFiniteSet(DOMAIN Tasks) /\ DOMAIN Tasks \subseteq Nat
    /\ \A q \in DOMAIN Tasks : Tasks[q].needed \in Nat /\ Tasks[q].title \in Nat
    /\ None \notin [state : Nat, baseline : Nat, count : Nat, rule : Nat \cup {None}]
    /\ None \notin Prizes
    /\ None \notin [offered : SUBSET Prizes, instance : Nat \cup {None}, chosen : Prizes \cup {0, None}]
    /\ TitleLevels \subseteq Nat \ {0} /\ Managed \subseteq DOMAIN Tasks
    /\ ManagedTitles \subseteq TitleLevels
    /\ PointsPerHour \in Nat \ {0} /\ PointsCap \in Nat /\ MaxPoints \in Nat /\ MaxHours \in Nat

VARIABLES
    points,           \* score in the profile
    title,            \* title in the profile, 0 for none
    plays,            \* battles the profile counts
    settled,          \* battle -> its outcome, the receipt of the award
    hours,            \* wall_clock, in hours
    training,         \* when training began, or None
    training_claims,  \* start -> hours paid
    available,        \* tasks the administrator offers
    rules,            \* task -> gold of its reward, or None
    progress,         \* task -> state, baseline, counts and frozen rule, or None
    quest_offer,      \* tasks listed to this connection
    title_rules,      \* level -> what it offers
    entitlements,     \* level -> what is offered and what was chosen, or None
    title_offer,      \* level announced to this connection, or None
    tutorial,         \* whether the tutorial was completed
    accepted,         \* history: task -> battles won and counted by then, and the rule
    rewarded          \* history: what each reward was

progressVars == <<points, plays, settled, hours, training, training_claims>>
questVars == <<available, rules, progress, quest_offer, accepted, rewarded>>
titleVars == <<title, title_rules, entitlements, title_offer, tutorial>>
rewardsVars == <<gearVars, progressVars, questVars, titleVars>>

RewardsInit ==
    /\ points = 0 /\ title = 0 /\ plays = 0 /\ settled = <<>>
    /\ hours = 0 /\ training = None /\ training_claims = <<>>
    /\ available = DOMAIN Tasks /\ rules = [q \in DOMAIN Tasks |-> 1]
    /\ progress = [q \in DOMAIN Tasks |-> None]
    /\ quest_offer = {}
    /\ title_rules = [level \in TitleLevels |-> Prizes]
    /\ entitlements = [level \in TitleLevels |-> None]
    /\ title_offer = None /\ tutorial = FALSE
    /\ accepted = [q \in DOMAIN Tasks |-> None] /\ rewarded = {}

Daily(q) == Tasks[q].family = "daily"
Ordinary == {q \in DOMAIN Tasks : ~Daily(q)}
State(q) == IF progress[q] = None THEN 1 ELSE progress[q].state

\* Engine.disconnect
Forget ==
    /\ quest_offer # {} \/ title_offer # None
    /\ stage' = "lobby" /\ consume_intents' = {} /\ Cleared
    /\ quest_offer' = {} /\ title_offer' = None
    /\ UNCHANGED <<storeVars, serial, consumption_events, intents, talisman_uses, replicas,
                   progressVars, available, rules, progress, accepted, rewarded,
                   title, title_rules, entitlements, tutorial>>

-----------------------------------------------------------------------------
(* Match points and training                                               *)

Rate(outcome) == IF outcome = "win" THEN 2 ELSE 1

\* Ordinary tasks are counted when one of them has a rule.
TrackingReady == \E q \in Ordinary : q \in available /\ rules[q] # None

\* award_match_points: one receipt for a battle; a repetition changes nothing.
Unsettled == Fighting /\ serial \notin DOMAIN settled

\* settled_locked: the daily tasks that are accepted under a rule in force.
Counts(q) == /\ Daily(q) /\ q \in available /\ rules[q] # None
             /\ State(q) = 2 /\ progress[q].rule # None
\* Mutant: a task is complete one battle early.
Early(q, outcome) ==
    LET n == progress[q].count + 1
    IN  [progress[q] EXCEPT !.count = n, !.state = IF n + 1 >= Tasks[q].needed THEN 4 ELSE 2]
Counted(q, outcome) ==
    LET n == IF outcome = "win" THEN Min({progress[q].count + 1, Tasks[q].needed})
             ELSE progress[q].count
    IN  [progress[q] EXCEPT !.count = n, !.state = IF n >= Tasks[q].needed THEN 4 ELSE 2]

\* Points, counters and tasks in one transaction.
Settle(outcome) ==
    /\ Unsettled
    /\ settled' = Adding(settled, [b \in {serial} |-> outcome])
    /\ points' = Min({points + Rate(outcome), MaxPoints})
    /\ plays' = IF TrackingReady THEN plays + 1 ELSE plays
    /\ progress' = [q \in DOMAIN Tasks |-> IF Counts(q) THEN Counted(q, outcome) ELSE progress[q]]
    /\ UNCHANGED <<storeVars, gearVars, hours, training, training_claims, available, rules,
                   quest_offer, accepted, rewarded, titleVars>>

Hour ==
    /\ hours < MaxHours /\ hours' = hours + 1
    /\ UNCHANGED <<storeVars, gearVars, points, plays, settled, training, training_claims,
                   questVars, titleVars>>

\* 21002
StartTraining ==
    /\ training = None /\ training' = hours
    /\ UNCHANGED <<storeVars, gearVars, points, plays, settled, hours, training_claims,
                   questVars, titleVars>>

\* Mutant: what was paid goes on counting.
Continued == training
\* A claim ends the interval; 21002 begins another.
Ended == None

\* 21006: whole hours, and nothing that would not fit the score.
ClaimTraining ==
    LET earned == Min({(hours - training) * PointsPerHour, PointsCap, MaxPoints - points})
    IN  /\ training # None /\ stage # "battle"
        /\ hours > training /\ training \notin DOMAIN training_claims
        /\ earned > 0
        /\ points' = points + earned
        /\ training_claims' = Adding(training_claims,
               [t \in {training} |-> [hours |-> hours - training, points |-> earned]])
        /\ training' = Ended
        /\ UNCHANGED <<storeVars, gearVars, plays, settled, hours, questVars, titleVars>>

-----------------------------------------------------------------------------
(* Titles                                                                  *)

Pending == {level \in TitleLevels : entitlements[level] # None /\ entitlements[level].chosen = None}

Grantable(level) == entitlements[level] = None /\ Pending = {} /\ title <= level

\* issue_locked: a title that offers nothing is not pending.
IssueLocked(level) ==
    /\ Grantable(level)
    /\ entitlements' = [entitlements EXCEPT ![level] =
           [offered |-> title_rules[level], instance |-> None,
            chosen |-> IF title_rules[level] = {} THEN 0 ELSE None]]
    /\ title' = level

Issue(level) ==
    /\ IssueLocked(level)
    /\ UNCHANGED <<storeVars, gearVars, progressVars, questVars, title_rules, title_offer, tutorial>>

ConfigureTitle(level, offered) ==
    /\ title_rules[level] # offered
    /\ title_rules' = [title_rules EXCEPT ![level] = offered]
    /\ UNCHANGED <<storeVars, gearVars, progressVars, questVars, title, entitlements, title_offer, tutorial>>

\* announce: what was announced to this connection, else the pending title;
\* only one that is the profile's title.
Announced(pending, current) ==
    LET level == IF title_offer # None THEN title_offer
                 ELSE IF pending # {} THEN Min(pending) ELSE None
    IN  IF level \in pending /\ level = current THEN level ELSE title_offer

\* 4124, at the end of a battle that is the tutorial: the first time it issues
\* the second title.  Refused if that cannot be, to be sent again.
CompleteTutorial ==
    /\ Fighting /\ serial \notin DOMAIN settled
    /\ IF tutorial THEN UNCHANGED <<entitlements, title>> ELSE IssueLocked(2)
    /\ tutorial' = TRUE
    /\ title_offer' = Announced({level \in TitleLevels : /\ entitlements'[level] # None
                                                         /\ entitlements'[level].chosen = None}, title')
    /\ stage' = "lobby" /\ consume_intents' = {} /\ Cleared
    /\ UNCHANGED <<storeVars, serial, consumption_events, intents, talisman_uses, replicas,
                   progressVars, questVars, title_rules>>

Choose(level, key, instance) ==
    entitlements' = [entitlements EXCEPT ![level].chosen = key, ![level].instance = instance]

\* 4126: one choice for one title; the same choice again returns the item.
ClaimTitle(key) ==
    /\ MayDress /\ title_offer # None
    /\ title_offer \in Pending /\ key \in entitlements[title_offer].offered
    /\ Insert(Keeper, Fresh("title", title_offer))
    /\ Choose(title_offer, key, NextInstance)
    /\ UNCHANGED <<wallet, gearVars, progressVars, questVars, title, title_rules, title_offer, tutorial>>

-----------------------------------------------------------------------------
(* Quests: phase LOBBY, and what was listed to this connection             *)

SetRule(q, gold) ==
    /\ rules[q] # gold /\ rules' = [rules EXCEPT ![q] = gold]
    /\ UNCHANGED <<storeVars, gearVars, progressVars, available, progress, quest_offer,
                   accepted, rewarded, titleVars>>
SetAvailable(q) ==
    /\ available' = IF q \in available THEN available \ {q} ELSE available \cup {q}
    /\ UNCHANGED <<storeVars, gearVars, progressVars, rules, progress, quest_offer,
                   accepted, rewarded, titleVars>>

\* visible: a task that follows another appears when that is rewarded.
VisibleIn(rows) ==
    {q \in available : rows[q] # None \/ Tasks[q].after = None
                       \/ (rows[Tasks[q].after] # None /\ rows[Tasks[q].after].state = 3)}
Offered(q) == stage = "lobby" /\ q \in quest_offer /\ q \in VisibleIn(progress)

Won == {b \in DOMAIN settled : settled[b] = "win"}

\* 6050, 6051: the rule and the counters of now are kept.
Accept(q) ==
    /\ Offered(q) /\ State(q) = 1
    /\ progress' = [progress EXCEPT ![q] = [state |-> 2, baseline |-> plays, count |-> 0, rule |-> rules[q]]]
    /\ accepted' = [accepted EXCEPT ![q] = [won |-> Won, settled |-> DOMAIN settled, rule |-> rules[q]]]
    /\ UNCHANGED <<storeVars, gearVars, progressVars, available, rules, quest_offer, rewarded, titleVars>>

Dropped(q) == [progress[q] EXCEPT !.state = 1, !.count = 0, !.rule = None]

\* 6080, 6081
Cancel(q) ==
    /\ Offered(q) /\ State(q) = 2
    /\ progress' = [progress EXCEPT ![q] = Dropped(q)]
    /\ UNCHANGED <<storeVars, gearVars, progressVars, available, rules, quest_offer,
                   accepted, rewarded, titleVars>>

\* Mutant: the reward is that of the rule of today.
Today(q) == IF rules[q] = None THEN 0 ELSE rules[q]
\* grant_locked: what was frozen, whatever the rule is now.
Reward(q) == progress[q].rule

\* The rewards of all tasks of done, or of none: one item each, in the order
\* of their keys.
GrantAll(done) ==
    LET rank(q) == Cardinality({r \in done : r <= q})
    IN  /\ Cardinality(DOMAIN Mine) + Cardinality(done) <= Capacity
        /\ Credit(Keeper, "gold", SumFunction([q \in done |-> Reward(q)]))
        /\ inventory' = [inventory EXCEPT ![Keeper] =
               Adding(@, [i \in {allocated + rank(q) : q \in done} |->
                              Fresh("task", CHOOSE q \in done : i = allocated + rank(q))])]
        /\ allocated' = allocated + Cardinality(done)
        /\ rewarded' = rewarded \cup
               {[task |-> q, instance |-> allocated + rank(q), gold |-> Reward(q)] : q \in done}

\* Mutant: a title is raised over one that is pending.
Overtaking(q) == FALSE
\* A title that the profile does not have yet waits for the choice that is open.
Waits(q) == Tasks[q].title > title /\ Pending # {}

\* complete: accepted under a rule that is still in force, conditions met.
Complete(q) ==
    /\ q \in VisibleIn(progress) /\ ~Daily(q)
    /\ State(q) = 2 /\ progress[q].rule # None /\ rules[q] # None
    /\ plays - progress[q].baseline >= Tasks[q].needed
    /\ Tasks[q].title \in TitleLevels \cup {0}
    /\ ~Waits(q)

\* 6000: rewards the ordinary tasks that are complete, lists what is visible
\* then, and announces a pending title.  With no task at all nothing is listed
\* anew.
Refresh ==
    LET done == {q \in DOMAIN Tasks : Complete(q)}
        rows == [q \in DOMAIN Tasks |-> IF q \in done THEN [progress[q] EXCEPT !.state = 3] ELSE progress[q]]
    IN  /\ stage = "lobby"
        /\ IF done = {} THEN UNCHANGED <<storeVars, rewarded>> ELSE GrantAll(done)
        /\ progress' = rows
        /\ title' = Max({title} \cup {Tasks[q].title : q \in done})
        /\ quest_offer' = IF available = {} THEN quest_offer ELSE VisibleIn(rows)
        /\ title_offer' = Announced(Pending, title')
        /\ UNCHANGED <<gearVars, progressVars, available, rules, accepted, title_rules,
                       entitlements, tutorial>>

\* 6001, 6002: the tasks of one family.
List(family) ==
    LET of(tasks) == {q \in tasks : Tasks[q].family = family}
    IN  /\ stage = "lobby" /\ available # {}
        /\ quest_offer' = (quest_offer \ of(quest_offer)) \cup of(VisibleIn(progress))
        /\ UNCHANGED <<storeVars, gearVars, progressVars, available, rules, progress,
                       accepted, rewarded, titleVars>>

\* 6311: a complete daily task, while the rule is in force.
ClaimTask(q) ==
    /\ Offered(q) /\ Daily(q)
    /\ State(q) = 4 /\ progress[q].rule # None /\ rules[q] # None
    /\ GrantAll({q})
    /\ progress' = [progress EXCEPT ![q].state = 3]
    /\ UNCHANGED <<gearVars, progressVars, available, rules, quest_offer, accepted, titleVars>>

BattleNext == UNCHANGED <<progressVars, questVars, titleVars>> /\ (Move \/ StartBattle \/ EndBattle)
SettleNext == \E outcome \in {"win", "loss"} : Settle(outcome)
TrainingNext == Hour \/ StartTraining \/ ClaimTraining
TitleNext ==
    \/ CompleteTutorial
    \/ \E level \in TitleLevels : Issue(level)
    \/ \E level \in ManagedTitles : ConfigureTitle(level, {}) \/ ConfigureTitle(level, Prizes)
    \/ \E key \in Prizes : ClaimTitle(key)
QuestNext ==
    \/ Refresh \/ Forget \/ List("daily")
    \/ \E q \in DOMAIN Tasks : Accept(q) \/ Cancel(q) \/ ClaimTask(q)
RulesNext ==
    \E q \in Managed : SetAvailable(q) \/ \E gold \in {None, 1, 2} : SetRule(q, gold)
=============================================================================
