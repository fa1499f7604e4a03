------------------------------- MODULE CastsMC --------------------------------
(***************************************************************************)
(* How a cast is taken (FishingCast, extended: its bounds are those of the *)
(* configuration, and a scenario of it takes part of its steps), with      *)
(* instances of what it comes to (CastResolution) and of how the journal   *)
(* of casts is kept and counted (CastLedger).  The three are joined in the *)
(* code by the row a cast leaves; here a behaviour is of one of them and   *)
(* the others rest.                                                        *)
(***************************************************************************)
EXTENDS FishingCast, Sequences, TLC

CONSTANTS
    Scenarios,  \* those that are checked
    v1, v2, w1, w2, r1, r2, r3, c1, c2, fish, trap, sword, shield

VARIABLES
    scenario,   \* what this behaviour is about
    cast, stage, at, catch, rolls, mass, xp, level, item, prey, worn, stolen,
    gained, journal,
    clock, under, casts, stats, ledgerOn, pass, records, page, stops, switches

resolution == <<cast, stage, at, catch, rolls, mass, xp, level, item, prey,
    worn, stolen, gained, journal>>
counting == <<clock, under, casts, stats, ledgerOn, pass, records, page,
    stops, switches>>
allVars == <<scenario, vars, resolution, counting>>

-----------------------------------------------------------------------------
\* Two requests of the first viewer and one of the second.
OwnerOfThree == r1 :> v1 @@ r2 :> v2 @@ r3 :> v1
Masses == {-1, 0, 2}

\* Casts of the first viewer with their cooldowns; no robbery and no item.
CooldownBegins == users = [v \in Viewers |-> None] /\ ~ ruleset
CooldownGoes ==
    \A w \in Workers :
        job'[w].request # r2 /\ job'[w].gained \in {0, 2} /\ ~ job'[w].drop

\* Casts of both, who rob each other and catch the item, without cooldowns.
RobberyBegins == ruleset
RobberyGoes == now' = now /\ spent'.losses = 0 /\ \A w \in Workers : job'[w].wait = 0

\* Casts as the journal has them, gates in twelfths.  A rejected cast whose columns
\* are not empty is a compensated one.
Drops == sword :> 1 @@ shield :> 2
NoDrops == [i \in {} |-> 0]
Shape(ch, status, delta, reward, gate, eligible, won) ==
    [channel |-> ch, status |-> status, delta |-> delta, reward |-> reward, gate |-> gate,
     eligible |-> eligible, item |-> won]
Fished == Shape(c1, "resolved", 2, fish, 12, Drops, sword)
Lost == Shape(c1, "resolved", -1, trap, 6, Drops, None)
Other == Shape(c2, "resolved", 1, fish, 0, NoDrops, None)
Cooled == Shape(c1, "cooldown_rejected", 0, None, 0, NoDrops, None)
Undone == Shape(c1, "compensated", 3, fish, 12, Drops, sword)
EveryShape == {Fished, Lost, Other, Cooled, Undone}
TwoChannels == {Fished, Other}
TwoAges == {Fished, Cooled}

\* The pool of a location, the fisher's and the victim's effects, and where casts
\* begin.  A victim who has less than is protected of it is left out.
Nothing == [kind |-> "nothing", low |-> 0, high |-> 0, xp |-> 0, penalty |-> 0, timeout |-> FALSE]
R(kind, low, high, exp) == [Nothing EXCEPT !.kind = kind, !.low = low, !.high = high, !.xp = exp]
RewardPool ==
    {Nothing, R("fish", 1, 3, 2), R("fish", -3, -2, 1), R("fish", -1, 1, 0),
     R("timeout", 0, 0, 0), R("robbery", 0, 4, 3),
     [R("russian_roulette", 0, 2, 1) EXCEPT !.penalty = -3],
     [R("russian_roulette", 0, 2, 1) EXCEPT !.penalty = -3, !.timeout = TRUE]}
Reroll(targets, most) == [type |-> "reroll_reward", targets |-> targets, most |-> most]
Block(targets) == [type |-> "block_action", targets |-> targets, most |-> 1]
Counter(phase, delta) == [type |-> "counter", phase |-> phase, delta |-> delta]
Absorb(delta) == [type |-> "absorb_robbery", phase |-> "attempt", delta |-> delta]
Blocked == [type |-> "block_action", phase |-> "attempt", delta |-> 0]
FisherEffects ==
    {<<>>, <<Reroll({"fish_negative", "timeout"}, 2), Block({"robbery", "nothing"})>>}
VictimEffects == {<<>>, <<Counter("attempt", -2), Absorb(1), Blocked, Counter("success", -3)>>}
StartingPoints ==
    [mod : BOOLEAN, mass : {0, 2, 5}, xp : {0, 4}, level : {1}, bonus : {-100, 0, 50},
     luck : {50, 100, 200}, gains : {100, 150}, losses : {50, 100},
     floor : {0}, rouletteFloor : {0}, robberFloor : {0},
     prey : {0, 3, 6}, preyFloor : {0, 2}, effects : FisherEffects, defences : VictimEffects]
CastsToResolve ==
    {c \in StartingPoints : (c.prey = 0 \/ c.prey >= c.preyFloor)
                            /\ (c.luck = 100 \/ c.gains = c.losses) /\ (c.bonus = 0 \/ c.mass = 2)}
Levels == <<4, 6, 9>>

Resolution == INSTANCE CastResolution WITH
    Pool <- RewardPool, Casts <- CastsToResolve, ItemXp <- {0, 3},
    Need <- Levels
Statistics == INSTANCE CastLedger WITH
    ResolvedDays <- 0, RejectedDays <- 0, ExpiredDays <- 0, Records <- {},
    MaxStops <- 0, MaxSwitches <- 0, Ids <- {1, 2}, Shapes <- TwoChannels,
    Workers <- {w1, w2}, PerDay <- 1, Days <- 3, PageSize <- 3, now <- clock
Summaries == INSTANCE CastLedger WITH
    ResolvedDays <- 2, RejectedDays <- 1, ExpiredDays <- 0, Records <- {},
    MaxStops <- 0, MaxSwitches <- 0, Ids <- {1, 2, 3}, Shapes <- EveryShape,
    Workers <- {}, PerDay <- 1, Days <- 2, PageSize <- 3, now <- clock
Retention == INSTANCE CastLedger WITH
    ResolvedDays <- 2, RejectedDays <- 1, ExpiredDays <- 0, Records <- {},
    MaxStops <- 0, MaxSwitches <- 0, Ids <- {1, 2, 3}, Shapes <- TwoAges,
    Workers <- {}, PerDay <- 1, Days <- 4, PageSize <- 1, now <- clock
Pages == INSTANCE CastLedger WITH
    ResolvedDays <- 0, RejectedDays <- 1, ExpiredDays <- 0, Records <- {},
    MaxStops <- 0, MaxSwitches <- 0, Ids <- {1, 2, 3, 4}, Shapes <- TwoAges,
    Workers <- {}, PerDay <- 1, Days <- 3, PageSize <- 1, now <- clock

\* The constants of the instances are what the components take them to be.
ASSUME InstancesAssumption ==
    /\ FishingAssumption /\ Resolution!ResolutionAssumption
    /\ Statistics!CastLedgerAssumption /\ Summaries!CastLedgerAssumption
    /\ Retention!CastLedgerAssumption /\ Pages!CastLedgerAssumption

-----------------------------------------------------------------------------
CastingIdle == Init /\ CooldownBegins
ResolutionIdle ==
    /\ cast = None /\ stage = None /\ at = None /\ catch = None
    /\ rolls = None /\ mass = None /\ xp = None /\ level = None /\ item = None
    /\ prey = None /\ worn = None /\ stolen = None /\ gained = None
    /\ journal = None
CountingIdle ==
    /\ clock = None /\ under = None /\ casts = None /\ stats = None
    /\ ledgerOn = None /\ pass = None /\ records = None /\ page = None
    /\ stops = None /\ switches = None

CastsInit ==
    /\ scenario \in Scenarios
    /\ \/ /\ \/ scenario = "cooldown" /\ Init /\ CooldownBegins
             \/ scenario = "robbery" /\ Init /\ RobberyBegins
          /\ ResolutionIdle /\ CountingIdle
       \/ /\ scenario = "resolution" /\ Resolution!Init
          /\ CastingIdle /\ CountingIdle
       \/ /\ \/ scenario = "statistics" /\ Statistics!Init
             \/ scenario = "summary" /\ Summaries!Init
             \/ scenario = "retention" /\ Retention!Init
             \/ scenario = "pages" /\ Pages!Init
          /\ CastingIdle /\ ResolutionIdle

CastsNext ==
    \/ /\ \/ scenario = "cooldown" /\ Next /\ CooldownGoes
          \/ scenario = "robbery" /\ Next /\ RobberyGoes
       /\ UNCHANGED <<scenario, resolution, counting>>
    \/ /\ scenario = "resolution" /\ Resolution!Next
       /\ UNCHANGED <<scenario, vars, counting>>
    \/ /\ \/ scenario = "statistics" /\ Statistics!Next
          \/ scenario = "summary" /\ Summaries!Next
          \/ scenario = "retention" /\ Retention!Next
          \/ scenario = "pages" /\ Pages!Next
       /\ UNCHANGED <<scenario, vars, resolution>>

CastsSpec == CastsInit /\ [][CastsNext]_allVars

-----------------------------------------------------------------------------
\* A cast under way has its type (FishingCast), and what it comes to, whatever
\* effects draw again, refuse or defend: a moderator gets no timeout
\* (_without_timeout_rewards), the first terminal defence ends the robbery, which
\* moves mass and makes none, the level is that of the experience that stays
\* (_strip_undelivered_item_xp), and the journal tells the balance the cast
\* really found.
ResolutionHolds ==
    /\ TypeOK
    /\ scenario = "resolution" =>
         /\ Resolution!TypeOK /\ Resolution!ModeratorsKeepTalking
         /\ Resolution!FirstDefenceWins /\ Resolution!RobberyMovesMass
         /\ Resolution!LevelIsEarned /\ Resolution!JournalIsTrue

\* The journal is counted as it is summed: parallel rebuilds leave one row for a
\* bucket, a cast counts in one day, a day's buckets add up to its summary, a
\* listing that is paged through names each cast once though rows come and go,
\* and a cast is deleted by the cutoff of its own kind only.
JournalHolds ==
    /\ [](/\ scenario = "statistics" =>
               /\ Statistics!TypeOK /\ Statistics!OneRowPerBucket
               /\ Statistics!CountedOnce
          /\ scenario = "summary" => Summaries!SummaryAgrees
          /\ scenario = "pages" => Pages!PagesAreStable)
    /\ [][scenario = "retention" => Retention!OnlyAgedOutStep]_allVars
=============================================================================
