---------------------------- MODULE CastResolution ----------------------------
(***************************************************************************)
(* What one cast is worth: FishingEngine.calculate_result and the part of  *)
(* process_cast that applies it, inside the transaction FishingCast models.*)
(* A reward is drawn and drawn again by effects, experience and an item    *)
(* are added, the mass is changed within floors, a robbery goes through    *)
(* the victim's defences, and the journal records what came of it.  Every  *)
(* random number is a choice; masses are whole numbers of the quantum, and *)
(* percentages whole numbers.                                              *)
(***************************************************************************)
EXTENDS Integers, Sequences, SequencesExt, FiniteSetsExt

CONSTANTS
    Pool,           \* rewards of the location
    Casts,          \* what a cast may start from, see Cast
    ItemXp,         \* experience an item may bring
    Need,           \* Need[l]: experience at which level l is left
    None

ResolutionAssumption == Pool # {} /\ Casts # {} /\ ItemXp \subseteq Nat /\ Need \in Seq(Nat)

\* kind, the range of mass it gives (what a roulette gives when it misses),
\* what a roulette takes when it hits, whether one of its outcomes is a
\* timeout, and its experience.
Nothing == [kind |-> "nothing", low |-> 0, high |-> 0, penalty |-> 0, timeout |-> FALSE, xp |-> 0]

VARIABLES
    cast,       \* what it starts from
    stage,      \* the step that is next
    at,         \* the effect or defence that is next
    catch,      \* the reward as it stands
    rolls,      \* _trigger_count: draws each effect has made
    mass, xp, level,    \* the fisher's row
    item,       \* experience the selected item has brought, or None
    prey,       \* the victim's mass
    worn,       \* defences that ran, in order
    stolen,     \* amount_stolen
    gained,     \* mass_gained
    journal     \* the recorded cast: mass before and after, or None

vars == <<cast, stage, at, catch, rolls, mass, xp, level, item, prey, worn, stolen, gained,
          journal>>

Init ==
    /\ cast \in Casts
    /\ stage = "draw" /\ at = 1 /\ catch = Nothing
    /\ rolls = [e \in DOMAIN cast.effects |-> 0]
    /\ mass = cast.mass /\ xp = cast.xp /\ level = cast.level
    /\ item = None /\ prey = cast.prey
    /\ worn = <<>> /\ stolen = None /\ gained = 0 /\ journal = None

Outcomes == {"nothing", "fish_positive", "fish_negative", "fish_zero", "robbery", "timeout",
             "russian_roulette"}

TypeOK ==
    /\ mass \in Nat /\ prey \in Nat /\ xp \in Nat /\ level \in Nat \ {0}
    /\ catch \in Pool \union {Nothing}
    /\ \A e \in DOMAIN rolls : rolls[e] \in 0 .. cast.effects[e].most
    /\ worn \in Seq(1 .. Len(cast.defences))

-----------------------------------------------------------------------------
(* Plausible bugs.                                                             *)

\* Mutated, the new mass is not clamped at the floor.
Unclamped(balance, delta, floor) == balance + delta

\* Timeouts, only the plain timeout reward is one.
PlainTimeouts == {r \in Pool : r.kind = "timeout"}

\* Landed, the journal goes by what the catch weighed, also for a robbery.
LandedOnTheCatch == gained

\* Stripped, the level is left as it was raised.
StripsXpOnly ==
    /\ xp' = xp - item
    /\ UNCHANGED level

\* Stops, a defence that took the robbery lets the next ones run as well.
NeverStops(d) == FALSE

\* Credit, the robber's last save writes the mass read before the robbery.
CreditUndone(lost) == 0

-----------------------------------------------------------------------------
(* Rewards                                                                     *)

\* _without_timeout_rewards.
Timeouts == {r \in Pool : r.kind = "timeout" \/ (r.kind = "russian_roulette" /\ r.timeout)}

Rewards ==
    IF ~ cast.mod THEN Pool
    ELSE IF Pool \ Timeouts = {} THEN {Nothing} ELSE Pool \ Timeouts

\* classify_outcome: a range on both sides of zero counts as positive.
Class(r) ==
    IF r.kind # "fish" THEN r.kind
    ELSE IF r.low = 0 /\ r.high = 0 THEN "fish_zero"
    ELSE IF r.low < 0 /\ r.high < 0 THEN "fish_negative" ELSE "fish_positive"

Unmoved == UNCHANGED <<cast, mass, xp, level, item, prey, worn, stolen, gained, journal>>

Draw ==
    /\ stage = "draw"
    /\ \E r \in Rewards : catch' = r
    /\ stage' = "empty"
    /\ UNCHANGED <<at, rolls>> /\ Unmoved

\* An empty catch may be drawn once more (empty_catch_reroll_chance_pct).
DrawEmptyAgain ==
    /\ stage = "empty"
    /\ \/ UNCHANGED catch
       \/ catch.kind = "nothing" /\ \E r \in Rewards : catch' = r
    /\ stage' = "effects"
    /\ UNCHANGED <<at, rolls>> /\ Unmoved

Effect == cast.effects[at]

\* Whether the effect that is next acts once more on the catch as it stands.
Acts == rolls[at] < Effect.most /\ Class(catch) \in Effect.targets

\* _reroll_reward_effects, one draw; a block may fail its chance.
Redraw ==
    /\ stage = "effects" /\ at <= Len(cast.effects) /\ Acts
    /\ \E r \in Rewards : catch' = r
    /\ rolls' = [rolls EXCEPT ![at] = @ + 1]
    /\ UNCHANGED <<stage, at>> /\ Unmoved

NextEffect ==
    /\ stage = "effects" /\ at <= Len(cast.effects)
    /\ Acts => Effect.type = "block_action"
    /\ at' = at + 1
    /\ UNCHANGED <<stage, catch, rolls>> /\ Unmoved

-----------------------------------------------------------------------------
(* Experience and the item                                                     *)

\* calculate_xp_gain.
XpGain(fromItem) ==
    LET gain == ((catch.xp + fromItem) * (100 + cast.bonus)) \div 100
    IN  IF gain < 0 THEN 0 ELSE gain

\* _calculate_level: levels only go up, from the one the fisher has.
LevelFrom(l, points) ==
    CHOOSE n \in l .. (Len(Need) + 1) :
        /\ \A m \in l .. (n - 1) : points >= Need[m]
        /\ n <= Len(Need) => points < Need[n]

\* The item gate is rolled; experience and level are raised for catch and item.
Gain ==
    /\ stage = "effects" /\ at > Len(cast.effects)
    /\ \E i \in ItemXp \union {None} :
        LET gain == XpGain(IF i = None THEN 0 ELSE i) IN
        /\ item' = IF i = None THEN None ELSE gain - XpGain(0)
        /\ xp' = xp + gain
        /\ level' = LevelFrom(level, xp + gain)
    /\ at' = 1
    /\ stage' = IF catch.kind = "robbery" THEN "attempt" ELSE "weigh"
    /\ UNCHANGED <<cast, catch, rolls, mass, prey, worn, stolen, gained, journal>>

\* _strip_undelivered_item_xp.
Stripped ==
    /\ xp' = xp - item
    /\ level' = LevelFrom(cast.level, xp - item)

\* The drop is reserved and delivered, or the stock or the inventory refuse it.
Deliver ==
    /\ stage = "deliver"
    /\ \/ UNCHANGED <<xp, level, item>>
       \/ item # None /\ Stripped /\ item' = None
    /\ stage' = "record"
    /\ UNCHANGED <<cast, at, catch, rolls, mass, prey, worn, stolen, gained, journal>>

-----------------------------------------------------------------------------
(* Mass                                                                        *)

Larger(a, b) == IF a > b THEN a ELSE b
Smaller(a, b) == IF a < b THEN a ELSE b

\* apply_mass_mutation.
Mutated(balance, delta, floor) == Larger(balance + delta, Larger(floor, 0))

\* ROUND_HALF_UP of a quotient that is not negative.
Rounded(n, d) == (2 * n + d) \div (2 * d)

\* apply_fish_reward_modifiers; luck multiplies a gain and divides a loss.
Modified(raw, luck, floor) ==
    IF raw >= 0 THEN Rounded(raw * luck * cast.gains, 10000)
    ELSE LET loss == - Rounded((- raw) * cast.losses, luck)
         IN  IF floor > 0 THEN Larger(loss, floor - mass) ELSE loss

\* What a cast weighs: a fish with the fisher's luck, a roulette without it and
\* within a floor of its own.
DeltasOfCatch ==
    CASE catch.kind = "fish" ->
            {Modified(raw, cast.luck, cast.floor) : raw \in catch.low .. catch.high}
      [] catch.kind = "russian_roulette" ->
            {Modified(raw, 100, cast.rouletteFloor) : raw \in {catch.high, catch.penalty}}
      [] OTHER -> {0}

Weigh ==
    /\ stage = "weigh"
    /\ \E delta \in DeltasOfCatch :
        mass' = IF delta = 0 THEN mass ELSE Mutated(mass, delta, cast.floor)
    /\ gained' = mass' - mass
    /\ stage' = "deliver"
    /\ UNCHANGED <<cast, at, catch, rolls, xp, level, item, prey, worn, stolen, journal>>

-----------------------------------------------------------------------------
(* Robbery                                                                     *)

Defence == cast.defences[at]

\* Which defences a phase runs: only counters after a success.
Applies(d) ==
    d.phase = stage /\ (stage = "success" => d.type = "counter")

\* A terminal defence takes the robbery (FIRST_TERMINAL_DEFENSE_WINS).
Stops(d) == d.type \in {"absorb_robbery", "block_action"}

\* _apply_robbery_defenses, one effect of the victim's items: it may fail its
\* chance, and otherwise changes the robber's mass within the robber's floor.
Defend ==
    /\ stage \in {"attempt", "success"} /\ cast.prey > 0 /\ at <= Len(cast.defences)
    /\ \/ /\ Applies(Defence)
          /\ mass' = Mutated(mass, Defence.delta, cast.robberFloor)
          /\ worn' = Append(worn, at)
          /\ IF Stops(Defence)
             THEN stage' = "deliver" /\ stolen' = 0 /\ UNCHANGED at
             ELSE at' = at + 1 /\ UNCHANGED <<stage, stolen>>
       \/ /\ at' = at + 1
          /\ UNCHANGED <<mass, worn, stage, stolen>>
    /\ UNCHANGED <<cast, catch, rolls, xp, level, item, prey, gained, journal>>

\* calculate_typed_robbery: what may be taken of what the catch asks for.
Asked == Smaller(Larger(catch.high, 0), Larger(prey - cast.preyFloor, 0))

\* The robbery is rolled; without a victim there is none.
Rob ==
    /\ stage = "attempt" /\ (at > Len(cast.defences) \/ cast.prey = 0)
    /\ \/ stolen' = 0 /\ stage' = "deliver" /\ at' = at
       \/ cast.prey > 0 /\ stolen' = Asked /\ stage' = "success" /\ at' = 1
    /\ UNCHANGED <<cast, catch, rolls, mass, xp, level, item, prey, worn, gained, journal>>

\* The robber's credit is copied to the row that is saved last.
Credit(lost) == lost

\* What was asked for leaves the victim, within its floor, and what left it
\* goes to the robber.
Take ==
    /\ stage = "success" /\ at > Len(cast.defences)
    /\ prey' = Mutated(prey, - stolen, cast.preyFloor)
    /\ LET lost == prey - prey' IN
       /\ mass' = Mutated(mass, Credit(lost), 0)
       /\ stolen' = lost
    /\ stage' = "deliver"
    /\ UNCHANGED <<cast, at, catch, rolls, xp, level, item, worn, gained, journal>>

-----------------------------------------------------------------------------

\* What landed on the fisher: after a robbery, with its counters, the change of
\* the whole cast.
Landed == IF stolen = None THEN gained ELSE mass - cast.mass

\* record_resolved works out the balance before from what landed.
Record ==
    /\ stage = "record"
    /\ gained' = Landed
    /\ journal' = [before |-> mass - Landed, after |-> mass]
    /\ stage' = "done"
    /\ UNCHANGED <<cast, at, catch, rolls, mass, xp, level, item, prey, worn, stolen>>

Next ==
    \/ Draw \/ DrawEmptyAgain \/ Redraw \/ NextEffect
    \/ Gain \/ Weigh \/ Defend \/ Rob \/ Take \/ Deliver \/ Record

Spec == Init /\ [][Next]_vars

-----------------------------------------------------------------------------

\* The journal tells the balance the cast really found, whatever it went through
\* (record_resolved; mass_gained is net of robbery and counters).
JournalIsTrue == stage = "done" => journal = [before |-> cast.mass, after |-> mass]

\* A moderator is never given a timeout, however often effects draw again, nor
\* by a roulette (_without_timeout_rewards).
ModeratorsKeepTalking ==
    cast.mod => catch.kind # "timeout" /\ (catch.kind = "russian_roulette" => ~ catch.timeout)

\* What stays is the experience of the catch and of a delivered item, and the
\* level it makes, also when a refused item had raised it
\* (_strip_undelivered_item_xp).
LevelIsEarned ==
    stage \in {"record", "done"} =>
        /\ xp = cast.xp + XpGain(0) + (IF item = None THEN 0 ELSE item)
        /\ level = LevelFrom(cast.level, xp)

\* The first terminal defence that passes ends the robbery: none runs after it
\* and nothing is taken (_apply_robbery_defenses).
FirstDefenceWins ==
    \A i \in 1 .. Len(worn) :
        cast.defences[worn[i]].type \in {"absorb_robbery", "block_action"} =>
            i = Len(worn) /\ prey = cast.prey /\ stolen \in {None, 0}

\* A robbery moves mass and makes none: what the robber has more, counters
\* aside, the victim has less.
RobberyMovesMass ==
    stage = "done" /\ stolen # None /\ worn = <<>> => mass + prey = cast.mass + cast.prey

\* Protected mass is "Mass that cannot be removed", not mass that is given: a
\* loss never leaves a fisher with more than before.
LossNeverPays ==
    stage = "done" /\ Class(catch) = "fish_negative" => mass <= cast.mass

\* Nor does a robbery leave its victim with more.
RobberyNeverPaysVictim == prey <= cast.prey
=============================================================================
