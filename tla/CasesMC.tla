------------------------------- MODULE CasesMC --------------------------------
(***************************************************************************)
(* Instances of the parts that compute: the pricing of conversions, how    *)
(* modifiers combine, where a grant is placed, and what the forms of       *)
(* items, effects and rewards store.  A behaviour is of one of them: the   *)
(* others stay as they are.                                                *)
(***************************************************************************)
EXTENDS PricingCases, Sequences

CONSTANTS
    Scenarios,  \* those that are checked
    None, Bad, Plain, tagged, worm, boot

VARIABLES
    scenario,   \* what this behaviour is about
    entries, raw,
    rows, definition, units, asked, room,
    source, template, draft, stored, step, number, shown, touched,
    effect, effectForm, overlay, sends,
    reward, came, read, page, typed, saves, told

pricing == <<balance, buyRate, sellRate, mass>>
modifying == <<entries, raw>>
placing == <<rows, definition, units, asked, room>>
drafting == <<source, template, draft, stored, step, number, shown, touched>>
effects == <<effect, effectForm, overlay, sends>>
rewards == <<reward, came, read, page, typed, saves, told>>
allVars == <<scenario, pricing, modifying, placing, drafting, effects,
    rewards>>

-----------------------------------------------------------------------------
\* Contributions of items, of an administrator and of an event to a bonus, in
\* percent; what an event stored, within its bounds and out of them.
Bonus(from, name, op, value) ==
    [source |-> from, name |-> name, op |-> op, value |-> value]
Bonuses ==
    {Bonus("item", n, op, v) : n \in {1, 2}, op \in {"add", "multiply"}, v \in {30, 150}}
    \union {Bonus("player_modifier", n, op, v) :
              n \in {1, 2}, v \in {-50, 20, 60},
                op \in {"add", "multiply", "override", "min", "max"}}
    \union {Bonus("event", 2, "override", 40)}
StoredBonuses == {-200, -50, 0, 7, 200, 500}
LowestBonus == -50

\* Definitions of what is granted: of one unit a row and of several.
Metas == {Plain, tagged}
Def(kind, size) ==
    [stack |-> size, kind |-> kind, wear |-> None, charges |-> None,
     policy |-> "indestructible", active |-> TRUE]
ItemShapes == {Def("consumable", 1), Def("consumable", 2), Def("material", 3), Def("equipment", 1)}

\* Effects of every compatibility class, and drafts of files that mix the fields
\* of all types of items.
Offer(type, on, works) == [type |-> type, on |-> on, works |-> works]
ItemEffects ==
    {Offer("stat_add", s, w) : s \in {"luck", "xp"}, w \in BOOLEAN}
    \union {Offer("stat_multiply", "luck", TRUE), Offer("consume_durability", "rod", TRUE),
            Offer("grant_item", "self", TRUE), Offer("grant_item", "hat", TRUE),
            Offer("grant_mass", "self", TRUE), Offer("consume_charge", "self", TRUE)}
DraftsOfFiles ==
    [type : {"equipment", "consumable", "lootbox", "quest"}, slot : {"rod", "charm_2", None},
     stack : {1, 20}, durability : {None, 20}, charges : {None, 20},
     policy : {"indestructible", "retain_broken"}, value : {None, 20},
     effects : {<<e, f>> : e, f \in ItemEffects} \union {<<e>> : e \in ItemEffects} \union {<<>>}]

\* What is typed into an effect's form, in thousandths.
One == 1000
EffectNumbers == {0, One, (3 * One) \div 2, 2 * One, 500, -500, 20 * One, None}
EffectKinds ==
    {"stat_add", "stat_multiply", "reroll_reward", "block_action", "robbery_counter",
     "absorb_robbery", "mass_floor", "grant_item", "grant_mass", "apply_timeout",
     "loot_table_roll", "consume_durability", "consume_charge"}
ButMultiply == EffectKinds \ {"stat_multiply"}

\* What is typed into a reward's forms: the bounds of the fields, and past them.
Mega == 1000000 * One
Percents == {0, One, -One, 2 * One, 100 * One + One}
RewardNumbers ==
    Percents \union {7 * One, 100 * One, Mega + One}
RewardTypes == {"fish", "timeout", "robbery", "russian_roulette", "dupe", "nothing"}
NewReward(type, values, weight, xp) ==
    [type |-> type, values |-> values, details |-> [weight |-> weight, xp |-> xp],
     reward |-> None, penalty |-> None]
NoValues == [f \in {} |-> None]
Fish(low, high, percentage) ==
    [fixed_mass |-> None, min_mass |-> low, max_mass |-> high, percentage |-> percentage]
PlainReward == {NewReward("nothing", NoValues, One, 0)}

\* Rewards as the API stores them.
OfApi(type, values) == NewReward(type, values, 10 * One, 5 * One)
Roulette(r, p) ==
    [OfApi("russian_roulette", [bullets |-> 2 * One, chambers |-> 7 * One])
        EXCEPT !.reward = r, !.penalty = p]
Loss == [type |-> "add_mass", values |-> [mass |-> -500]]
Share == [type |-> "add_percentage_mass", values |-> [percentage |-> 150]]
Ban == [type |-> "timeout", values |-> [duration |-> 60 * One]]
RewardsOfApi ==
    {OfApi("fish", [Fish(None, None, None) EXCEPT !.fixed_mass = -Mega]),
     OfApi("fish", Fish(None, None, -150)),
     OfApi("fish", Fish(-One, 2 * One, None)),
     OfApi("timeout", [duration |-> 1209600 * One]),
     OfApi("robbery", [mass |-> None, percentage |-> One, range |-> 7 * One]),
     OfApi("robbery", [mass |-> 0, percentage |-> None, range |-> One]),
     Roulette(Share, Loss), Roulette(None, Ban), Roulette(Ban, None),
     OfApi("dupe", [amount |-> 20 * One, delay |-> 60 * One]),
     OfApi("nothing", NoValues)}

\* Entries of the old bot: points in thousandths are whole kilograms' worth.
Entry(group) ==
    [group |-> group, weight |-> 5 * One, value |-> None, percentage |-> None, range |-> 3 * One,
     amount |-> 3 * One, delay |-> 2 * One, bullets |-> One, chambers |-> 6 * One,
     penalty_type |-> "nothing"]
OldEntries ==
    LET values == {-250 * One, 200 * One} IN
    {Entry("misc"), Entry("nothing"), Entry("dupe"), Entry("robbery"),
     [Entry("dupe") EXCEPT !.amount = 21 * One],
     [Entry("russian_roulette") EXCEPT !.bullets = 7 * One]}
    \union {[Entry("points") EXCEPT !.value = v] : v \in values}
    \union {[Entry("percentage_points") EXCEPT !.percentage = v] : v \in {-300, 2 * One}}
    \union {[Entry("robbery") EXCEPT !.value = v, !.percentage = p] : v \in values, p \in {None, 250}}
    \union {[Entry("russian_roulette") EXCEPT !.value = v, !.percentage = p, !.penalty_type = t] :
                v \in values, p \in {-200, 200}, t \in {"nothing", "points", "percentage"}}

Modifiers == INSTANCE ModifierCases WITH
    Lowest <- LowestBonus, Highest <- 200, Offers <- Bonuses,
    Stored <- StoredBonuses, Low <- LowestBonus, High <- 200, MaxEntries <- 3
Placement == INSTANCE PlacementCases WITH
    Absent <- None, Item <- worm, Other <- boot, Shapes <- ItemShapes,
    Slots <- {1, 2, 3}, Limits <- {2, 3}, Most <- 4, inv <- rows, n <- units,
    slot <- asked, max <- room, def <- definition
Draft == INSTANCE ItemDraft WITH
    Sizes <- {1, 20}, Offers <- ItemEffects, Self <- "self",
    Imports <- DraftsOfFiles, MaxEffects <- 2, form <- number
Schema == INSTANCE EffectForms WITH
    Kinds <- EffectKinds, Actions <- {"timeout", "add_mass"},
    Entered <- EffectNumbers, Imported <- {}, MaxSends <- 3,
    form <- effectForm
Edits == INSTANCE EffectForms WITH
    Kinds <- ButMultiply, Actions <- {"timeout"}, Entered <- EffectNumbers,
    Imported <- {}, MaxSends <- 3, form <- effectForm
Rewards == INSTANCE RewardForms WITH
    Types <- RewardTypes, Entered <- RewardNumbers, Stored <- RewardsOfApi,
    Old <- {}, MaxTyped <- 1, MaxSaves <- 2, draft <- read
Modes == INSTANCE RewardForms WITH
    Types <- RewardTypes, Entered <- Percents, Stored <- PlainReward,
    Old <- {}, MaxTyped <- 2, MaxSaves <- 1, draft <- read
Import == INSTANCE RewardForms WITH
    Types <- RewardTypes, Entered <- Percents, Stored <- PlainReward,
    Old <- OldEntries, MaxTyped <- 0, MaxSaves <- 2, draft <- read

\* The constants of the instances are what the components take them to be.
ASSUME InstancesAssumption ==
    /\ Modifiers!BoundsAssumption /\ Placement!CasesAssumption
    /\ Schema!EffectFormsAssumption /\ Edits!EffectFormsAssumption
    /\ Rewards!RewardFormsAssumption /\ Modes!RewardFormsAssumption
    /\ Import!RewardFormsAssumption

-----------------------------------------------------------------------------
PricingIdle ==
    /\ balance = 0 /\ buyRate = 1 /\ sellRate = 1 /\ mass = 0
ModifyingIdle ==
    /\ entries = None /\ raw = None
PlacingIdle ==
    /\ rows = None /\ definition = None /\ units = None /\ asked = None
    /\ room = None
DraftingIdle ==
    /\ source = None /\ template = None /\ draft = None /\ stored = None
    /\ step = None /\ number = None /\ shown = None /\ touched = None
EffectsIdle ==
    /\ effect = None /\ effectForm = None /\ overlay = None /\ sends = None
RewardsIdle ==
    /\ reward = None /\ came = None /\ read = None /\ page = None
    /\ typed = None /\ saves = None /\ told = None

CasesInit ==
    /\ scenario \in Scenarios
    /\ \/ /\ scenario = "pricing" /\ Init
          /\ ModifyingIdle /\ PlacingIdle /\ DraftingIdle /\ EffectsIdle
             /\ RewardsIdle
       \/ /\ scenario = "modifiers" /\ Modifiers!Init
          /\ PricingIdle /\ PlacingIdle /\ DraftingIdle /\ EffectsIdle
             /\ RewardsIdle
       \/ /\ scenario = "placement" /\ Placement!Init
          /\ PricingIdle /\ ModifyingIdle /\ DraftingIdle /\ EffectsIdle
             /\ RewardsIdle
       \/ /\ scenario = "item draft" /\ Draft!Init
          /\ PricingIdle /\ ModifyingIdle /\ PlacingIdle /\ EffectsIdle
             /\ RewardsIdle
       \/ /\ \/ scenario = "effect schema" /\ Schema!Init
             \/ scenario = "effect edits" /\ Edits!Init
          /\ PricingIdle /\ ModifyingIdle /\ PlacingIdle /\ DraftingIdle
             /\ RewardsIdle
       \/ /\ \/ scenario = "reward edits" /\ Rewards!Init
             \/ scenario = "reward modes" /\ Modes!Init
             \/ scenario = "old rewards" /\ Import!Init
          /\ PricingIdle /\ ModifyingIdle /\ PlacingIdle /\ DraftingIdle
             /\ EffectsIdle

CasesNext ==
    \/ /\ scenario = "pricing" /\ Next
       /\ UNCHANGED <<scenario, modifying, placing, drafting, effects,
                      rewards>>
    \/ /\ scenario = "modifiers" /\ Modifiers!Next
       /\ UNCHANGED <<scenario, pricing, placing, drafting, effects, rewards>>
    \/ /\ scenario = "placement" /\ Placement!Next
       /\ UNCHANGED <<scenario, pricing, modifying, drafting, effects,
                      rewards>>
    \/ /\ scenario = "item draft" /\ Draft!Next
       /\ UNCHANGED <<scenario, pricing, modifying, placing, effects,
                      rewards>>
    \/ /\ \/ scenario = "effect schema" /\ Schema!Next
          \/ scenario = "effect edits" /\ Edits!Next
       /\ UNCHANGED <<scenario, pricing, modifying, placing, drafting,
                      rewards>>
    \/ /\ \/ scenario = "reward edits" /\ Rewards!Next
          \/ scenario = "reward modes" /\ Modes!Next
          \/ scenario = "old rewards" /\ Import!Next
       /\ UNCHANGED <<scenario, pricing, modifying, placing, drafting,
                      effects>>

CasesSpec == CasesInit /\ [][CasesNext]_allVars

-----------------------------------------------------------------------------
\* A stat does not depend on the order in which rows are read, a minimum or
\* maximum holds also against an override (PlayerModifierResolver), and whatever
\* an event has stored, what a cast reads of it fits the schema
\* (parse_event_modifiers_lenient).
ModifiersHold ==
    scenario = "modifiers" =>
      /\ Modifiers!OrderNeverMatters /\ Modifiers!LimitsHold
      /\ Modifiers!EventsNeverFailCasts

\* A grant is refused exactly when its units do not fit; otherwise they arrive,
\* whole and once, and a row is opened only when every row that may be topped up
\* is full (_place_grant, grant_many and its savepoint).
PlacementHolds ==
    scenario = "placement" =>
      /\ Placement!RefusedIffItDoesNotFit /\ Placement!GrantArrivesWhole
      /\ Placement!TopsUpBeforeOpening

\* The forms and the engine agree: what a form of an item, an effect or a reward
\* lets through the engine stores, what is stored can be shown and entered, an
\* edit in which nothing was typed changes nothing, and a reward of the old bot
\* is worth the same here.
FormsHold ==
    /\ [](/\ scenario = "item draft" =>
               /\ Draft!TypeOK /\ Draft!ConfirmedIsStored
               /\ Draft!EditKeepsTheRest
          /\ scenario = "effect schema" =>
               /\ Schema!TypeOK /\ Schema!StoredIsAccepted
               /\ Schema!AcceptedCanBeEntered
          /\ scenario = "reward edits" => Rewards!FormsFitSchema
          /\ scenario = "reward modes" => Modes!FormsFitSchema
          /\ scenario = "old rewards" => Import!OldIsWorthTheSame)
    /\ [][/\ scenario = "effect edits" => Edits!EditsKeepStep
          /\ scenario = "reward edits" =>
               /\ Rewards!StoredFitsFormsStep /\ Rewards!UntouchedIsKeptStep
          /\ scenario = "old rewards" => Import!StoredFitsFormsStep]_allVars
=============================================================================
