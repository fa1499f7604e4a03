------------------------------ MODULE EffectForms ------------------------------
(***************************************************************************)
(* The forms an item's effects are entered with: what a form shows of an   *)
(* effect, what it reads back, what it refuses, and what the engine's      *)
(* schema accepts.  A number is in thousandths; a form speaks of percent   *)
(* where the engine stores ratios.  Choices from lists and texts are       *)
(* carried over as they are and are left out.                              *)
(***************************************************************************)
EXTENDS Integers, FiniteSets

CONSTANTS
    Kinds,          \* types of effects that are entered
    Actions,        \* counter actions: "timeout" and "add_mass"
    Entered,        \* numbers typed, besides those around a field's bounds
    Imported,       \* effects that were written by other means than the forms
    MaxSends,       \* bound on forms sent
    None

EffectFormsAssumption ==
    Actions \subseteq {"timeout", "add_mass"} /\ MaxSends \in Nat

VARIABLES
    effect,     \* the effect, or None
    form,       \* the open form: [type, on, action, from, texts, typed], or None
    overlay,    \* whether the engine has answered with its bounds
    sends       \* forms sent

vars == <<effect, form, overlay, sends>>

One == 1000

\* Stands for 10^12 kg, beyond TLC's integers, in both tables.
Huge == 2000000 * One

-----------------------------------------------------------------------------
(* The two tables of stats                                                     *)

\* UI_STAT_DEFINITIONS, in the units they are written in.
UIStat(unit, lo, hi) == [unit |-> unit, lo |-> lo, hi |-> hi, whole |-> unit = "slots"]
UIStats ==
    [fish_luck_change_ratio |-> UIStat("percent", -500, 1000),
     positive_fish_reward_change_ratio |-> UIStat("percent", -500, 2000),
     negative_fish_reward_change_ratio |-> UIStat("percent", -1000, 1000),
     xp_gain_change_ratio |-> UIStat("percent", -1000, 4000),
     cooldown_change_ratio |-> UIStat("percent", -800, 1000),
     empty_catch_reroll_chance_pct |-> UIStat("percent", 0, 1000),
     item_drop_chance_add |-> UIStat("points", -100 * One, 100 * One),
     item_rarity_luck_pct |-> UIStat("percent", -950, 10 * One),
     robbery_protection_pct |-> UIStat("percent", 0, 1000),
     robbery_evasion_pct |-> UIStat("percent", 0, 1000),
     protected_mass_flat |-> UIStat("kg", 0, Huge),
     robbery_attack_chance_add |-> UIStat("percent", -1000, 1000),
     robbery_amount_bonus_pct |-> UIStat("percent", -950, 10 * One),
     inventory_slots_add |-> UIStat("slots", -100 * One, 1000 * One)]

\* STAT_REGISTRY.
Stat(conversion, lo, hi, whole) == [conversion |-> conversion, lo |-> lo, hi |-> hi, whole |-> whole]
Stats ==
    [fish_luck_change_ratio |-> Stat("percent_to_ratio", -500, 1000, FALSE),
     positive_fish_reward_change_ratio |-> Stat("percent_to_ratio", -500, 2000, FALSE),
     negative_fish_reward_change_ratio |-> Stat("percent_to_ratio", -1000, 1000, FALSE),
     xp_gain_change_ratio |-> Stat("percent_to_ratio", -1000, 4000, FALSE),
     cooldown_change_ratio |-> Stat("percent_to_ratio", -800, 1000, FALSE),
     empty_catch_reroll_chance_pct |-> Stat("percent_to_ratio", 0, 1000, FALSE),
     item_drop_chance_add |-> Stat("percent_to_ratio", -1000, 1000, FALSE),
     item_rarity_luck_pct |-> Stat("percent_to_ratio", -950, 10 * One, FALSE),
     robbery_protection_pct |-> Stat("percent_to_ratio", 0, 1000, FALSE),
     robbery_evasion_pct |-> Stat("percent_to_ratio", 0, 1000, FALSE),
     protected_mass_flat |-> Stat("identity", 0, Huge, FALSE),
     robbery_attack_chance_add |-> Stat("percent_to_ratio", -1000, 1000, FALSE),
     robbery_amount_bonus_pct |-> Stat("percent_to_ratio", -950, 10 * One, FALSE),
     inventory_slots_add |-> Stat("identity", -100 * One, 1000 * One, TRUE)]

\* percent_helpers.
ToRatio(v) == v \div 100
ToPercent(v) == v * 100

\* A plausible bug of Shown: ratios are shown as they are stored.
ShownAsStored(unit, v) == v

\* humanize_value and what a form reads back.
Shown(unit, v) == IF unit \in {"percent", "points"} THEN ToPercent(v) ELSE v
Stored(unit, h) == IF unit \in {"percent", "points"} THEN ToRatio(h) ELSE h

\* A plausible bug of StatField: the engine's bounds are taken for percent.
RatiosForBounds(s) ==
    LET display(v) == IF UIStats[s].unit = "percent" THEN ToPercent(v) ELSE v
    IN IF overlay
       THEN [unit |-> UIStats[s].unit, lo |-> Stats[s].lo, hi |-> Stats[s].hi,
             whole |-> Stats[s].whole, default |-> None]
       ELSE [unit |-> UIStats[s].unit, lo |-> display(UIStats[s].lo), hi |-> display(UIStats[s].hi),
             whole |-> UIStats[s].whole, default |-> None]

\* Display bounds, and get_stat_metadata's where the engine has answered.
StatField(s) ==
    LET factor(v) == IF Stats[s].conversion = "percent_to_ratio" THEN ToPercent(v) ELSE v
        display(v) == IF UIStats[s].unit = "percent" THEN ToPercent(v) ELSE v
    IN IF overlay
       THEN [unit |-> UIStats[s].unit, lo |-> factor(Stats[s].lo), hi |-> factor(Stats[s].hi),
             whole |-> Stats[s].whole, default |-> None]
       ELSE [unit |-> UIStats[s].unit, lo |-> display(UIStats[s].lo), hi |-> display(UIStats[s].hi),
             whole |-> UIStats[s].whole, default |-> None]

-----------------------------------------------------------------------------
(* The fields of the other forms                                               *)

\* TRIGGERED_EFFECT_FORMS, the numbers.
Number(unit, lo, hi, default) ==
    [unit |-> unit, lo |-> lo * One, hi |-> hi * One, whole |-> unit = "whole",
     default |-> IF default = -1 THEN None ELSE default * One]

Chance == Number("percent", 0, 100, 100)
Mass(default) == Number("kg", -1000000, 1000000, default)
Cost(default) == Number("whole", 0, 1000, default)
Seconds(default) == Number("whole", 1, 1209600, default)

Forms ==
    [reroll_reward |-> [max_rerolls |-> Number("whole", 1, 3, 1), durability_cost |-> Cost(0)],
     block_action |-> [chance |-> Chance, durability_cost |-> Cost(0)],
     robbery_counter |->
        [chance |-> Chance, duration_seconds |-> Seconds(60), attacker_mass_delta |-> Mass(0),
         durability_cost |-> Cost(1)],
     absorb_robbery |-> [chance |-> Chance, attacker_mass_delta |-> Mass(0), durability_cost |-> Cost(1)],
     mass_floor |-> [protected_mass |-> Number("kg", 0, 2000000, -1)],
     grant_item |-> [quantity |-> Number("whole", 1, 1000000, 1)],
     grant_mass |-> [mass |-> Mass(-1)],
     apply_timeout |-> [duration_seconds |-> Seconds(-1)],
     loot_table_roll |-> [rolls |-> Number("whole", 1, 20, 1)],
     consume_durability |-> [amount |-> Number("whole", 1, 1000, 1)],
     consume_charge |-> [amount |-> Number("whole", 1, 1000, 1)]]

\* A plausible bug of Asked: a counter asks for the numbers of both actions.
AskedForBoth(type, action) ==
    IF type \in {"stat_add", "stat_multiply"} THEN {"value"} ELSE DOMAIN Forms[type]

\* _modal_fields: a counter asks for the number of its action, and for no other.
Asked(type, action) ==
    CASE type \in {"stat_add", "stat_multiply"} -> {"value"}
      [] type = "robbery_counter" ->
            {IF action = "timeout" THEN "duration_seconds" ELSE "attacker_mass_delta"}
      [] OTHER -> DOMAIN Forms[type]

FieldOf(type, on, k) ==
    CASE type = "stat_add" -> StatField(on)
      [] type = "stat_multiply" -> Number("factor", 0, 100, -1)
      [] OTHER -> Forms[type][k]

Get(f, k) == IF k \in DOMAIN f THEN f[k] ELSE None

\* The text a field is opened with: StatValueModal, StatMultiplyModal and
\* _modal_default; None is an empty text.
Prefill(type, on, k, e) ==
    CASE type = "stat_add" ->
            IF e = None THEN None ELSE Shown(StatField(on).unit, e.n["value"])
      [] type = "stat_multiply" ->
            IF e = None THEN (3 * One) \div 2 ELSE Shown(StatField(on).unit, e.n["value"])
      [] OTHER ->
            LET kept == CASE e = None -> None
                          [] e # None /\ k \in {"duration_seconds", "attacker_mass_delta"}
                               /\ type = "robbery_counter" -> Get(e.action, k)
                          [] OTHER -> Get(e.n, k)
                v == IF kept = None THEN Forms[type][k].default ELSE kept
            IN IF v = None THEN None ELSE Shown(Forms[type][k].unit, v)

\* A plausible bug of Whole: fractions are not refused.
AnyNumber(v) == TRUE
Whole(v) == v % One = 0

\* A plausible bug of Refused: numbers are left to the engine.
NothingRefused(type, on, k, h) == h = None

\* human_value_to_backend, StatMultiplyModal.on_submit and _modal_number_value.
Refused(type, on, k, h) ==
    LET f == FieldOf(type, on, k) IN
    \/ h = None
    \/ h < f.lo \/ h > f.hi
    \/ f.whole /\ ~ Whole(h)
    \/ type = "stat_add" /\ h = 0
    \/ type = "stat_multiply" /\ h = One

\* An empty text stands for the default, as it is written.
Read(type, on, k, h) ==
    IF h = None /\ type \notin {"stat_add", "stat_multiply"} THEN Forms[type][k].default ELSE h

\* build_triggered_payload: a counter's numbers go to its action.
Built(f) ==
    LET value(k) == Stored(FieldOf(f.type, f.on, k).unit, Read(f.type, f.on, k, f.texts[k]))
        flat == IF f.type = "robbery_counter" THEN {} ELSE DOMAIN f.texts
    IN [type |-> f.type, on |-> f.on, n |-> [k \in flat |-> value(k)],
        action |->
            CASE f.type = "robbery_counter" /\ f.action = "timeout" ->
                    [duration_seconds |-> value("duration_seconds")]
              [] f.type = "robbery_counter" /\ f.action = "add_mass" ->
                    [mass |-> value("attacker_mass_delta")]
              [] OTHER -> <<>>]

\* The engine's models of the effects.
Within(v, lo, hi) == lo * One <= v /\ v <= hi * One
EngineTakes(type, on, k, v) ==
    CASE type = "stat_add" ->
            v # 0 /\ Stats[on].lo <= v /\ v <= Stats[on].hi /\ (Stats[on].whole => v % One = 0)
      [] type = "stat_multiply" -> v # One /\ Within(v, 0, 100)
      [] k = "chance" -> Within(v, 0, 1)
      [] k \in {"mass", "attacker_mass_delta"} -> Within(v, -1000000, 1000000)
      [] k = "protected_mass" -> 0 <= v /\ v <= Huge
      [] k = "duration_seconds" -> v % One = 0 /\ Within(v, 1, 1209600)
      [] k = "max_rerolls" -> v % One = 0 /\ Within(v, 1, 3)
      [] k = "durability_cost" -> v % One = 0 /\ Within(v, 0, 1000)
      [] k = "quantity" -> v % One = 0 /\ Within(v, 1, 1000000)
      [] k = "rolls" -> v % One = 0 /\ Within(v, 1, 20)
      [] k = "amount" -> v % One = 0 /\ Within(v, 1, 1000)

-----------------------------------------------------------------------------

Init == effect \in Imported \union {None} /\ form = None /\ overlay \in BOOLEAN /\ sends = 0

\* The form of another effect, or of the one there is.
Open(type, on, action, e) ==
    form' = [type |-> type, on |-> on, action |-> action, from |-> e, typed |-> FALSE,
             texts |-> [k \in Asked(type, action) |-> Prefill(type, on, k, e)]]

OpenNew ==
    /\ effect = None /\ form = None /\ sends < MaxSends
    /\ \E t \in Kinds :
        \E on \in IF t \in {"stat_add", "stat_multiply"} THEN DOMAIN Stats ELSE {None} :
            \E a \in IF t = "robbery_counter" THEN Actions ELSE {None} : Open(t, on, a, None)
    /\ UNCHANGED <<effect, overlay, sends>>

ActionOf(e) ==
    CASE e.type # "robbery_counter" -> None
      [] e.type = "robbery_counter" /\ "mass" \in DOMAIN e.action -> "add_mass"
      [] OTHER -> "timeout"

OpenEdit ==
    /\ effect # None /\ form = None /\ sends < MaxSends
    /\ Open(effect.type, effect.on, ActionOf(effect), effect)
    /\ UNCHANGED <<effect, overlay, sends>>

\* One field is typed over, near its bounds or within them.
Type(k) ==
    /\ form # None /\ ~ form.typed /\ k \in DOMAIN form.texts
    /\ LET f == FieldOf(form.type, form.on, k)
       IN \E h \in {f.lo - 100, f.lo, f.lo + One, f.hi, f.hi + 100} \union Entered :
            form' = [form EXCEPT !.texts[k] = h, !.typed = TRUE]
    /\ UNCHANGED <<effect, overlay, sends>>

Wrong(f) ==
    {k \in DOMAIN f.texts : Refused(f.type, f.on, k, Read(f.type, f.on, k, f.texts[k]))}

\* What is refused leaves the effect as it was; the form is gone.
Send ==
    /\ form # None /\ form' = None /\ sends' = sends + 1
    /\ effect' = IF Wrong(form) = {} THEN Built(form) ELSE effect
    /\ UNCHANGED overlay

Next ==
    \/ OpenNew
    \/ OpenEdit
    \/ Send
    \/ \E k \in UNION {DOMAIN Forms[t] : t \in DOMAIN Forms} \union {"value"} : Type(k)

Spec == Init /\ [][Next]_vars

-----------------------------------------------------------------------------

\* The type of each variable; a counter asks for one number
\* ("only asks for the field matching the chosen counter action").
TypeOK ==
    /\ sends \in 0 .. MaxSends /\ overlay \in BOOLEAN
    /\ effect # None => effect.type \in Kinds
    /\ form # None =>
        /\ form.type \in Kinds /\ form.from \in {None, effect}
        /\ form.type = "robbery_counter" => Cardinality(DOMAIN form.texts) = 1

\* What a form accepts the engine accepts too ("display bounds are human units"
\* of its registry).
StoredIsAccepted ==
    effect # None =>
        /\ \A k \in DOMAIN effect.n : EngineTakes(effect.type, effect.on, k, effect.n[k])
        /\ \A k \in DOMAIN effect.action : EngineTakes(effect.type, effect.on, k, effect.action[k])

\* And what the engine accepts can be entered: the bounds of a form are not
\* tighter than the engine's, with or without the engine's answer.
AcceptedCanBeEntered ==
    form # None =>
        \A k \in DOMAIN form.texts :
            form.texts[k] # None
            /\ EngineTakes(form.type, form.on, k, IF FieldOf(form.type, form.on, k).unit \in {"percent", "points"}
                                                  THEN form.texts[k] \div 100 ELSE form.texts[k])
                => k \notin Wrong(form)

\* One step of EditsKeep.
EditsKeepStep ==
    form # None /\ form' = None /\ ~ form.typed /\ form.from # None => effect' = effect

\* An effect whose form is sent as it was opened stays what it was ("prefill the
\* edit form with current values").
EditsKeep == [][EditsKeepStep]_vars

\* A form that is sent as it was opened is accepted when no text is empty.
ShownIsAccepted ==
    form # None /\ ~ form.typed /\ (\A k \in DOMAIN form.texts : form.texts[k] # None) => Wrong(form) = {}
=============================================================================
