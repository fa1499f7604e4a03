------------------------------ MODULE RewardForms ------------------------------
(***************************************************************************)
(* What a reward becomes on its way through the Discord forms: the form    *)
(* shows a stored reward, the administrator changes some fields, the form  *)
(* reads them back page by page, and the engine's schema has the last      *)
(* word.  A file of the old bot's rewards is converted by the engine.      *)
(* A number is in thousandths; a form speaks of percent where the engine   *)
(* stores ratios.  Names and messages are carried over and left out.       *)
(***************************************************************************)
EXTENDS Integers, FiniteSets

CONSTANTS
    Types,      \* types of rewards: REWARD_CHOICES
    Entered,    \* numbers typed, in thousandths
    Stored,     \* rewards that were written through the HTTP API
    Old,        \* entries of the old bot's files
    MaxTyped,   \* bound on fields changed in one passage through the forms
    MaxSaves,   \* bound on previews confirmed
    None, Bad   \* no value, and one that is refused

RewardFormsAssumption == {MaxTyped, MaxSaves} \subseteq Nat

VARIABLES
    reward,     \* the stored reward, or None
    came,       \* the old entry it was converted from, or None
    draft,      \* what the pages before this one have read, or None
    page,       \* the page that is shown: [name, type, fields], or None
    typed,      \* fields changed since the forms were opened
    saves,      \* previews confirmed
    told        \* the last answer

vars == <<reward, came, draft, page, typed, saves, told>>

One == 1000
Mega == 1000000 * One
Hundred == 100 * One

-----------------------------------------------------------------------------
(* Fields                                                                      *)

\* _bounded_int, _optional_decimal, _optional_percentage, parse_duration: the
\* bounds of a field in the form's own unit, and what an empty one is read as
\* (Bad when it must be there).
Field(unit, lo, hi, empty) == [unit |-> unit, lo |-> lo, hi |-> hi, empty |-> empty]
Whole(lo, hi, empty) == Field("whole", lo * One, hi * One, empty)
Duration == Whole(1, 1209600, Bad)

FishPage ==
    [fixed_mass |-> Field("kg", -Mega, Mega, None), min_mass |-> Field("kg", -Mega, Mega, None),
     max_mass |-> Field("kg", -Mega, Mega, None), percentage |-> Field("percent", -Hundred, Hundred, None)]
TimeoutPage == [duration |-> Duration]
\* A plausible bug of RobberyPage: the bounds of a fish's percentage.
RobberyPageOfFish ==
    [mass |-> Field("kg", 0, Mega, None), percentage |-> Field("percent", -Hundred, Hundred, None),
     range |-> Whole(1, 100, 3 * One)]
RobberyPage ==
    [mass |-> Field("kg", 0, Mega, None), percentage |-> Field("percent", 0, Hundred, None),
     range |-> Whole(1, 100, 3 * One)]
RoulettePage == [bullets |-> Whole(1, 6, One), chambers |-> Whole(1, 100, 6 * One)]
\* A plausible bug of DupePage: at least a second between casts.
DupePageNoZero == [amount |-> Whole(1, 20, One), delay |-> Whole(1, 60, 0)]
DupePage == [amount |-> Whole(1, 20, One), delay |-> Whole(0, 60, 0)]
DetailsPage == [weight |-> Whole(1, 1000000, Bad), xp |-> Whole(0, 1000000, 0)]

\* The outcomes of a roulette are a page with the fields of all three kinds.
OutcomePage == [mass |-> Field("kg", -Mega, Mega, Bad), percentage |-> Field("percent", -Hundred, Hundred, Bad)]

Pages ==
    [fish |-> FishPage, timeout |-> TimeoutPage, robbery |-> RobberyPage, russian_roulette |-> RoulettePage,
     dupe |-> DupePage, details |-> DetailsPage,
     add_mass |-> [mass |-> OutcomePage.mass], add_percentage_mass |-> [percentage |-> OutcomePage.percentage]]

IsWhole(v) == v % One = 0

ToRatio(v) == v \div 100        \* _required_percentage
ToPercent(v) == v * 100         \* _display_human_percentage

\* What the form makes of a field: a number, None or Bad.
Read(field, v) ==
    CASE v = None -> field.empty
      [] v # None /\ (v < field.lo \/ v > field.hi \/ (field.unit = "whole" /\ ~ IsWhole(v))) -> Bad
      [] OTHER -> IF field.unit = "percent" THEN ToRatio(v) ELSE v

ReadAll(fields, values) == [f \in DOMAIN fields |-> Read(fields[f], values[f])]
Refused(values) == \E f \in DOMAIN values : values[f] = Bad

\* A plausible bug of Shown: the ratio, as it is stored.
ShownAsStored(field, v) == v

\* What the form shows of a stored field.
Shown(field, v) == IF v # None /\ field.unit = "percent" THEN ToPercent(v) ELSE v
ShownAll(fields, values) == [f \in DOMAIN fields |-> Shown(fields[f], values[f])]

\* A plausible bug of Coherent: the mass and the percentage are not exclusive.
CoherentEither(type, v) ==
    /\ type = "fish" => Cardinality({f \in {"min_mass", "max_mass"} : v[f] # None}) # 1
    /\ type = "russian_roulette" => v.bullets <= v.chambers

\* complete_reward_payload: the conditions that span fields.
Count(values, S) == Cardinality({f \in S : values[f] # None})
Coherent(type, v) ==
    /\ type = "fish" =>
          /\ Count(v, {"min_mass", "max_mass"}) # 1
          /\ Count(v, {"fixed_mass", "percentage", "min_mass"}) = 1
          /\ v.min_mass # None => v.min_mass <= v.max_mass
    /\ type = "robbery" => Count(v, {"mass", "percentage"}) = 1
    /\ type = "russian_roulette" => v.bullets <= v.chambers

-----------------------------------------------------------------------------
(* The engine's schema: RewardDefinition                                       *)

In(v, lo, hi) == v = None \/ (lo <= v /\ v <= hi)
Whole1(v, lo, hi) == v # None /\ IsWhole(v) /\ lo * One <= v /\ v <= hi * One

ValidOutcome(o) ==
    o # None =>
        CASE o.type = "add_mass" -> o.values.mass # None /\ In(o.values.mass, -Mega, Mega)
          [] o.type = "add_percentage_mass" -> o.values.percentage # None /\ In(o.values.percentage, -One, One)
          [] o.type = "timeout" -> Whole1(o.values.duration, 1, 1209600)

ValidFish(v) ==
    LET ranged == v.min_mass # None \/ v.max_mass # None IN
    /\ \A f \in {"fixed_mass", "min_mass", "max_mass"} : In(v[f], -Mega, Mega)
    /\ In(v.percentage, -One, One)
    /\ Cardinality({m \in 1..3 : <<ranged, v.fixed_mass # None, v.percentage # None>>[m]}) = 1
    /\ ranged => v.min_mass # None /\ v.max_mass # None /\ v.min_mass <= v.max_mass

ValidTimeout(v) == Whole1(v.duration, 1, 1209600)
ValidRobbery(v) ==
    /\ In(v.percentage, 0, One) /\ In(v.mass, 0, Mega)
    /\ (v.percentage = None) # (v.mass = None)
    /\ Whole1(v.range, 1, 100)
ValidRoulette(r) ==
    /\ Whole1(r.values.bullets, 1, 6) /\ Whole1(r.values.chambers, 1, 100)
    /\ r.values.bullets <= r.values.chambers
    /\ ValidOutcome(r.reward) /\ ValidOutcome(r.penalty)
ValidDupe(v) == Whole1(v.amount, 1, 20) /\ Whole1(v.delay, 0, 60)

\* A plausible bug of Valid: the schema is not asked.
ValidAlways(r) == TRUE

Valid(r) ==
    /\ Whole1(r.details.weight, 1, 1000000) /\ Whole1(r.details.xp, 0, 1000000)
    /\ CASE r.type = "fish" -> ValidFish(r.values)
         [] r.type = "timeout" -> ValidTimeout(r.values)
         [] r.type = "robbery" -> ValidRobbery(r.values)
         [] r.type = "russian_roulette" -> ValidRoulette(r)
         [] r.type = "dupe" -> ValidDupe(r.values)
         [] r.type = "nothing" -> TRUE

NoValues == [f \in {} |-> None]

Reward(type, values, details) ==
    [type |-> type, values |-> values, details |-> details, reward |-> None, penalty |-> None]

-----------------------------------------------------------------------------
(* Rewards of the old bot                                                      *)

\* _mass_from_points: a thousand points are a kilogram.
Mass(points) == points \div 1000

Abs(v) == IF v < 0 THEN -v ELSE v
Fish(fixed, percentage) ==
    [fixed_mass |-> fixed, min_mass |-> None, max_mass |-> None, percentage |-> percentage]

\* A plausible bug of Penalty: the sign is the file's.
PenaltyAsWritten(old) ==
    CASE old.penalty_type = "points" -> [type |-> "add_mass", values |-> [mass |-> Mass(old.value)]]
      [] old.penalty_type = "percentage" ->
            [type |-> "add_percentage_mass", values |-> [percentage |-> old.percentage]]
      [] OTHER -> None

\* -abs(...): a penalty is a loss however it was written.
Penalty(old) ==
    CASE old.penalty_type = "points" ->
            [type |-> "add_mass", values |-> [mass |-> -Abs(Mass(old.value))]]
      [] old.penalty_type = "percentage" ->
            [type |-> "add_percentage_mass", values |-> [percentage |-> -Abs(old.percentage)]]
      [] OTHER -> None

\* _convert_reward for the groups nothing and misc, points, percentage_points, dupe,
\* robbery and russian_roulette; None when the entry is refused.
Converted(old) ==
    LET type == CASE old.group \in {"nothing", "misc"} -> "nothing"
                  [] old.group \in {"points", "percentage_points"} -> "fish"
                  [] OTHER -> old.group
        values == CASE old.group = "points" -> Fish(Mass(old.value), None)
                    [] old.group = "percentage_points" -> Fish(None, old.percentage)
                    [] old.group = "dupe" -> [amount |-> old.amount, delay |-> old.delay]
                    [] old.group = "robbery" ->
                         [percentage |-> old.percentage, range |-> old.range,
                          mass |-> IF old.percentage = None /\ old.value # None THEN Mass(old.value) ELSE None]
                    [] old.group = "russian_roulette" -> [bullets |-> old.bullets, chambers |-> old.chambers]
                    [] OTHER -> NoValues
        new == Reward(type, values, [weight |-> old.weight, xp |-> 0])
    IN  IF old.group = "russian_roulette" THEN [new EXCEPT !.penalty = Penalty(old)] ELSE new

-----------------------------------------------------------------------------
Init ==
    /\ reward \in {None} \union Stored
    /\ came = None /\ draft = None /\ page = None /\ typed = 0 /\ saves = 0 /\ told = "nothing"

Outcomes == {"success", "failure"}

\* The default of a field of a form that makes a new reward.
Fresh(type, f) ==
    CASE f \in {"weight"} -> 100 * One
      [] f \in {"xp", "delay"} -> 0
      [] f \in {"amount", "bullets"} -> One
      [] f = "chambers" -> 6 * One
      [] f = "range" -> 3 * One
      [] OTHER -> None

FreshValues(name) == [f \in DOMAIN Pages[name] |-> Fresh(name, f)]
NoOutcome == [kind |-> "none", mass |-> None, percentage |-> None, duration |-> None]

\* RouletteOutcomeModal: the outcome that is stored, each kind in its own field.
ShownOutcome(o) ==
    IF o = None THEN NoOutcome
    ELSE LET field == CASE o.type = "add_mass" -> "mass" [] o.type = "timeout" -> "duration"
                        [] OTHER -> "percentage"
             unit == CASE o.type = "timeout" -> Pages.timeout [] OTHER -> Pages[o.type]
         IN  [NoOutcome EXCEPT !.kind = o.type, ![field] = Shown(unit[field], o.values[field])]

Page(name, type, edited) ==
    [name |-> name, type |-> type, edited |-> edited,
     fields |-> CASE name = "settings" ->
                        IF edited THEN ShownAll(Pages[type], reward.values) ELSE FreshValues(type)
                  [] name = "success" -> ShownOutcome(IF edited THEN reward.reward ELSE None)
                  [] name = "failure" -> ShownOutcome(IF edited THEN reward.penalty ELSE None)
                  [] name = "details" ->
                        IF edited THEN ShownAll(Pages.details, reward.details) ELSE FreshValues("details")
                  [] name = "preview" -> NoValues]

FirstPage(type) == IF type = "nothing" THEN "details" ELSE "settings"

\* create_reward_modal: "add" opens an empty form, "edit" the reward's.
Open(type, edited) ==
    /\ page = None
    /\ edited => reward # None /\ type = reward.type
    /\ page' = Page(FirstPage(type), type, edited)
    /\ draft' = Reward(type, NoValues, NoValues)
    /\ typed' = 0 /\ told' = "nothing"
    /\ UNCHANGED <<reward, came, saves>>

Type(f, v) ==
    /\ page # None /\ page.name # "preview" /\ typed < MaxTyped
    /\ f \in DOMAIN page.fields \ {"kind"} /\ v # page.fields[f]
    /\ page' = [page EXCEPT !.fields[f] = v]
    /\ typed' = typed + 1
    /\ UNCHANGED <<reward, came, draft, saves, told>>

TypeKind(k) ==
    /\ page # None /\ page.name \in Outcomes /\ typed < MaxTyped /\ k # page.fields.kind
    /\ page' = [page EXCEPT !.fields.kind = k]
    /\ typed' = typed + 1
    /\ UNCHANGED <<reward, came, draft, saves, told>>

\* A form that is refused is gone: the button opens it anew, as it was at first.
Refuse == page' = None /\ draft' = None /\ told' = "refused"

Turn(name, new) ==
    /\ draft' = new
    /\ page' = Page(name, page.type, page.edited)
    /\ told' = "nothing"

SubmitSettings ==
    /\ page # None /\ page.name = "settings"
    /\ LET values == ReadAll(Pages[page.type], page.fields)
       IN  IF Refused(values) \/ ~ Coherent(page.type, values) THEN Refuse
           ELSE Turn(IF page.type = "russian_roulette" THEN "success" ELSE "details",
                     [draft EXCEPT !.values = values])
    /\ UNCHANGED <<reward, came, typed, saves>>

\* build_roulette_outcome: only the field of the chosen kind is read.
Outcome(fields) ==
    LET unit == IF fields.kind = "timeout" THEN Pages.timeout ELSE Pages[fields.kind]
    IN  [type |-> fields.kind, values |-> [f \in DOMAIN unit |-> Read(unit[f], fields[f])]]

SubmitOutcome ==
    /\ page # None /\ page.name \in Outcomes
    /\ LET o == IF page.fields.kind = "none" THEN None ELSE Outcome(page.fields)
       IN  IF o # None /\ Refused(o.values) THEN Refuse
           ELSE IF page.name = "success" THEN Turn("failure", [draft EXCEPT !.reward = o])
           ELSE Turn("details", [draft EXCEPT !.penalty = o])
    /\ UNCHANGED <<reward, came, typed, saves>>

SubmitDetails ==
    /\ page # None /\ page.name = "details"
    /\ LET values == ReadAll(Pages.details, page.fields)
       IN  IF Refused(values) THEN Refuse
           ELSE Turn("preview", [draft EXCEPT !.details = values])
    /\ UNCHANGED <<reward, came, typed, saves>>

\* The preview is confirmed: the engine validates the payload and, for an edit,
\* puts it in the place of the whole reward.
Confirm ==
    /\ page # None /\ page.name = "preview" /\ saves < MaxSaves
    /\ IF Valid(draft) THEN reward' = draft /\ came' = None /\ told' = "saved"
       ELSE UNCHANGED <<reward, came>> /\ told' = "invalid"
    /\ saves' = saves + 1
    /\ page' = None /\ draft' = None
    /\ UNCHANGED typed

Leave ==
    /\ page # None
    /\ page' = None /\ draft' = None /\ told' = "nothing"
    /\ UNCHANGED <<reward, came, typed, saves>>

\* convert_legacy_rewards: an entry the schema refuses fails the import.
Import(old) ==
    /\ page = None
    /\ UNCHANGED <<draft, page, typed, saves>>
    /\ LET new == Converted(old)
           fits == old.group = "robbery" => old.percentage # None \/ old.value # None
       IN  IF fits /\ Valid(new) THEN reward' = new /\ came' = old /\ told' = "saved"
           ELSE UNCHANGED <<reward, came>> /\ told' = "invalid import"

Next ==
    \/ \E type \in Types, edited \in BOOLEAN : Open(type, edited)
    \/ page # None /\ \E f \in DOMAIN page.fields, v \in Entered \union {None} : Type(f, v)
    \/ \E k \in {"none", "add_mass", "add_percentage_mass", "timeout"} : TypeKind(k)
    \/ SubmitSettings \/ SubmitOutcome \/ SubmitDetails \/ Confirm \/ Leave
    \/ \E old \in Old : Import(old)

Spec == Init /\ [][Next]_vars

-----------------------------------------------------------------------------
\* What the forms let through the engine's schema accepts: nobody fills in four pages
\* and confirms a preview to be told that a number was out of range.
FormsFitSchema == told # "invalid"

\* One step of StoredFitsForms.
StoredFitsFormsStep ==
    told' = "refused" /\ page # None /\ page.edited => typed > 0

\* What the engine stores the forms can show and read: an edit in which nothing was
\* typed is never refused, whoever wrote the reward.
StoredFitsForms == [][StoredFitsFormsStep]_vars

\* One step of UntouchedIsKept.
UntouchedIsKeptStep ==
    told' = "saved" /\ page # None /\ page.edited /\ typed = 0 => reward' = reward

\* An edit replaces the whole reward, so what is not touched must come back as it was:
\* percentages and ratios, the two outcomes of a roulette, the modes of a fish.
UntouchedIsKept == [][UntouchedIsKeptStep]_vars

\* A reward of the old bot is worth the same here, a thousand points being a
\* kilogram, and the penalty of a roulette is a loss whatever sign the file gave it.
OldIsWorthTheSame ==
    came # None =>
        /\ came.group = "points" => reward.values.fixed_mass * 1000 = came.value
        /\ came.group = "percentage_points" => reward.values.percentage = came.percentage
        /\ came.group = "robbery" =>
              IF reward.values.percentage # None THEN reward.values.percentage = came.percentage
              ELSE reward.values.mass * 1000 = came.value
        /\ came.group = "russian_roulette" =>
              IF reward.penalty = None THEN came.penalty_type = "nothing"
              ELSE LET loss == IF came.penalty_type = "points" THEN reward.penalty.values.mass * 1000
                               ELSE reward.penalty.values.percentage
                       size == IF came.penalty_type = "points" THEN came.value ELSE came.percentage
                   IN  loss <= 0 /\ loss \in {size, -size}
=============================================================================
