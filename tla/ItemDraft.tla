------------------------------ MODULE ItemDraft ------------------------------
(***************************************************************************)
(* What a draft of an item says, from the template or definition it begins *)
(* with over the mechanics and effects cards to the payload of the review; *)
(* what the gateway refuses, what the engine's schema refuses, and what    *)
(* its table refuses.  How a flow ends is ItemWizard's.                    *)
(***************************************************************************)
EXTENDS Naturals, Sequences, SequencesExt

CONSTANTS
    Sizes,          \* stack sizes, durabilities and charges that are entered
    Offers,         \* effects there may be: [type, on, works]
    Self,           \* the ID of the item
    Imports,        \* drafts read from a file
    MaxEffects,     \* bound on effects of a draft
    None

VARIABLES
    source,     \* "create", "edit" or "import"
    template,   \* shown on the cards only
    draft,
    stored,     \* the definition an edit began with
    step,       \* the card: "mechanics" (or "again", from the review), "effects", "review"
    form,       \* the number that is asked for over the mechanics card
    shown,      \* the draft when the card was last rendered and saved
    touched     \* history: whether a control was used

vars == <<source, template, draft, stored, step, form, shown, touched>>

Types == {"equipment", "consumable", "lootbox", "material", "quest", "currency", "collectible"}
Slots == {"rod", "bait", "defense", "storage", "charm_1", "charm_2"}
Policies == {"indestructible", "retain_broken", "unequip_broken", "destroy_at_zero"}

\* ITEM_TEMPLATES: the slot, the type and the stack a template stands for.
SlotOf == [fishing_rod |-> "rod", bait |-> "bait", defense |-> "defense",
           storage |-> "storage", charm |-> None]
\* A plausible bug of TypeOf: an advanced item's type is left open.
TypeLeftOpen(t) == IF t \in DOMAIN SlotOf THEN "equipment" ELSE IF t = "advanced" THEN None ELSE t
TypeOf(t) ==
    IF t \in DOMAIN SlotOf THEN "equipment" ELSE IF t = "advanced" THEN "material" ELSE t
Templates == DOMAIN SlotOf \union (Types \ {"equipment"}) \union {"advanced"}
StackOf(t) ==
    CASE t \in {"consumable", "lootbox"} -> 20 [] t = "material" -> 100
      [] t = "currency" -> 1000 [] OTHER -> 1

\* template_to_defaults, with the fields BasicInfoModal and the rarity card add.
Defaults(t) ==
    [type |-> TypeOf(t), slot |-> IF t \in DOMAIN SlotOf THEN SlotOf[t] ELSE None,
     stack |-> StackOf(t), durability |-> None, charges |-> None,
     policy |-> "indestructible", value |-> None, effects |-> <<>>]

\* template_for_item_type.
TemplateFor(d) ==
    IF d.type # "equipment" THEN d.type
    ELSE IF d.slot \in {"charm_1", "charm_2"} THEN "charm"
    ELSE CHOOSE t \in DOMAIN SlotOf : SlotOf[t] = d.slot

UseOnly == {"grant_item", "grant_mass", "apply_timeout", "loot_table_roll"}
OnEquipment == {"stat_add", "stat_multiply", "reroll_reward", "block_action", "robbery_counter",
                "absorb_robbery", "mass_floor", "consume_durability"}
LootProducing == {"grant_item", "loot_table_roll"}

\* effect_identity: only some effects may be repeated, on something else.
Identity(e) ==
    <<e.type, IF e.type \in {"stat_add", "stat_multiply"} \union LootProducing THEN e.on ELSE None>>

Duplicated(es) == \E i, j \in 1 .. Len(es) : i # j /\ Identity(es[i]) = Identity(es[j])

-----------------------------------------------------------------------------
(* Plausible bugs.                                                             *)

\* Errors, only the mechanics are looked at.
ErrorsWithoutEffects(d) ==
    \/ d.type # "equipment" /\ (d.slot # None \/ d.durability # None \/ d.policy # "indestructible")
    \/ d.type # "consumable" /\ d.charges # None
    \/ d.type = "equipment" /\ d.slot = None

\* Payload, charges are not carried over.
PayloadWithoutCharges(d) == [d EXCEPT !.charges = None]

-----------------------------------------------------------------------------
(* The gateway's and the engine's rules                                        *)

\* compatibility_issues: the blocking ones.
Errors(d) ==
    LET kinds == {e.type : e \in ToSet(d.effects)} IN
    \/ d.type # "equipment" /\ (d.slot # None \/ d.durability # None \/ d.policy # "indestructible")
    \/ d.type # "consumable" /\ d.charges # None
    \/ d.charges # None /\ d.stack # 1
    \/ d.type = "equipment" /\ (d.slot = None \/ d.stack # 1
                                \/ (d.policy # "indestructible" /\ d.durability = None))
    \/ d.type = "consumable" /\ kinds = {}
    \/ d.type = "lootbox" /\ kinds \intersect LootProducing = {}
    \/ Duplicated(d.effects)
    \/ \E e \in ToSet(d.effects) :
        \/ ~ e.works
        \/ e.type \in OnEquipment /\ d.type # "equipment"
        \/ e.type \in UseOnly /\ d.type \notin {"consumable", "lootbox"}
        \/ e.type = "consume_charge" /\ (d.type # "consumable" \/ d.charges = None)

\* normalize_draft.
Payload(d) ==
    LET charges == IF d.type = "consumable" THEN d.charges ELSE None IN
    [d EXCEPT
        !.slot = IF d.type = "equipment" THEN @ ELSE None,
        !.stack = IF d.type = "equipment" \/ charges # None THEN 1 ELSE @,
        !.durability = IF d.policy = "indestructible" THEN None ELSE @,
        !.charges = charges]

GrantsItself(d) == \E e \in ToSet(d.effects) : e.type = "grant_item" /\ e.on = Self

\* ItemDefinitionData.validate_item_shape and the effects' own validators.
Accepts(d) ==
    /\ d.type = "equipment" => d.slot # None /\ d.stack = 1 /\ d.charges = None
    /\ d.type # "equipment" => d.slot = None /\ d.durability = None
    /\ d.charges # None => d.type = "consumable" /\ d.stack = 1
    /\ d.policy # "indestructible" => d.durability # None
    /\ ~ Duplicated(d.effects) /\ ~ GrantsItself(d)
    /\ \A e \in ToSet(d.effects) :
        /\ e.works
        /\ e.type \in OnEquipment => d.type = "equipment"
        /\ e.type \in UseOnly => d.type \in {"consumable", "lootbox"}
        /\ e.type = "consume_charge" => d.type = "consumable" /\ d.charges # None

\* The constraints of the table item_definitions.
Storable(d) ==
    /\ (d.policy = "indestructible") = (d.durability = None)
    /\ d.charges # None => d.type = "consumable" /\ d.stack = 1
    /\ d.durability # None => d.type = "equipment"
    /\ d.type = "equipment" => d.slot # None /\ d.stack = 1
    /\ d.type # "equipment" => d.slot = None

\* Definitions the engine may have.
Definitions == {d \in Imports : Accepts(d) /\ Storable(d)}

\* _seed_draft_from_item reads "value", which a definition does not have.
Seeded(d) == [d EXCEPT !.value = None]

-----------------------------------------------------------------------------

Init ==
    /\ form = "none" /\ touched = FALSE
    /\ \/ /\ source = "create" /\ template \in Templates
          /\ draft = Defaults(template) /\ stored = None /\ step = "mechanics"
       \/ /\ source = "edit" /\ stored \in Definitions
          /\ draft = Seeded(stored) /\ template = TemplateFor(stored)
          /\ step \in {"mechanics", "effects"}
       \/ /\ source = "import" /\ draft \in Imports
          /\ stored = None /\ template = "material" /\ step = "review"
    /\ shown = draft

TypeOK ==
    /\ draft.type \in Types /\ draft.slot \in Slots \union {None} /\ draft.policy \in Policies
    /\ template \in Templates /\ step \in {"mechanics", "again", "effects", "review"}
    /\ source = "create" => draft.type = TypeOf(template)
    /\ {draft.durability, draft.charges} \subseteq Sizes \union {None}

Mechanics == step \in {"mechanics", "again"}

Stays == UNCHANGED <<source, template, stored, step>>

\* The draft is changed, saved and shown.
Changes(d) == draft' = d /\ shown' = d /\ form' = "none" /\ touched' = TRUE /\ Stays

Asks(what) == form' = what /\ UNCHANGED <<draft, shown, touched>> /\ Stays

PickSlot ==
    /\ Mechanics /\ shown.type = "equipment" /\ template = "charm"
    /\ \E s \in {"charm_1", "charm_2"} : Changes([draft EXCEPT !.slot = s])

\* A policy that breaks asks for the durability at once when there is none: the
\* draft has changed, but is neither saved nor shown.
PickPolicy(p) ==
    /\ Mechanics /\ shown.type = "equipment"
    /\ LET d == [draft EXCEPT !.policy = p,
                             !.durability = IF p = "indestructible" THEN None ELSE @]
       IN IF p # "indestructible" /\ draft.durability = None
          THEN draft' = d /\ form' = "durability" /\ touched' = TRUE /\ UNCHANGED shown /\ Stays
          ELSE Changes(d)

AskDurability ==
    /\ Mechanics /\ shown.type = "equipment" /\ shown.policy # "indestructible"
    /\ Asks("durability")

UseBehavior ==
    /\ Mechanics /\ shown.type = "consumable"
    /\ IF draft.charges # None THEN Changes([draft EXCEPT !.charges = None]) ELSE Asks("charges")

AskCharges ==
    /\ Mechanics /\ shown.type = "consumable" /\ shown.charges # None /\ Asks("charges")

AskStack ==
    /\ Mechanics /\ shown.type # "equipment" /\ shown.charges = None /\ Asks("stack")

Enter(n) ==
    \/ form = "durability" /\ Changes([draft EXCEPT !.durability = n])
    \/ form = "charges" /\ Changes([draft EXCEPT !.charges = n, !.stack = 1])
    \/ form = "stack" /\ Changes([draft EXCEPT !.stack = n])

Dismiss == form # "none" /\ Asks("none")

\* The button answers as it was last shown.
MayContinue ==
    shown.type = "equipment" =>
        /\ shown.policy = "indestructible" \/ shown.durability # None
        /\ template = "charm" => shown.slot # None

\* The step after is shown, and the session saved, with the draft as it is.
Goes(to) ==
    /\ step' = to /\ form' = "none" /\ shown' = draft
    /\ UNCHANGED <<source, template, draft, stored, touched>>

MechanicsContinue ==
    /\ Mechanics /\ MayContinue
    /\ Goes(IF step = "again" THEN "review" ELSE "effects")

MechanicsBack == step = "again" /\ Goes("review")

\* Effects are taken over when the card is left; it refuses duplicates.
Effects ==
    /\ step = "effects"
    /\ \/ Goes("review")
       \/ \E e \in Offers :
            /\ e.works /\ Len(draft.effects) < MaxEffects
            /\ ~ Duplicated(Append(draft.effects, e))
            /\ Changes([draft EXCEPT !.effects = Append(@, e)])
       \/ \E i \in 1 .. Len(draft.effects) :
            Changes([draft EXCEPT !.effects = RemoveAt(@, i)])

ReviewBack ==
    /\ step = "review" /\ source # "import"
    /\ \E c \in {"again", "effects"} : Goes(c)

Next ==
    \/ PickSlot \/ AskDurability \/ UseBehavior \/ AskCharges \/ AskStack \/ Dismiss
    \/ \E p \in Policies : PickPolicy(p)
    \/ \E n \in Sizes : Enter(n)
    \/ MechanicsContinue \/ Effects \/ ReviewBack \/ MechanicsBack

Spec == Init /\ [][Next]_vars

-----------------------------------------------------------------------------

\* Confirm is enabled only for drafts the engine accepts and its table takes,
\* apart from an item that grants itself (compatibility_issues).
ConfirmedIsStored ==
    step = "review" /\ ~ Errors(draft) /\ ~ GrantsItself(draft) =>
        Accepts(Payload(draft)) /\ Storable(Payload(draft))

\* With no exception: "this mirror keeps Confirm disabled for drafts the backend
\* would reject".
ConfirmedIsAccepted == step = "review" /\ ~ Errors(draft) => Accepts(Payload(draft))

\* "the draft never lives only in the view": what a control has changed is saved
\* and shown.
DraftIsSaved == Mechanics /\ form = "none" => shown = draft

\* An edit that changes nothing saves what there was, the value aside.
EditKeepsTheRest ==
    source = "edit" /\ ~ touched => Payload(draft) = [stored EXCEPT !.value = None]

\* normalize_draft: "never silently resets them", the value included.
EditKeepsValue == source = "edit" /\ ~ touched => Payload(draft).value = stored.value
=============================================================================
