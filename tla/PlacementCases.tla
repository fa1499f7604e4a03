--------------------------- MODULE PlacementCases ---------------------------
(***************************************************************************)
(* Every grant that a small inventory can be asked to hold, against what   *)
(* the grant should do without saying how: it is refused exactly when it   *)
(* does not fit, it keeps what was there, and it opens a new row only when *)
(* the rows it could top up are full.  The state is the inputs; a step     *)
(* asks for another case.  Rows may hold more than a stack: an             *)
(* administrator may lower the size of a stack later.                      *)
(***************************************************************************)
EXTENDS InventoryPlacement, FiniteSets

CONSTANTS
    Item, Other,    \* what is granted, and another item
    Metas,          \* metas of the rows, Plain among them
    Shapes,         \* definitions the item may have
    Slots,          \* slots an inventory may have rows in
    Limits,         \* how many slots the player may have
    Most            \* units of a grant and of a row at most

CasesAssumption ==
    /\ Plain \in Metas /\ Item # Other
    /\ Slots \subseteq Nat \ {0} /\ Limits \subseteq Nat \ {0} /\ Most \in Nat \ {0}

VARIABLES inv, def, n, slot, max

vars == <<inv, def, n, slot, max>>

LikeOf(meta) == [durability |-> Absent, charges |-> Absent, meta |-> meta]

Rows == {Row(Other, 1, LikeOf(Plain))}
        \union {Row(Item, q, LikeOf(meta)) : q \in 1 .. Most, meta \in Metas}

Inventories == UNION {[S -> Rows] : S \in SUBSET Slots}

Init ==
    /\ inv \in Inventories /\ def \in Shapes /\ max \in Limits
    /\ n = 1 /\ slot = Absent

\* One unit more, or another slot asked for.
Next ==
    \/ n < Most /\ n' = n + 1 /\ UNCHANGED <<inv, def, slot, max>>
    \/ slot' \in Slots /\ UNCHANGED <<inv, def, n, max>>

Spec == Init /\ [][Next]_vars

-----------------------------------------------------------------------------

Like == Fresh(def, Plain)
Outcome == Grant(inv, def, Item, n, Like, slot, max)

PerRow == IF CanStack(def) THEN def.stack ELSE 1

\* The rows that may take more of the item, and what they can take.
Joinable ==
    {s \in DOMAIN inv :
        /\ CanStack(def) /\ Matches(inv[s], Item, Like)
        /\ IF slot = Absent THEN inv[s].quantity < def.stack ELSE s = slot}

Sum(f) == FoldFunction(LAMBDA x, y : x + y, 0, f)
Room == Sum([s \in Joinable |-> def.stack - inv[s].quantity])
        + PerRow * Cardinality((1 .. max) \ DOMAIN inv)

\* A grant is refused exactly when the units do not fit: in the rows it may top
\* up and the free slots, or in the slot that was asked for.  A refused grant
\* leaves every row as it was (grant_many, its savepoint).
RefusedIffItDoesNotFit ==
    /\ (Outcome.why = "ok") <=> /\ SlotUsable(inv, def, Item, Like, slot, max)
                                /\ n <= Room
    /\ Outcome.why # "ok" => Outcome.inv = inv

\* What is granted arrives, whole and once, and no row of another item or of
\* another condition changes (_place_grant).
GrantArrivesWhole ==
    Outcome.why = "ok" =>
        /\ Units(Outcome.inv, Item) = Units(inv, Item) + n
        /\ \A s \in DOMAIN inv :
              /\ s \in DOMAIN Outcome.inv
              /\ s \notin Joinable => Outcome.inv[s] = inv[s]
        /\ \A s \in DOMAIN Outcome.inv \ DOMAIN inv :
              Outcome.inv[s].quantity \in 1 .. PerRow /\ s \in 1 .. max

\* The player's slots are not wasted: a new row is opened only when every row
\* the grant may top up is full, the rows are filled from the lowest slot, and
\* at most one of the new rows is not full (_place_grant).
TopsUpBeforeOpening ==
    LET new == DOMAIN Outcome.inv \ DOMAIN inv
        partly == {s \in new : Outcome.inv[s].quantity < PerRow}
    IN  Outcome.why = "ok" =>
            /\ new # {} => \A s \in Joinable : Outcome.inv[s].quantity = def.stack
            /\ \A s, t \in Joinable :
                  s < t /\ Outcome.inv[t] # inv[t] => Outcome.inv[s].quantity = def.stack
            /\ Cardinality(partly) <= 1
            /\ \A s \in new \ {slot}, t \in (1 .. max) \ DOMAIN Outcome.inv : s < t
=============================================================================
