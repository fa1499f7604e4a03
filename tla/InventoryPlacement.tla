------------------------- MODULE InventoryPlacement -------------------------
(***************************************************************************)
(* Where granted units go in a player's inventory: the rows of             *)
(* inventory_items, one per occupied slot, as a function of the slot       *)
(* (InventoryRepository._place_grant).  A grant first tops up rows of the  *)
(* same item in the same condition, then opens new rows in the lowest free *)
(* slots; when it does not fit, nothing of it stays (grant_many runs in a  *)
(* savepoint).                                                             *)
(***************************************************************************)
EXTENDS Integers, Sequences, SequencesExt

CONSTANTS
    Absent,     \* NULL: no durability, no charges, no slot asked for
    Plain       \* the empty meta of a drop or of a delivery from the overflow

\* A definition d is a record: stack (stack_size), kind (type), wear
\* (max_durability), charges (max_charges), policy (break_policy) and active
\* (is_active).  A row is one of inventory_items; its version is left to those
\* who compare it.
Row(item, n, like) ==
    [item |-> item, quantity |-> n, durability |-> like.durability,
     charges |-> like.charges, meta |-> like.meta]

\* Durability and charges of a fresh unit (_resolve_durability, _resolve_charges).
Fresh(d, meta) == [durability |-> d.wear, charges |-> d.charges, meta |-> meta]

CanStack(d) == d.stack > 1 /\ d.kind # "equipment"

Matches(row, item, like) ==
    /\ row.item = item
    /\ row.durability = like.durability
    /\ row.charges = like.charges
    /\ row.meta = like.meta

Ascending(S) == SetToSortSeq(S, LAMBDA a, b : a < b)

-----------------------------------------------------------------------------
(* Plausible bugs.  Each takes the place of the operator its comment names in  *)
(* a mutation test: the property it is aimed at must notice.                   *)

\* TopUp, the room left and not the units left decides what is added.
TopUpFills(acc, s, d) ==
    IF acc.left = 0
    THEN acc
    ELSE [inv |-> [acc.inv EXCEPT ![s].quantity = d.stack],
          left |-> IF acc.left < d.stack - acc.inv[s].quantity
                   THEN 0 ELSE acc.left - (d.stack - acc.inv[s].quantity),
          touched |-> acc.touched \union {s}]

\* FreeSlots, any free slot will do and the highest comes first.
HighestFirst(inv, max, slot) == Reverse(Ascending((1 .. max) \ DOMAIN inv))

\* SlotUsable, what lies in the slot is not looked at.
SlotAlwaysUsable(inv, d, item, like, slot, max) == slot = Absent \/ slot \in 1 .. max

-----------------------------------------------------------------------------

\* The slots whose rows a grant tops up, in the order it visits them: the slot
\* asked for when it is occupied, else every matching row with room.
TopUps(inv, d, item, like, slot) ==
    IF slot # Absent
    THEN IF slot \in DOMAIN inv THEN <<slot>> ELSE <<>>
    ELSE Ascending({s \in DOMAIN inv : /\ CanStack(d)
                                       /\ Matches(inv[s], item, like)
                                       /\ inv[s].quantity < d.stack})

TopUp(acc, s, d) ==
    LET room == d.stack - acc.inv[s].quantity
        n == IF room < acc.left THEN room ELSE acc.left
    IN  IF acc.left = 0
        THEN acc
        ELSE [inv |-> [acc.inv EXCEPT ![s].quantity = @ + n],
              left |-> acc.left - n, touched |-> acc.touched \union {s}]

\* The free slots in the order new rows take them: the one asked for, then the
\* lowest.
FreeSlots(inv, max, slot) ==
    LET free == (1 .. max) \ DOMAIN inv
    IN  IF slot \in free THEN <<slot>> \o Ascending(free \ {slot}) ELSE Ascending(free)

Open(acc, s, d, item, like) ==
    LET n == IF ~ CanStack(d) THEN 1 ELSE IF d.stack < acc.left THEN d.stack ELSE acc.left
    IN  IF acc.left = 0
        THEN acc
        ELSE [inv |-> [t \in DOMAIN acc.inv \union {s} |->
                          IF t = s THEN Row(item, n, like) ELSE acc.inv[t]],
              left |-> acc.left - n, touched |-> acc.touched \union {s}]

\* One grant as far as it goes; `left` is what found no place.
Place(inv, d, item, n, like, slot, max) ==
    LET topped == FoldLeft(LAMBDA acc, s : TopUp(acc, s, d),
                           [inv |-> inv, left |-> n, touched |-> {}],
                           TopUps(inv, d, item, like, slot))
    IN  FoldLeft(LAMBDA acc, s : Open(acc, s, d, item, like),
                 topped, FreeSlots(inv, max, slot))

\* A slot asked for must exist, and be free or hold what can be topped up.
SlotUsable(inv, d, item, like, slot, max) ==
    \/ slot = Absent
    \/ /\ slot \in 1 .. max
       /\ slot \in DOMAIN inv => CanStack(d) /\ Matches(inv[slot], item, like)

Refused(inv, why) == [why |-> why, inv |-> inv, touched |-> {}]

\* Grant (a plausible bug), no savepoint: what found a place before the rest did
\* not stays.
GrantKeepsPart(inv, d, item, n, like, slot, max) ==
    LET placed == Place(inv, d, item, n, like, slot, max)
    IN  IF ~ d.active \/ ~ SlotUsable(inv, d, item, like, slot, max)
        THEN Refused(inv, "invalid")
        ELSE [why |-> IF placed.left > 0 THEN "full" ELSE "ok", inv |-> placed.inv,
              touched |-> placed.touched]

\* What found no place refuses the grant.
Whole(inv, placed) ==
    IF placed.left > 0 THEN Refused(inv, "full")
    ELSE [why |-> "ok", inv |-> placed.inv, touched |-> placed.touched]

\* grant_many for one grant: an item that is archived or a number of units that
\* is not positive is a ValueError, a grant that does not fit an
\* InventoryCapacityError, and both leave the inventory as it was.
Grant(inv, d, item, n, like, slot, max) ==
    CASE ~ d.active \/ n < 1 -> Refused(inv, "invalid")
      [] d.active /\ n > 0 /\ ~ SlotUsable(inv, d, item, like, slot, max) -> Refused(inv, "full")
      [] OTHER -> Whole(inv, Place(inv, d, item, n, like, slot, max))

Units(inv, item) ==
    FoldLeft(LAMBDA sum, s : sum + IF inv[s].item = item THEN inv[s].quantity ELSE 0,
             0, SetToSeq(DOMAIN inv))
=============================================================================
