------------------------------ MODULE HoldingsMC ------------------------------
(***************************************************************************)
(* What is kept of a player and of a channel between casts: the link to    *)
(* StreamElements with its health (IntegrationHealth, extended: its bounds *)
(* are those of the configuration) and instances of the inventory with its *)
(* overflow (Inventory).  A behaviour is of one of them and the other      *)
(* rests.                                                                  *)
(***************************************************************************)
EXTENDS IntegrationHealth, Sequences, TLC

CONSTANTS
    Scenarios,  \* those that are checked
    Absent, Plain, worm, rod, box, tin, hand, r1, r2, k1, k2, q1, q2, h1, h2,
    t1, t2

VARIABLES
    scenario,   \* what this behaviour is about
    items, slots, equipped, parked, uses, request, seen, owed, used

holding == <<items, slots, equipped, parked, uses, request, seen, owed, used>>
allVars == <<scenario, vars, holding>>

-----------------------------------------------------------------------------
\* Definitions of items: worms stack, the rod wears out, the box has worms in it,
\* the tin has charges.  The worm may be archived, and the rod may break in three
\* ways.
Def(kind, size, wear, charges, policy) ==
    [stack |-> size, kind |-> kind, wear |-> wear, charges |-> charges,
     policy |-> policy, active |-> TRUE]
Worm == Def("consumable", 2, Absent, Absent, "indestructible")
Tin == Def("consumable", 1, Absent, 2, "indestructible")
Rod(policy) == Def("equipment", 1, 1, Absent, policy)
Shapes ==
    worm :> {Worm, [Worm EXCEPT !.active = FALSE]}
    @@ rod :> {Rod("destroy_at_zero"), Rod("unequip_broken"), Rod("retain_broken")}
    @@ box :> {Def("lootbox", 1, Absent, Absent, "indestructible")}
    @@ tin :> {Tin}

\* What each item fits, gives when it is used, and may drop.
Fits == worm :> Absent @@ rod :> hand @@ box :> Absent @@ tin :> Absent
Gives == worm :> <<>> @@ rod :> <<>> @@ box :> <<<<worm, 1>>, <<worm, 1>>>> @@ tin :> <<>>
Yields == worm :> {} @@ rod :> {} @@ box :> {<<worm, 1>>} @@ tin :> {}

\* Only what the channel has: worms and rods, or worms, boxes and tins.
Of(f, some) == [i \in some |-> f[i]]
Gear1 == {worm, rod}
Opened == {worm, box, tin}
InStock == worm :> {Worm} @@ Of(Shapes, Opened)

\* One request on the event loop, one in a thread.
OneCoroutine == q1 :> {"connect", "test"} @@ q2 :> {"disconnect"}

Mail == INSTANCE Inventory WITH
    Items <- Gear1, ShapesOf <- Of(Shapes, Gear1), Gear <- {hand},
    GearOf <- Of(Fits, Gear1), Grants <- Of(Gives, Gear1),
    Drops <- Of(Yields, Gear1), ChargeCost <- 1, Limits <- {1, 2},
    Keys <- {k1}, Requests <- {}, MaxUnits <- 4, MaxParks <- 2, MaxEdits <- 1,
    spent <- used, def <- items, inv <- slots
Use == INSTANCE Inventory WITH
    Items <- Opened, ShapesOf <- InStock, Gear <- {hand},
    GearOf <- Of(Fits, Opened), Grants <- Of(Gives, Opened),
    Drops <- Of(Yields, Opened), ChargeCost <- 1, Limits <- {2},
    Keys <- {k1, k2}, Requests <- {r1, r2}, MaxUnits <- 3, MaxParks <- 1,
    MaxEdits <- 0, spent <- used, def <- items, inv <- slots

\* The constants of the instances are what the components take them to be.
ASSUME InstancesAssumption ==
    /\ HealthAssumption /\ Mail!InventoryAssumption /\ Use!InventoryAssumption

-----------------------------------------------------------------------------
HealthIdle == Init /\ row = NoRow
HoldingIdle ==
    /\ items = None /\ slots = None /\ equipped = None /\ parked = None
    /\ uses = None /\ request = None /\ seen = None /\ owed = None
    /\ used = None

HoldingsInit ==
    /\ scenario \in Scenarios
    /\ \/ /\ scenario = "health" /\ Init
          /\ HoldingIdle
       \/ /\ \/ scenario = "mail" /\ Mail!Init
             \/ scenario = "use" /\ Use!Init
          /\ HealthIdle

HoldingsNext ==
    \/ /\ scenario = "health" /\ Next
       /\ UNCHANGED <<scenario, holding>>
    \/ /\ \/ scenario = "mail" /\ Mail!Next
          \/ scenario = "use" /\ Use!Next
       /\ UNCHANGED <<scenario, vars>>

HoldingsSpec == HoldingsInit /\ [][HoldingsNext]_allVars

-----------------------------------------------------------------------------
\* Units are neither lost nor doubled by a grant that finds no room halfway, a
\* failed use or two claims of a parked row; what is worn is held, once; a row
\* whose version has not moved is the row an administrator saw; of two uses with
\* one key one consumes and the other is answered with its response; and a slot
\* that becomes free goes to the oldest parked row (InventoryRepository,
\* OverflowService, EquipmentService).
InventoryHolds ==
    /\ [](/\ scenario = "use" =>
               /\ Use!TypeOK /\ Use!Accounted /\ Use!VersionTellsChange
               /\ Use!RetryIsReplayed
          /\ scenario = "mail" =>
               /\ Mail!Accounted /\ Mail!EquippedIsHeld
               /\ Mail!VersionTellsChange)
    /\ [][scenario = "mail" => Mail!OldestFirstStep]_allVars
=============================================================================
