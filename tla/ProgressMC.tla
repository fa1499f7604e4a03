------------------------------ MODULE ProgressMC ------------------------------
(***************************************************************************)
(* What must happen in the end where nobody waits for a lock: the schedule *)
(* of events, the mailbox of an inventory, the daily statistics, rolls for *)
(* items in stock, chat commands, forms in Discord, and the channels the   *)
(* bot is in.  A behaviour is of one component; the others stay as they    *)
(* begin.                                                                  *)
(***************************************************************************)
EXTENDS Integers, Sequences, TLC

CONSTANTS
    Scenarios,  \* those that are checked
    None, Absent, Plain, Runner, worm, box, a1, a2, k1, w1, w2, c1, c2, fish,
    p1, p2, m1, ann, f1, z1, z2, i1, o1, x, y

VARIABLES
    scenario,   \* what this behaviour is about
    event, eventLock, jobs, key, lastJob, eventTime, admin, runner, asked,
    eventUse,
    items, slots, equipped, parked, uses, request, seen, owed, mailUse,
    ledgerTime, under, casts, stats, ledgerOn, counter, records, page, stops,
    switches,
    record, handler, sent, answers, applied, defs, entries, roller,
    catalogLock, older, made, oldItems,
    by, command, call, cooling, castsOfChat, ops, bans, announced, said,
    flow, views, form, clicks, late, item, keysUsed, broken, saves, ticks,
    engine, irc, connected, unready, joined, lastDesired, force, wake, task,
    stop, closer, co, cpu, disturbed, membershipUse

scheduling == <<event, eventLock, jobs, key, lastJob, eventTime, admin,
    runner, asked, eventUse>>
holding == <<items, slots, equipped, parked, uses, request, seen, owed,
    mailUse>>
counting == <<ledgerTime, under, casts, stats, ledgerOn, counter, records,
    page, stops, switches>>
catalog == <<record, handler, sent, answers, applied, defs, entries, roller,
    catalogLock, older, made, oldItems>>
chat == <<by, command, call, cooling, castsOfChat, ops, bans, announced,
    said>>
forms == <<flow, views, form, clicks, late, item, keysUsed, broken, saves,
    ticks>>
membership == <<engine, irc, connected, unready, joined, lastDesired, force,
    wake, task, stop, closer, co, cpu, disturbed, membershipUse>>
vars == <<scenario, scheduling, holding, counting, catalog, chat, forms,
    membership>>

-----------------------------------------------------------------------------
\* Started for a second, or for ever.
Lasting == {1, None}

\* Worms, which may be archived and with which a mailbox fills, and boxes.
Def(kind, size) ==
    [stack |-> size, kind |-> kind, wear |-> Absent, charges |-> Absent,
     policy |-> "indestructible", active |-> TRUE]
Worm == Def("consumable", 2)
Shapes == worm :> {Worm, [Worm EXCEPT !.active = FALSE]} @@ box :> {Def("lootbox", 1)}
FitsNothing == worm :> Absent @@ box :> Absent
WormsInBox == worm :> <<>> @@ box :> <<<<worm, 1>>, <<worm, 1>>>>
WormDrops == worm :> {} @@ box :> {<<worm, 1>>}

\* A cast of either of two channels.
Caught(channel) ==
    [channel |-> channel, status |-> "resolved", delta |-> 2, reward |-> fish, gate |-> 12,
     eligible |-> worm :> 1, item |-> worm]
CastShapes == {Caught(c1), Caught(c2)}

\* Two items in stock, of two units each.
Ware == [version |-> 1, active |-> TRUE, grants |-> {}, rolls |-> FALSE]
InStock ==
    [defs |-> [gem |-> Ware, worm |-> Ware],
     entries |-> [gem |-> [id |-> 2, version |-> 1, stock |-> 2],
                  worm |-> [id |-> 1, version |-> 1, stock |-> 2]]]
NoOps == [k \in {} |-> None]

\* Casts that a command asks for: one that earns two more, points, and a fish.
Reward(type, n) == [type |-> type, amount |-> n, message |-> TRUE]
Paying == {Reward("dupe", 2), Reward("points", 5), Reward("fish", 0)}

Events == INSTANCE EventSchedule WITH
    Events <- {1, 2}, Admins <- {a1, a2}, Runner <- Runner,
    Durations <- Lasting,
    Operations <- {"start", "stop", "delete", "toggle", "update"},
    MaxTime <- 1, MaxRequests <- 2, MaxFailures <- 1, MaxLosses <- 1,
    locked <- eventLock, now <- eventTime, spent <- eventUse
Mail == INSTANCE Inventory WITH
    Items <- {worm, box}, ShapesOf <- Shapes, Gear <- {},
    GearOf <- FitsNothing, Grants <- WormsInBox, Drops <- WormDrops,
    Limits <- {1}, Keys <- {k1}, Requests <- {}, ChargeCost <- 1,
    MaxUnits <- 2, MaxParks <- 2, MaxEdits <- 0, def <- items, inv <- slots,
    spent <- mailUse
Statistics == INSTANCE CastLedger WITH
    Ids <- {1}, Shapes <- CastShapes, Workers <- {w1, w2}, PerDay <- 1,
    Days <- 2, ResolvedDays <- 0, RejectedDays <- 0, ExpiredDays <- 0,
    Records <- {}, MaxStops <- 1, MaxSwitches <- 0, PageSize <- 3,
    now <- ledgerTime, pass <- counter
Rolls == INSTANCE ItemCatalog WITH
    Keys <- {}, OpOf <- NoOps, Handlers <- {}, Attempts <- 1,
    Items <- {"gem", "worm"}, Given <- InStock, Rollers <- {p1, p2},
    MaxRolls <- 2, MaxQuantity <- 2, OldItems <- {}, MaxOld <- 0,
    locked <- catalogLock, old <- oldItems
Chat == INSTANCE ChatActions WITH
    Messages <- {m1}, Users <- {ann}, Mods <- {}, Rewards <- Paying,
    MostExtra <- 2, task <- command, casts <- castsOfChat
Forms == INSTANCE FormFlow WITH
    Flows <- {f1},
    Kinds <- {"config", "message", "reward", "event", "location"},
    Clicks <- {z1, z2}, Values <- {x}, Life <- 2, Attempts <- 2,
    MaxViews <- 2, MaxTicks <- 0, call <- clicks, recorded <- keysUsed
Channels == INSTANCE ChannelMembership WITH
    Ids <- {i1}, Logins <- {x, y}, Bootstrap <- {x}, Initial <- {},
    Coroutines <- {o1}, StaleCache <- FALSE, DropsWhile <- "looping",
    MaxReconnects <- 1, MaxChanges <- 1, MaxFailures <- 1,
    spent <- membershipUse

\* The constants of the instances are what the components take them to be.
ASSUME InstancesAssumption ==
    /\ Events!ScheduleAssumption /\ Mail!InventoryAssumption
    /\ Statistics!CastLedgerAssumption /\ Rolls!RequestAssumption
    /\ Rolls!CatalogAssumption /\ Chat!ChatActionsAssumption
    /\ Forms!FormFlowAssumption /\ Channels!MembershipAssumption

-----------------------------------------------------------------------------
ButScheduling == <<scenario, holding, counting, catalog, chat, forms,
    membership>>
ButHolding == <<scenario, scheduling, counting, catalog, chat, forms,
    membership>>
ButCounting == <<scenario, scheduling, holding, catalog, chat, forms,
    membership>>
ButCatalog == <<scenario, scheduling, holding, counting, chat, forms,
    membership>>
ButChat == <<scenario, scheduling, holding, counting, catalog, forms,
    membership>>
ButForms == <<scenario, scheduling, holding, counting, catalog, chat,
    membership>>
ButMembership == <<scenario, scheduling, holding, counting, catalog, chat,
    forms>>

Init ==
    /\ scenario \in Scenarios
    /\ Events!Init
    /\ Mail!Init /\ (scenario # "mail" => items[worm] = Worm)
    /\ Statistics!Init
    /\ Rolls!Init
    /\ Chat!Init
    /\ Forms!Init
    /\ Channels!Init /\ (scenario # "channels" => \A e \in DOMAIN engine : engine[e] = None)

Next ==
    \/ /\ scenario = "events" /\ Events!Next
       /\ UNCHANGED ButScheduling
    \/ /\ scenario = "mail" /\ Mail!Next
       /\ UNCHANGED ButHolding
    \/ /\ scenario = "statistics" /\ Statistics!Next
       /\ UNCHANGED ButCounting
    \/ /\ scenario = "rolls" /\ Rolls!Next
       /\ UNCHANGED ButCatalog
    \/ /\ scenario = "chat" /\ Chat!Next
       /\ UNCHANGED ButChat
    \/ /\ scenario = "forms" /\ Forms!Next
       /\ UNCHANGED ButForms
    \/ /\ scenario = "channels" /\ Channels!Next
       /\ UNCHANGED ButMembership

Spec == Init /\ [][Next]_vars

\* In the engine, administrators' requests and the runner of events go on
\* (EventSchedule), parked items grow old and are swept (Inventory), a pass over a
\* day goes on (CastLedger), and so does a roll (ItemCatalog).  In the gateways, a
\* command goes on whatever the engine does (ChatActions), each await of a press
\* ends (FormFlow), and so do those of the reconciler and of a login
\* (ChannelMembership).  A behaviour is of one component, so one condition serves
\* several of them.
Rolling(p) == Rolls!Select(p) \/ Rolls!Reserve(p) \/ Rolls!Finish(p) \/ Rolls!Abort(p)
Asking(z) == Forms!Ask(z) \/ Forms!Lose(z)

Fairness ==
    /\ WF_vars(\/ scenario = "events" /\ Events!Runs /\ UNCHANGED ButScheduling
               \/ scenario = "mail" /\ Mail!Age /\ UNCHANGED ButHolding
               \/ scenario = "statistics" /\ Statistics!Work(w1) /\ UNCHANGED ButCounting
               \/ scenario = "rolls" /\ Rolling(p1) /\ UNCHANGED ButCatalog
               \/ scenario = "chat" /\ Chat!Handle(m1) /\ UNCHANGED ButChat
               \/ scenario = "forms" /\ Forms!ReadSession(z1) /\ UNCHANGED ButForms
               \/ scenario = "channels" /\ Channels!Reconciles(o1) /\ UNCHANGED ButMembership)
    /\ WF_vars(\/ scenario = "events" /\ Events!Serves(a1) /\ UNCHANGED ButScheduling
               \/ scenario = "mail" /\ Mail!Sweep /\ UNCHANGED ButHolding
               \/ scenario = "statistics" /\ Statistics!Work(w2) /\ UNCHANGED ButCounting
               \/ scenario = "rolls" /\ Rolling(p2) /\ UNCHANGED ButCatalog
               \/ scenario = "forms" /\ Forms!ReadSession(z2) /\ UNCHANGED ButForms
               \/ scenario = "channels" /\ Channels!EventReady /\ UNCHANGED ButMembership)
    /\ WF_vars(\/ scenario = "events" /\ Events!Serves(a2) /\ UNCHANGED ButScheduling
               \/ scenario = "forms" /\ Asking(z1) /\ UNCHANGED ButForms
               \/ scenario = "channels" /\ Channels!StopReturns /\ UNCHANGED ButMembership)
    /\ WF_vars(scenario = "forms" /\ Asking(z2) /\ UNCHANGED ButForms)
    /\ WF_vars(scenario = "forms" /\ Forms!Finish(z1) /\ UNCHANGED ButForms)
    /\ WF_vars(scenario = "forms" /\ Forms!Finish(z2) /\ UNCHANGED ButForms)

FairSpec == Spec /\ Fairness

-----------------------------------------------------------------------------
\* A channel never has two active events, an event whose deadline has passed ends
\* though Redis lost its job, its scheduling failed half-way or the runner died,
\* and a due job leaves Redis (FishingEventRunner).
EventsEnd ==
    /\ [](scenario = "events" => Events!OneActiveEvent)
    /\ Events!OverdueEnds /\ Events!DueJobsDrain

\* What was begun comes to its end: a parked row leaves the mailbox, a roll that
\* reserves stock and a chat command finish, every press of a form is answered,
\* the statistics of the last two days become exact ("a rerun always converges to
\* the same result"), and the bot ends up in the channels the engine wants, or
\* closes.
WhatBeginsEnds ==
    /\ Mail!ParkedLeaves
    /\ Statistics!StatsCatchUp
    /\ Rolls!RollsEnd
    /\ Chat!EveryCommandEnds
    /\ Forms!EveryClickEnds
    /\ Channels!Converges
    /\ Channels!CloseEnds
=============================================================================
