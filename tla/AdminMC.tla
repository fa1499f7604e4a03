------------------------------- MODULE AdminMC --------------------------------
(***************************************************************************)
(* What administrators do from Discord: locations and events (Locations,   *)
(* extended: its bounds are those of the configuration, and a scenario of  *)
(* it takes part of its steps), with instances of a channel's              *)
(* configuration, the bindings of servers, items and their stock, and the  *)
(* modifiers of players.  The requests of the instances are those of       *)
(* AdminRequests, which they share; a behaviour is of one component and    *)
(* the others rest.                                                        *)
(***************************************************************************)
EXTENDS Locations, Integers, TLC

CONSTANTS
    Scenarios,  \* those that are checked
    h1, h2, p1, p2

VARIABLES
    scenario,   \* what this behaviour is about
    recordOf, serving, tried, told, done,  \* of every request
    row, chat,
    link, oauth, returning, rate, starting, bound, channels, enabled,
    boundLock, starts,
    defs, entries, roller, catalogLock, older, made, oldItems,
    rows, window, born, shown, edits

configuring == <<row, chat>>
binding == <<link, oauth, returning, rate, starting, bound, channels, enabled,
    boundLock, starts>>
catalog == <<defs, entries, roller, catalogLock, older, made, oldItems>>
modifiers == <<rows, window, born, shown, edits>>
requests == <<recordOf, serving, tried, told, done>>
allVars == <<scenario, requests, configuring, binding, vars, catalog,
    modifiers>>

-----------------------------------------------------------------------------
\* The robbery chances as 0 .. 2, unset meaning at least 0 and at most 2.
ChanceParams == {"rob_min_chance", "rob_max_chance", "fishing_cooldown"}
ChanceSections ==
    [robbery |-> {"rob_min_chance", "rob_max_chance"}, cooldown |-> {"fishing_cooldown"}]
ChancesFit(c) ==
    LET value(p, default) == IF c[p] = None THEN default ELSE c[p]
    IN  value("rob_min_chance", 0) <= value("rob_max_chance", 2)
Patch(v, p, x) == [kind |-> "patch", expected |-> v, changes |-> [q \in {p} |-> x]]
ConfigOps ==
    [k1 |-> Patch(1, "rob_min_chance", 2), k2 |-> Patch(2, "rob_max_chance", 1),
     k3 |-> [kind |-> "message", expected |-> 2, message |-> "caught", template |-> "t"],
     k4 |-> [kind |-> "reset", expected |-> 2, section |-> "robbery"]]

\* Two users with two servers between them; with one account only one of them can
\* have it, and one server is bound to it at a time.
Bind(u, g, r) == [kind |-> "bind", user |-> u, guild |-> g, replace |-> r]
BindOps ==
    [k1 |-> Bind("u1", "g1", FALSE), k2 |-> Bind("u2", "g1", TRUE), k3 |-> Bind("u2", "g2", FALSE),
     k4 |-> [kind |-> "unbind", user |-> "u2", guild |-> "g2"],
     k5 |-> [kind |-> "unlink", user |-> "u1"]]

\* Two people editing the pool of the lake from forms of two versions.
OfPool(kind, v, r, c) ==
    [kind |-> kind, place |-> "lake", expected |-> v, reward |-> r, content |-> c]
Imported(v, rs, x) ==
    [kind |-> "import_rewards", place |-> "lake", expected |-> v, replace |-> x,
     rewards |-> [r \in {"r1", "r2"} |-> IF r \in rs THEN "fish" ELSE None]]
PoolOps ==
    [l1 |-> OfPool("create_reward", 1, "r1", "fish"),
     l2 |-> [kind |-> "patch_location", place |-> "lake", expected |-> 1, level |-> 2],
     l3 |-> Imported(2, {"r1"}, FALSE), l4 |-> OfPool("delete_reward", 2, "r1", None),
     l5 |-> OfPool("patch_reward", 2, "r1", "points")]
PoolsOfOldApi ==
    {[rewards |-> [r \in {"r1", "r2"} |-> IF r = "r2" THEN "fish" ELSE None], level |-> 0]}

\* Locations made and deleted while events are pointed at them, and started.
Make(l) == [kind |-> "create_location", place |-> l, level |-> 0]
Point(e, l) == [kind |-> "patch_event", event |-> e, expected |-> 1, override |-> l, modifiers |-> TRUE]
OnEvent(kind, e, v) == [kind |-> kind, event |-> e, expected |-> v]
PlaceOps ==
    [p1 |-> Make("river"), p2 |-> Make("sea"),
     p3 |-> [kind |-> "delete_location", place |-> "river"],
     p4 |-> [kind |-> "create_event", event |-> "e1", override |-> "river"],
     p5 |-> Point("e2", "river"), p6 |-> OnEvent("delete_event", "e1", 1)]
EventOps ==
    [e1 |-> Make("river"), e2 |-> Point("e2", "river"), e3 |-> OnEvent("start_event", "e2", 2),
     e4 |-> OnEvent("start_event", "e1", 1), e5 |-> [kind |-> "stop_event"]]
EventsOfOldApi ==
    {[override |-> None, active |-> TRUE], [override |-> "river", active |-> FALSE]}

\* A scenario has its own requests, and the event is stopped twice under one key.
WorldKeys == DOMAIN PoolOps \union DOMAIN EventOps \union DOMAIN PlaceOps
WorldOps == PoolOps @@ EventOps @@ PlaceOps
LevelOfAll == [v1 |-> 1]
Times(k) == IF k = "e5" THEN 2 ELSE 1
Sends(ops) == \A k \in Keys : sent'[k] <= IF k \in DOMAIN ops THEN Times(k) ELSE 0
NoneMigrated == \A e \in Events : events[e] = None
PoolsBegins == NoneMigrated
PoolsGoes == Sends(PoolOps) /\ events' = events /\ chosen' = chosen
EventsGoes == Sends(EventOps) /\ chosen' = chosen /\ (old' # old => pools' = pools)
PlacesGoes == Sends(PlaceOps) /\ old' = old

\* A worm and a box, the box rolling the table that has the worm; or a worm and a
\* gem in stock.
Wares == {"box", "gem", "worm"}
Def(grants, rolls) == [version |-> 1, active |-> TRUE, grants |-> grants, rolls |-> rolls]
Stock(id, n) == [id |-> id, version |-> 1, stock |-> n]
Table(box, gem, worm) == [box |-> box, gem |-> gem, worm |-> worm]
WormInBox ==
    [defs |-> Table(Def({}, TRUE), None, Def({}, FALSE)), entries |-> Table(None, None, Stock(1, 2))]
WormAndGem ==
    [defs |-> Table(None, Def({}, FALSE), Def({}, FALSE)),
     entries |-> Table(None, Stock(2, 2), Stock(1, 2))]

\* Each of the first three edits is legal, any two of them make a cycle.
Item(i, g, x, v) == [kind |-> "upsert_item", item |-> i, grants |-> g, rolls |-> x, expected |-> v]
Drop(i, s, v) == [kind |-> "upsert_drop", item |-> i, stock |-> s, expected |-> v]
Archive(i, v) == [kind |-> "archive_item", item |-> i, expected |-> v]
GraphOps ==
    [k1 |-> Item("worm", {"gem"}, FALSE, 1), k2 |-> Item("gem", {"box"}, FALSE, None),
     k3 |-> Drop("gem", None, None), k4 |-> Drop("worm", 1, 1),
     k5 |-> [kind |-> "remove_drop", item |-> "worm", expected |-> 1], k6 |-> Archive("gem", 1)]
StockOps == [k1 |-> Drop("worm", 1, 1), k2 |-> Drop("gem", 3, 1)]
OldItem(i, g, v) == [item |-> i, grants |-> g, rolls |-> FALSE, expected |-> v]
ItemsOfOldApi == {OldItem("worm", {"gem"}, 1), OldItem("gem", {"worm"}, None)}

\* One modifier of a player, whose worn items and event change the same stat.
Luck == [scope |-> "fishing", name |-> 1]
Set(op, value) == [kind |-> "set", slot |-> Luck, op |-> op, value |-> value, window |-> "before"]
ModifierOps ==
    [k1 |-> Set("add", 10), k2 |-> Set("override", 20),
     k3 |-> [kind |-> "state", slot |-> Luck, enabled |-> FALSE],
     k4 |-> [kind |-> "remove", slot |-> Luck]]
LowestLuck == -50
Bonus(from, op, value) == [source |-> from, name |-> 1, op |-> op, value |-> value]
WornThere == <<Bonus("item", "multiply", 150), Bonus("event", "add", 20)>>

Config == INSTANCE ChannelConfig WITH
    Keys <- DOMAIN ConfigOps, OpOf <- ConfigOps, Handlers <- {h1, h2},
    Attempts <- 1, Params <- ChanceParams, Messages <- {"caught"},
    Sections <- ChanceSections, Valid <- ChancesFit, MaxCooldowns <- 1,
    record <- recordOf, handler <- serving, sent <- tried, answers <- told,
    applied <- done
Apart == INSTANCE GuildBinding WITH
    Keys <- DOMAIN BindOps, OpOf <- BindOps, Handlers <- {h1, h2}, Attempts <- 1,
    Users <- {"u1", "u2"}, Guilds <- {"g1", "g2"}, Accounts <- {"t1", "t2"},
    MaxStarts <- 2, RateLimit <- 1, record <- recordOf, handler <- serving,
    sent <- tried, answers <- told, applied <- done, locked <- boundLock
Overlap == INSTANCE GuildBinding WITH
    Keys <- DOMAIN BindOps \ {"k2"}, OpOf <- BindOps, Handlers <- {h1, h2},
    Attempts <- 1, Users <- {"u1", "u2"}, Guilds <- {"g1", "g2"},
    Accounts <- {"t1"}, MaxStarts <- 2, RateLimit <- 1, record <- recordOf,
    handler <- serving, sent <- tried, answers <- told, applied <- done,
    locked <- boundLock
Graph == INSTANCE ItemCatalog WITH
    Keys <- DOMAIN GraphOps, OpOf <- GraphOps, Handlers <- {h1, h2},
    Attempts <- 1, Items <- Wares, Given <- WormInBox, Rollers <- {},
    MaxRolls <- 1, MaxQuantity <- 2, OldItems <- {}, MaxOld <- 0,
    record <- recordOf, handler <- serving, sent <- tried, answers <- told,
    applied <- done, locked <- catalogLock, old <- oldItems
Stocked == INSTANCE ItemCatalog WITH
    Keys <- DOMAIN StockOps, OpOf <- StockOps, Handlers <- {h1, h2},
    Attempts <- 1, Items <- Wares, Given <- WormAndGem, Rollers <- {p1, p2},
    MaxRolls <- 1, MaxQuantity <- 2, OldItems <- ItemsOfOldApi, MaxOld <- 1,
    record <- recordOf, handler <- serving, sent <- tried, answers <- told,
    applied <- done, locked <- catalogLock, old <- oldItems
Modifiers == INSTANCE PlayerModifiers WITH
    Keys <- DOMAIN ModifierOps, OpOf <- ModifierOps, Handlers <- {h1, h2},
    Attempts <- 2, Lowest <- LowestLuck, Highest <- 200, Slots <- {Luck},
    Scope <- "fishing", Worn <- WornThere, record <- recordOf,
    handler <- serving, sent <- tried, answers <- told, applied <- done,
    seen <- shown

\* Requests that overlap are apart, and accounts are linked before the first.
ApartGoes ==
    /\ Apart!RequestsApart'
    /\ starts' # starts => \A k \in DOMAIN BindOps : tried[k] = 0
    /\ tried' # tried => starting = {} /\ oauth = {} /\ returning = {}

\* The constants of the instances are what the components take them to be.
ASSUME InstancesAssumption ==
    /\ Config!RequestAssumption /\ Config!ConfigAssumption
    /\ Apart!RequestAssumption /\ Apart!BindingAssumption
    /\ Overlap!RequestAssumption /\ Overlap!BindingAssumption
    /\ RequestAssumption /\ LocationAssumption /\ PayloadAssumption
    /\ Graph!RequestAssumption /\ Graph!CatalogAssumption
    /\ Stocked!RequestAssumption /\ Stocked!CatalogAssumption
    /\ Modifiers!RequestAssumption /\ Modifiers!BoundsAssumption
    /\ Modifiers!ModifiersAssumption

-----------------------------------------------------------------------------
ConfiguringIdle ==
    /\ row = None /\ chat = None
BindingIdle ==
    /\ link = None /\ oauth = None /\ returning = None /\ rate = None
    /\ starting = None /\ bound = None /\ channels = None /\ enabled = None
    /\ boundLock = None /\ starts = None
WorldIdle == Init /\ NoneMigrated
CatalogIdle ==
    /\ defs = None /\ entries = None /\ roller = None /\ catalogLock = None
    /\ older = None /\ made = None /\ oldItems = None
ModifiersIdle ==
    /\ rows = None /\ window = None /\ born = None /\ shown = None
    /\ edits = None
RequestsIdle ==
    /\ recordOf = None /\ serving = None /\ tried = None /\ told = None
    /\ done = None

AdminInit ==
    /\ scenario \in Scenarios
    /\ \/ /\ scenario = "config" /\ Config!Init
          /\ BindingIdle /\ WorldIdle /\ CatalogIdle /\ ModifiersIdle
       \/ /\ \/ scenario = "binding apart" /\ Apart!Init
             \/ scenario = "binding" /\ Overlap!Init
          /\ ConfiguringIdle /\ WorldIdle /\ CatalogIdle /\ ModifiersIdle
       \/ /\ \/ scenario = "pools" /\ Init /\ PoolsBegins
             \/ scenario = "events" /\ Init
             \/ scenario = "places" /\ Init
          /\ ConfiguringIdle /\ BindingIdle /\ CatalogIdle /\ ModifiersIdle
             /\ RequestsIdle
       \/ /\ \/ scenario = "graph" /\ Graph!Init
             \/ scenario = "stock" /\ Stocked!Init
          /\ ConfiguringIdle /\ BindingIdle /\ WorldIdle /\ ModifiersIdle
       \/ /\ scenario = "modifiers" /\ Modifiers!Init
          /\ ConfiguringIdle /\ BindingIdle /\ WorldIdle /\ CatalogIdle

AdminNext ==
    \/ /\ scenario = "config" /\ Config!Next
       /\ UNCHANGED <<scenario, binding, vars, catalog, modifiers>>
    \/ /\ \/ scenario = "binding apart" /\ Apart!Next /\ ApartGoes
          \/ scenario = "binding" /\ Overlap!Next
       /\ UNCHANGED <<scenario, configuring, vars, catalog, modifiers>>
    \/ /\ \/ scenario = "pools" /\ Next /\ PoolsGoes
          \/ scenario = "events" /\ Next /\ EventsGoes
          \/ scenario = "places" /\ Next /\ PlacesGoes
       /\ UNCHANGED <<scenario, requests, configuring, binding, catalog,
                      modifiers>>
    \/ /\ \/ scenario = "graph" /\ Graph!Next
          \/ scenario = "stock" /\ Stocked!Next
       /\ UNCHANGED <<scenario, configuring, binding, vars, modifiers>>
    \/ /\ scenario = "modifiers" /\ Modifiers!Next
       /\ UNCHANGED <<scenario, configuring, binding, vars, catalog>>

AdminSpec == AdminInit /\ [][AdminNext]_allVars

-----------------------------------------------------------------------------
\* No two users have one account, whichever order their OAuth answers come back
\* in (_persist_link); a server is bound to a channel of its own; and the bot is
\* wanted in a channel exactly while a server is bound to it, if requests that
\* overlap are about different servers and channels (DiscordAdminService).
BindingsHold ==
    /\ scenario = "binding" =>
         Overlap!TypeOK /\ Overlap!OneUserPerAccount /\ Overlap!OneGuildPerChannel
    /\ scenario = "binding apart" => Apart!BotServesBoundChannels

\* Whatever requests overlap: locations and events have their types and there are
\* no more locations than may be made, the overrides of a channel make a
\* configuration that casts can read, no item grants itself through others
\* (item_dependency_validator), an edit of a modifier changes exactly the row its
\* author saw and is applied once, and no administrator's edit puts back stock
\* that was handed out.
StoredIsConsistent ==
    /\ [](/\ scenario \in {"pools", "events"} => TypeOK
          /\ scenario = "places" => TypeOK /\ LocationsFit
          /\ scenario = "modifiers" =>
               /\ Modifiers!TypeOK /\ Modifiers!AppliedOnce
               /\ Modifiers!EditsWhatItsAuthorSaw
          /\ scenario = "config" => Config!StoredConfigValid
          /\ scenario = "graph" => Graph!GraphAcyclic)
    /\ [][scenario = "stock" => Stocked!StockNeverFabricatedStep]_allVars

\* An edit commits only against the version its author saw (_check_version).
ConfigEditsSaw ==
    [][scenario = "config" => Config!EditsWhatItsAuthorSawStep]_allVars
=============================================================================
