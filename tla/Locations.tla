------------------------------ MODULE Locations ------------------------------
(***************************************************************************)
(* Where viewers fish: the locations of a channel with their rewards, the  *)
(* events that send everybody to one location, and the travel between      *)
(* locations.  Administrators in Discord edit pools and events under the   *)
(* channel's row lock, from what they read after it was taken; the older   *)
(* API of the chat and of the website takes no lock and knows no version,  *)
(* and travel looks at nothing but the pools it has listed.  The timers of *)
(* events are in EventSchedule.                                            *)
(***************************************************************************)
EXTENDS AdminRequests, FiniteSets

CONSTANTS
    Places, Default,        \* location ids; the one that cannot be deleted
    Rewards, Contents,      \* reward ids and what a reward can be
    Events, Viewers,
    Level,                  \* level of each viewer
    MaxPlaces, MaxRewards,  \* create_location: 50, _mutate_reward: 100
    OldPools, OldEvents,    \* payloads the older API is called with
    MaxOld, MaxTravels      \* bounds on calls of the older API and on travels

LocationAssumption ==
    /\ Default \in Places /\ Level \in [Viewers -> Nat]
    /\ None \notin Keys \union Handlers \union Places \union Events
    /\ {MaxPlaces, MaxRewards, MaxOld, MaxTravels} \subseteq Nat

\* What requests carry: an edit names its location or its event and the version its
\* author saw; nothing else carries a version.
PoolEdits == {"patch_location", "create_reward", "patch_reward", "delete_reward", "import_rewards"}
EventEdits == {"patch_event", "delete_event", "start_event"}
Offers == [Rewards -> Contents \union {None}]

PayloadAssumption ==
    /\ \A k \in Keys :
         LET op == OpOf[k] IN
         /\ "place" \in DOMAIN op <=> op.kind \in PoolEdits \union {"create_location", "delete_location"}
         /\ "event" \in DOMAIN op <=> op.kind \in EventEdits \union {"create_event"}
         /\ "expected" \in DOMAIN op => op.kind \in PoolEdits \union EventEdits
         /\ "place" \in DOMAIN op => op.place \in Places
         /\ "event" \in DOMAIN op => op.event \in Events
         /\ op.kind \in {"create_location", "patch_location"} => op.level \in Nat
         /\ op.kind \in {"create_reward", "patch_reward"} => op.content \in Contents
         /\ op.kind = "import_rewards" => op.rewards \in Offers
         /\ op.kind = "patch_event" => op.modifiers \in BOOLEAN
    /\ \A new \in OldPools : new.rewards \in Offers /\ new.level \in Nat
    /\ \A new \in OldEvents : new.active \in BOOLEAN

VARIABLES
    pools,      \* reward_pools: [version, rewards, level], or None
    events,     \* fishing_events: [version, override, active, review], or None
    at,         \* fishing_users.current_location_id
    chosen,     \* the location a viewer may travel to, read but not written, or None
    locked,     \* the handler that holds the channel's row, or None
    old, travels    \* history: calls of the older API, and travels

worldVars == <<pools, events, at, chosen, locked, old, travels>>
vars == <<requestVars, worldVars>>

PoolRow == [version : Nat, rewards : Offers, level : Nat]
EventRow == [version : Nat, override : Places \union {None}, active : BOOLEAN, review : BOOLEAN]
Pools == [Places -> PoolRow \union {None}]
EventTable == [Events -> EventRow \union {None}]

\* What a handler goes by after it has locked the channel's row.
Copy == [pools : Pools, events : EventTable, at : [Viewers -> Places]]

TypeOK ==
    /\ record \in [Keys -> {Answer("ok", "ok"), None}]
    /\ handler \in [Handlers -> [pc : {"free", "asked", "loaded"}, key : Keys \union {None},
                                 copy : Copy \union {None}]]
    /\ sent \in [Keys -> 0 .. Attempts]
    /\ applied \in Seq(Keys)
    /\ pools \in Pools /\ events \in EventTable
    /\ at \in [Viewers -> Places] /\ chosen \in [Viewers -> Places \union {None}]
    /\ locked \in Handlers \union {None}
    /\ old \in 0 .. MaxOld /\ travels \in 0 .. MaxTravels

NoRewards == [r \in Rewards |-> None]
NewPool == [version |-> 1, rewards |-> NoRewards, level |-> 0]

\* Migrated events are kept with requires_review; the first one is such an event.
Init ==
    /\ RequestInit
    /\ pools = [l \in Places |-> IF l = Default THEN NewPool ELSE None]
    /\ \E migrated \in SUBSET Events :
           events = [e \in Events |->
               IF e \in migrated
               THEN [version |-> 1, override |-> None, active |-> FALSE, review |-> TRUE]
               ELSE None]
    /\ at = [v \in Viewers |-> Default]
    /\ chosen = [v \in Viewers |-> None]
    /\ locked = None /\ old = 0 /\ travels = 0

Exists(table, x) == table[x] # None
Present(rewards) == {r \in Rewards : rewards[r] # None}

-----------------------------------------------------------------------------
(* Plausible bugs.                                                             *)

\* Free row: the channel is read without FOR UPDATE.
LocksNothing(h) == TRUE

\* Full, the limit is one location too late.
FullTooLate(table) == Cardinality({l \in Places : Exists(table, l)}) > MaxPlaces

\* NeedsReview, an event is activated whatever its migration said.
NeverReviewed(event) == FALSE

-----------------------------------------------------------------------------
(* Administrators in Discord                                                   *)

FreeRow(h) == locked = None

\* _authorize and _resolve_pool: the channel's row is locked, and everything the
\* operation goes by is read after that.
Authorize(h) ==
    /\ handler[h].pc = "asked"
    /\ FreeRow(h)
    /\ locked' = h
    /\ LoadCopy(h, [pools |-> pools, events |-> events, at |-> at])
    /\ UNCHANGED <<pools, events, at, chosen, old, travels>>

\* The rows a handler holds besides the channel's: the older API waits for them.
HoldsPlace(l) == \E h \in Handlers :
    handler[h].pc = "loaded" /\ "place" \in DOMAIN Op(h) /\ Op(h).place = l
HoldsEvent(e) == \E h \in Handlers :
    /\ handler[h].pc = "loaded"
    /\ \/ "event" \in DOMAIN Op(h) /\ Op(h).event = e
       \/ Op(h).kind \in {"start_event", "stop_event"}

Stale(row, h) == row.version # Op(h).expected

\* The end of an operation: it is recorded and its changes commit, or another
\* attempt has recorded it, or it is refused.
Conclude(h, why, newPools, newEvents) ==
    /\ \/ why = "ok" /\ Commit(h, why) /\ pools' = newPools /\ events' = newEvents
       \/ why = "ok" /\ Clash(h) /\ UNCHANGED <<pools, events>>
       \/ why # "ok" /\ Refuse(h, why) /\ UNCHANGED <<pools, events>>
    /\ locked' = None
    /\ UNCHANGED <<at, chosen, old, travels>>

Full(table) == Cardinality({l \in Places : Exists(table, l)}) >= MaxPlaces

CreateLocation(h) ==
    LET seen == handler[h].copy.pools
        l == Op(h).place
    IN  /\ Serves(h, "loaded", {"create_location"})
        /\ Conclude(h, CASE Full(seen) -> "full"
                         [] ~ Full(seen) /\ Exists(seen, l) -> "exists"
                         [] ~ Full(seen) /\ ~ Exists(seen, l) /\ Exists(pools, l) -> "failed"
                         [] OTHER -> "ok",
                    [pools EXCEPT ![l] = [NewPool EXCEPT !.level = Op(h).level]], events)

\* An edit of a pool: the pool must be there in the version the form was made
\* from; every edit makes a new version.
EditPool(h, why, new) ==
    LET seen == handler[h].copy.pools
        l == Op(h).place
    IN  Conclude(h, CASE ~ Exists(seen, l) -> "missing"
                      [] Exists(seen, l) /\ Stale(seen[l], h) -> "conflict"
                      [] OTHER -> why,
                 [pools EXCEPT ![l] = [new EXCEPT !.version = @ + 1]], events)

Pool(h) == IF Exists(handler[h].copy.pools, Op(h).place)
           THEN handler[h].copy.pools[Op(h).place] ELSE NewPool

PatchLocation(h) ==
    /\ Serves(h, "loaded", {"patch_location"})
    /\ EditPool(h, "ok", [Pool(h) EXCEPT !.level = Op(h).level])

CreateReward(h) ==
    /\ Serves(h, "loaded", {"create_reward"})
    /\ EditPool(h, CASE Op(h).content = "points" -> "disabled"
                     [] Op(h).content # "points"
                        /\ Cardinality(Present(Pool(h).rewards)) >= MaxRewards -> "full"
                     [] OTHER -> "ok",
                [Pool(h) EXCEPT !.rewards[Op(h).reward] = Op(h).content])

PatchReward(h) ==
    /\ Serves(h, "loaded", {"patch_reward"})
    /\ EditPool(h, CASE Op(h).content = "points" -> "disabled"
                     [] Op(h).content # "points" /\ Pool(h).rewards[Op(h).reward] = None -> "missing"
                     [] OTHER -> "ok",
                [Pool(h) EXCEPT !.rewards[Op(h).reward] = Op(h).content])

DeleteReward(h) ==
    /\ Serves(h, "loaded", {"delete_reward"})
    /\ EditPool(h, IF Pool(h).rewards[Op(h).reward] = None THEN "missing" ELSE "ok",
                [Pool(h) EXCEPT !.rewards[Op(h).reward] = None])

\* import_legacy_rewards: adds to the rewards, or takes their place.
ImportRewards(h) ==
    LET kept == IF Op(h).replace THEN NoRewards ELSE Pool(h).rewards
        new == Op(h).rewards
    IN  /\ Serves(h, "loaded", {"import_rewards"})
        /\ EditPool(h, CASE Cardinality(Present(kept)) + Cardinality(Present(new)) > MaxRewards -> "full"
                         [] Cardinality(Present(kept)) + Cardinality(Present(new)) <= MaxRewards
                            /\ Present(kept) \intersect Present(new) # {} -> "exists"
                         [] OTHER -> "ok",
                    [Pool(h) EXCEPT !.rewards =
                        [r \in Rewards |-> IF new[r] # None THEN new[r] ELSE kept[r]]])

\* delete_location: nobody stands there, and no active event sends anybody there.
InUse(l, places, table) ==
    \/ \E v \in Viewers : places[v] = l
    \/ \E e \in Events : Exists(table, e) /\ table[e].active /\ table[e].override = l

DeleteLocation(h) ==
    LET seen == handler[h].copy
        l == Op(h).place
    IN  /\ Serves(h, "loaded", {"delete_location"})
        /\ Conclude(h, CASE l = Default -> "in_use"
                         [] l # Default /\ ~ Exists(seen.pools, l) -> "missing"
                         [] l # Default /\ Exists(seen.pools, l) /\ InUse(l, seen.at, seen.events) -> "in_use"
                         [] OTHER -> "ok",
                    [pools EXCEPT ![l] = None], events)

\* _validate_event_location.
Overridable(table, l) == l = None \/ (l \in Places /\ Exists(table, l))

CreateEvent(h) ==
    LET seen == handler[h].copy
        e == Op(h).event
    IN  /\ Serves(h, "loaded", {"create_event"})
        /\ ~ Exists(events, e)          \* its id is a new one
        /\ Conclude(h, IF Overridable(seen.pools, Op(h).override) THEN "ok" ELSE "missing", pools,
                    [events EXCEPT ![e] = [version |-> 1, override |-> Op(h).override,
                                           active |-> FALSE, review |-> FALSE]])

EditEvent(h, why, new) ==
    LET seen == handler[h].copy.events
        e == Op(h).event
    IN  Conclude(h, CASE ~ Exists(seen, e) -> "missing"
                      [] Exists(seen, e) /\ Stale(seen[e], h) -> "conflict"
                      [] OTHER -> why, pools, [events EXCEPT ![e] = new])

\* What the row holds when it was locked.
Event(h) == handler[h].copy.events[Op(h).event]

\* patch_event: saving modifiers is the review of a migrated event.
PatchEvent(h) ==
    /\ Serves(h, "loaded", {"patch_event"})
    /\ EditEvent(h, IF Overridable(handler[h].copy.pools, Op(h).override) THEN "ok" ELSE "missing",
                 IF Event(h) = None THEN None
                 ELSE [Event(h) EXCEPT !.version = @ + 1, !.override = Op(h).override,
                                       !.review = @ /\ ~ Op(h).modifiers])

DeleteEvent(h) ==
    /\ Serves(h, "loaded", {"delete_event"})
    /\ EditEvent(h, "ok", None)

NeedsReview(event) == event.review

\* The table with one event active and every other one not.
OnlyActive(table, e) ==
    [f \in Events |-> IF Exists(table, f) THEN [table[f] EXCEPT !.active = (f = e)] ELSE None]

\* start_event: the review comes before the version.
StartEvent(h) ==
    LET e == Op(h).event
        seen == handler[h].copy.events
    IN  /\ Serves(h, "loaded", {"start_event"})
        /\ Conclude(h, CASE ~ Exists(seen, e) -> "missing"
                         [] Exists(seen, e) /\ NeedsReview(seen[e]) -> "review"
                         [] Exists(seen, e) /\ ~ NeedsReview(seen[e]) /\ Stale(seen[e], h) -> "conflict"
                         [] OTHER -> "ok", pools,
                    IF Event(h) = None THEN events
                    ELSE [OnlyActive(events, e) EXCEPT ![e] =
                             [Event(h) EXCEPT !.active = TRUE, !.version = @ + 1]])

StopEvent(h) ==
    /\ Serves(h, "loaded", {"stop_event"})
    /\ Conclude(h, "ok", pools,
                [f \in Events |->
                    IF Exists(events, f) /\ events[f].active
                    THEN [events[f] EXCEPT !.active = FALSE, !.version = @ + 1] ELSE events[f]])

Serve(h) ==
    \/ Authorize(h)
    \/ CreateLocation(h) \/ PatchLocation(h) \/ DeleteLocation(h)
    \/ CreateReward(h) \/ PatchReward(h) \/ DeleteReward(h) \/ ImportRewards(h)
    \/ CreateEvent(h) \/ PatchEvent(h) \/ DeleteEvent(h) \/ StartEvent(h) \/ StopEvent(h)

-----------------------------------------------------------------------------
(* The older API                                                               *)

OldCall ==
    /\ old < MaxOld /\ old' = old + 1
    /\ UNCHANGED <<requestVars, at, chosen, locked, travels>>

\* update_rewards: the pool, made if there is none, gets the payload; its version
\* stays.
UpdateRewards(l, new) ==
    /\ ~ HoldsPlace(l)
    /\ pools' = [pools EXCEPT ![l] =
           [version |-> IF Exists(pools, l) THEN pools[l].version ELSE 1,
            rewards |-> new.rewards, level |-> new.level]]
    /\ UNCHANGED events
    /\ OldCall

\* set_active_fishing_event, which refuses an event that needs a review.
Activated(table, e) ==
    IF NeedsReview(table[e]) THEN table ELSE OnlyActive(table, e)

\* create_fishing_event and update_fishing_event: no version, and modifiers saved
\* this way are no review; an activation that is refused fails the whole call.
SaveEvent(e, new) ==
    LET saved == [events EXCEPT ![e] =
            IF Exists(events, e) THEN [events[e] EXCEPT !.override = new.override]
            ELSE [version |-> 1, override |-> new.override, active |-> FALSE, review |-> FALSE]]
    IN  /\ ~ HoldsEvent(e)
        /\ Overridable(pools, new.override)
        /\ new.active => ~ NeedsReview(saved[e]) /\ \A f \in Events : ~ HoldsEvent(f)
        /\ events' = IF new.active THEN Activated(saved, e) ELSE saved
        /\ UNCHANGED pools
        /\ OldCall

\* toggle_fishing_event: off if it is the active one, otherwise on.
ToggleEvent(e) ==
    /\ Exists(events, e)
    /\ \A f \in Events : ~ HoldsEvent(f)
    /\ events' = IF events[e].active THEN OnlyActive(events, None) ELSE Activated(events, e)
    /\ UNCHANGED pools
    /\ OldCall

RemoveEvent(e) ==
    /\ Exists(events, e) /\ ~ HoldsEvent(e)
    /\ events' = [events EXCEPT ![e] = None]
    /\ UNCHANGED pools
    /\ OldCall

-----------------------------------------------------------------------------
(* Travel                                                                      *)

\* process_travel: lists the pools and takes the one the viewer names, if the
\* viewer meets its requirements.
ChooseLocation(v, l) ==
    /\ chosen[v] = None /\ travels < MaxTravels
    /\ Exists(pools, l) /\ Level[v] >= pools[l].level
    /\ chosen' = [chosen EXCEPT ![v] = l]
    /\ travels' = travels + 1
    /\ UNCHANGED <<requestVars, pools, events, at, locked, old>>

Arrive(v) ==
    /\ chosen[v] # None
    /\ at' = [at EXCEPT ![v] = chosen[v]]
    /\ chosen' = [chosen EXCEPT ![v] = None]
    /\ UNCHANGED <<requestVars, pools, events, locked, old, travels>>

EngineStops ==
    /\ Crash
    /\ locked' = None
    /\ chosen' = [v \in Viewers |-> None]
    /\ UNCHANGED <<pools, events, at, old, travels>>

OldApi ==
    \/ \E l \in Places, new \in OldPools : UpdateRewards(l, new)
    \/ \E e \in Events : (\E new \in OldEvents : SaveEvent(e, new)) \/ ToggleEvent(e) \/ RemoveEvent(e)

Next ==
    \/ \E h \in Handlers, k \in Keys : Receive(h, k) /\ UNCHANGED worldVars
    \/ \E h \in Handlers : Serve(h)
    \/ OldApi
    \/ \E v \in Viewers : Arrive(v) \/ \E l \in Places : ChooseLocation(v, l)
    \/ EngineStops

Spec == Init /\ [][Next]_vars

-----------------------------------------------------------------------------

\* One step of EditsWhatItsAuthorSaw.
EditsWhatItsAuthorSawStep ==
    \A k \in Keys :
      /\ record[k] = None /\ record'[k] # None
      /\ "expected" \in DOMAIN OpOf[k]
      => LET op == OpOf[k]
             row == IF "place" \in DOMAIN op THEN pools[op.place] ELSE events[op.event]
         IN  row # None /\ row.version = op.expected

\* An edit of a location or an event commits only against the version its author
\* saw (_check_version after the row was locked).
EditsWhatItsAuthorSaw == [][EditsWhatItsAuthorSawStep]_vars

\* One step of OverrideExistsWhenSet.
OverrideExistsWhenSetStep ==
    \A e \in Events :
      /\ events'[e] # None
      /\ events[e] = None \/ events[e].override # events'[e].override
      => Overridable(pools', events'[e].override)

\* An event is pointed only at a location that is there when it commits.
OverrideExistsWhenSet == [][OverrideExistsWhenSetStep]_vars

\* No more locations than an administrator may make ("Location limit reached").
LocationsFit == Cardinality({l \in Places : Exists(pools, l)}) <= MaxPlaces

\* A migrated event is not active before somebody reviewed it, whichever of the
\* four ways to activate an event is taken.
ActiveIsReviewed == \A e \in Events : Exists(events, e) /\ events[e].active => ~ events[e].review

\* What an administrator sees change has another version ("If another
\* administrator changes the same entity first, the backend rejects the stale
\* form"): no change of a pool leaves its version.
ChangeTellsVersion ==
    [][\A l \in Places : Exists(pools, l) /\ Exists(pools', l) /\ pools[l] # pools'[l]
            => pools'[l].version # pools[l].version]_vars

\* A location somebody stands at is not deleted ("This location is in use and
\* cannot be deleted").
ViewersStandSomewhere == \A v \in Viewers : Exists(pools, at[v])

\* Nor one that an active event sends everybody to.
ActiveEventHasPool ==
    \A e \in Events : Exists(events, e) /\ events[e].active => Overridable(pools, events[e].override)
=============================================================================
