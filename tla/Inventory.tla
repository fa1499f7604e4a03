------------------------------ MODULE Inventory ------------------------------
(***************************************************************************)
(* One player's inventory, equipment and overflow mailbox.  Whatever       *)
(* changes them locks the player's row first, so each operation is one     *)
(* step; what it read before the lock is a step of its own: the idempotent *)
(* replay of a use, and what an administrator saw on the screen.  The      *)
(* number of slots is read before the lock too, from modifiers that come   *)
(* and go, so every step may work with any of the Limits.                  *)
(***************************************************************************)
EXTENDS InventoryPlacement, FiniteSets

CONSTANTS
    Items, ShapesOf,    \* items of the channel, definitions each may be given
    Gear, GearOf,       \* equipment slots, and the one each item fits or Absent
    Grants,             \* grant_item effects of an item: <<item, units>>, in order
    Drops,              \* what one roll of an item's loot table may yield
    Limits,             \* slots the player may have
    Keys, Requests,     \* idempotency keys of uses; requests served at a time
    None, ChargeCost,
    MaxUnits, MaxParks, MaxEdits    \* bounds

InventoryAssumption ==
    /\ Limits \subseteq Nat \ {0}
    /\ GearOf \in [Items -> Gear \union {Absent}]
    /\ ChargeCost \in Nat \ {0} /\ {MaxUnits, MaxParks, MaxEdits} \subseteq Nat

VARIABLES
    def,        \* item_definitions
    inv,        \* inventory_items by slot
    equipped,   \* equipped_items: the inventory slot in each equipment slot
    parked,     \* inventory_overflow_items still parked, oldest first
    uses,       \* inventory_item_use_records: the item a key has used
    request,    \* use requests between the unlocked replay and the lock
    seen,       \* the row an administrator has on the screen
    owed,       \* history: units of each item the player should have
    spent       \* history: how much of each bound is used up

held == <<inv, equipped, parked, seen>>
vars == <<def, held, uses, request, owed, spent>>

Idle == [pc |-> "idle", key |-> None, slot |-> 0]

Init ==
    /\ def \in {f \in [Items -> UNION {ShapesOf[i] : i \in Items}] :
                    \A i \in Items : f[i] \in ShapesOf[i]}
    /\ inv = [s \in {} |-> None]
    /\ equipped = [g \in Gear |-> Absent]
    /\ parked = <<>>
    /\ uses = [k \in Keys |-> None]
    /\ request = [r \in Requests |-> Idle]
    /\ seen = None
    /\ owed = [i \in Items |-> 0]
    /\ spent = [parks |-> 0, edits |-> 0]

-----------------------------------------------------------------------------
(* Plausible bugs.  Each takes the place of the operator its comment names in  *)
(* a mutation test: the property it is aimed at must notice.                   *)

\* ClaimStep, a row that does not fit is passed over and not the end.
ClaimPassesOver(acc, row, max) ==
    LET d == def[row.item]
        g == Grant(acc.inv, d, row.item, row.quantity, Fresh(d, Plain), Absent, max)
    IN  IF row.old \/ g.why # "ok"
        THEN [acc EXCEPT !.kept = Append(@, row)]
        ELSE [acc EXCEPT !.inv = g.inv, !.touched = @ \union g.touched]

\* Recorded, nobody looks again once the player is locked.
NotLookedUp(k) == FALSE

\* Cascade, the equipment keeps pointing at a row that is gone.
NoCascade(gone) == equipped

\* Bumped, a row that is merely used keeps its version.
OnlyNew(slots) == slots \ DOMAIN inv

\* UsedUp, the last unit leaves its row behind.
NeverUsedUp(row, d) == FALSE

\* Outdated, the clock of a parked row is read from the wrong end.
NeverOutdated(row) == FALSE

-----------------------------------------------------------------------------

\* What the deletion of rows takes with it (equipped_items, ON DELETE CASCADE).
Cascade(gone) == [g \in Gear |-> IF equipped[g] \in gone THEN Absent ELSE equipped[g]]

\* The rows whose version an operation that changed `slots` moves on.
Bumped(slots) == slots

\* The screen of the administrator when the rows of `gone` are deleted and
\* those of `slots` get another version.
Screen(gone, slots) ==
    CASE seen = None -> None
      [] seen # None /\ seen.slot \in gone -> None
      [] OTHER -> [seen EXCEPT !.same = @ /\ seen.slot \notin Bumped(slots)]

Without(f, gone) == [s \in DOMAIN f \ gone |-> f[s]]

\* One parked row of claim_available: past its 24 hours it is not listed, one
\* that does not fit ends the deliveries, one of an archived item stays parked.
ClaimStep(acc, row, max) ==
    LET d == def[row.item]
        g == Grant(acc.inv, d, row.item, row.quantity, Fresh(d, Plain), Absent, max)
    IN  IF acc.full \/ row.old \/ g.why # "ok"
        THEN [acc EXCEPT !.kept = Append(@, row),
                         !.full = @ \/ (~ row.old /\ g.why = "full")]
        ELSE [acc EXCEPT !.inv = g.inv, !.touched = @ \union g.touched]

ClaimAvailable(rows, mail, max) ==
    FoldLeft(LAMBDA acc, row : ClaimStep(acc, row, max),
             [inv |-> rows, kept |-> <<>>, touched |-> {}, full |-> FALSE], mail)

\* Leaves the inventory and the mailbox as `after` says.
Leave(after, gone, slots) ==
    /\ inv' = after.inv /\ parked' = after.kept
    /\ equipped' = Cascade(gone)
    /\ seen' = Screen(gone, slots \union after.touched)

\* Leaves the inventory with `rows`, after deleting `gone` and changing
\* `slots`; a freed slot is offered to the parked rows.
Settle(rows, mail, gone, slots, max) ==
    Leave(IF gone = {} THEN [inv |-> rows, kept |-> mail, touched |-> {}]
          ELSE ClaimAvailable(rows, mail, max), gone, slots)

\* A drop goes into the inventory or, when it does not fit, to the overflow
\* (LootTableRollService.deliver).
Deliver(rows, mail, item, n, max) ==
    LET g == Grant(rows, def[item], item, n, Fresh(def[item], Plain), Absent, max)
        row == [id |-> spent.parks + 1, item |-> item, quantity |-> n, old |-> FALSE]
    IN  CASE g.why = "ok" -> [why |-> "ok", inv |-> g.inv, mail |-> mail,
                              touched |-> g.touched]
          [] g.why = "full" -> [why |-> "ok", inv |-> g.inv, mail |-> Append(mail, row),
                                touched |-> {}]
          [] OTHER -> [why |-> "invalid", inv |-> rows, mail |-> mail, touched |-> {}]

\* Several grants, all of them or none (grant_many).
GrantMany(rows, grants, max) ==
    LET done == FoldLeft(
            LAMBDA acc, g :
                LET d == def[g[1]]
                    one == Grant(acc.inv, d, g[1], g[2], Fresh(d, Plain), Absent, max)
                IN  IF acc.why # "ok" THEN acc
                    ELSE [one EXCEPT !.touched = @ \union acc.touched],
            [why |-> "ok", inv |-> rows, touched |-> {}], grants)
    IN  IF done.why = "ok" THEN done ELSE Refused(rows, done.why)

Asked(i) == FoldLeft(LAMBDA n, g : n + IF g[1] = i THEN g[2] ELSE 0, 0, Grants[i])
Total(f) == FoldFunction(LAMBDA a, b : a + b, 0, f)
Room(n) == Total(owed) + n <= MaxUnits

-----------------------------------------------------------------------------

\* Slots, and conditions an administrator may ask for.
AllSlots == 1 .. CHOOSE m \in Limits : \A l \in Limits : l <= m
Likes == [durability : {Absent, 0, 1}, charges : {Absent, 2}, meta : {Plain}]

\* An administrator grants units, into a slot or in a condition of choice
\* (grant_player_item, admin_service.grant_item_to_player).
AdminGrant(i, n) ==
    /\ Room(n)
    /\ \E like \in Likes, slot \in AllSlots \union {Absent}, max \in Limits :
        LET d == def[i]
            g == Grant(inv, d, i, n, like, slot, max)
        IN  /\ like.durability # Absent <=> d.wear # Absent
            /\ like.charges # Absent <=> d.charges # Absent
            /\ d.wear # Absent => like.durability \in 0 .. d.wear
            /\ d.charges # Absent => like.charges \in 0 .. d.charges
            /\ g.why = "ok"
            /\ inv' = g.inv
            /\ seen' = Screen({}, g.touched)
    /\ owed' = [owed EXCEPT ![i] = @ + n]
    /\ UNCHANGED <<def, equipped, parked, uses, request, spent>>

\* The item drop of a cast (FishingService, LootTableRollService.deliver); a
\* definition archived since the table was read fails the cast.
CastDrop(i, n) ==
    /\ Room(n) /\ spent.parks < MaxParks
    /\ \E max \in Limits :
        LET d == Deliver(inv, parked, i, n, max)
        IN  /\ d.why = "ok"
            /\ inv' = d.inv /\ parked' = d.mail
            /\ seen' = Screen({}, d.touched)
            /\ spent' = [spent EXCEPT !.parks = @ + IF d.mail = parked THEN 0 ELSE 1]
    /\ owed' = [owed EXCEPT ![i] = @ + n]
    /\ UNCHANGED <<def, equipped, uses, request>>

\* use_item up to the lock: a use with this key is not recorded yet.
AskUse(r, k, s) ==
    /\ request[r].pc = "idle" /\ uses[k] = None
    /\ request' = [request EXCEPT ![r] = [pc |-> "waiting", key |-> k, slot |-> s]]
    /\ UNCHANGED <<def, held, uses, owed, spent>>

Recorded(k) == uses[k] # None

\* What one use leaves of a row: a charge less, or a unit less.
Used(row, d) ==
    IF d.charges # Absent
    THEN [row EXCEPT !.charges = (IF @ = Absent THEN 0 ELSE @) - ChargeCost]
    ELSE [row EXCEPT !.quantity = @ - 1]

UsedUp(row, d) ==
    IF d.charges # Absent THEN Used(row, d).charges <= 0 ELSE Used(row, d).quantity = 0

\* Units a use takes: one when the row loses a unit or its last charge.
Taken(row, d) == IF d.charges = Absent \/ UsedUp(row, d) THEN 1 ELSE 0

Answer(r, pc) == request' = [request EXCEPT ![r] = [Idle EXCEPT !.pc = pc]]

\* What a use has `got` from the loot table and was `given` takes its places.
SettleUse(s, gone, got, given, max) ==
    /\ got.why = "ok" /\ given.why = "ok"
    /\ Settle(given.inv, got.mail, gone, {s} \union got.touched \union given.touched, max)
    /\ spent' = [spent EXCEPT !.parks = @ + IF got.mail = parked THEN 0 ELSE 1]

\* use_item under the lock, for a key that is not recorded: the record, one unit
\* or charge, a drop of the loot table or the granted items, then the overflow.
\* The request fails as a whole when the granted items do not fit.
Consume(r, drop, max) ==
    LET s == request[r].slot
        row == inv[s]
        d == def[row.item]
        gone == IF UsedUp(row, d) THEN {s} ELSE {}
        rest == IF gone = {} THEN [inv EXCEPT ![s] = Used(row, d)] ELSE Without(inv, gone)
        got == IF drop = None
               THEN [why |-> "ok", inv |-> rest, mail |-> parked, touched |-> {}]
               ELSE Deliver(rest, parked, drop[1], drop[2], max)
    IN  /\ s \in DOMAIN inv /\ d.kind \in {"consumable", "lootbox"}
        /\ SettleUse(s, gone, got, GrantMany(got.inv, Grants[row.item], max), max)
        /\ uses' = [uses EXCEPT ![request[r].key] = row.item]
        /\ owed' = [i \in Items |->
              owed[i] - (IF i = row.item THEN Taken(row, d) ELSE 0)
                      + (IF drop # None /\ drop[1] = i THEN drop[2] ELSE 0)
                      + FoldLeft(LAMBDA n, g : n + IF g[1] = i THEN g[2] ELSE 0,
                                 0, Grants[row.item])]

\* Once the player is locked the key is looked up again; a use recorded
\* meanwhile is answered with its response, and a second record of a key would
\* break the unique constraint.
Use(r) ==
    /\ request[r].pc = "waiting"
    /\ CASE Recorded(request[r].key) ->
              Answer(r, "idle") /\ UNCHANGED <<held, uses, owed, spent>>
         [] ~ Recorded(request[r].key) /\ uses[request[r].key] # None ->
              Answer(r, "clashed") /\ UNCHANGED <<held, uses, owed, spent>>
         [] OTHER ->
              \/ /\ Answer(r, "idle")        \* what can fail, fails
                 /\ UNCHANGED <<held, uses, owed, spent>>
              \/ /\ Answer(r, "idle")
                 /\ spent.parks < MaxParks
                 /\ \E max \in Limits, drop \in {None} \union
                        (IF request[r].slot \in DOMAIN inv
                         THEN Drops[inv[request[r].slot].item] ELSE {}) :
                        /\ Room(IF drop = None THEN 0 ELSE drop[2])
                        /\ Consume(r, drop, max)
    /\ UNCHANGED def

\* equip: a row of equipment that is not broken takes the equipment slot.
Equip(s) ==
    /\ s \in DOMAIN inv
    /\ LET row == inv[s] IN
        /\ def[row.item].kind = "equipment"
        /\ row.durability # 0
        /\ equipped' = [equipped EXCEPT ![GearOf[row.item]] = s]
    /\ UNCHANGED <<def, inv, parked, seen, uses, request, owed, spent>>

Unequip(g) ==
    /\ equipped[g] # Absent
    /\ equipped' = [equipped EXCEPT ![g] = Absent]
    /\ UNCHANGED <<def, inv, parked, seen, uses, request, owed, spent>>

\* trash: a row that is not equipped is deleted.
Trash(s) ==
    /\ s \in DOMAIN inv /\ \A g \in Gear : equipped[g] # s
    /\ \E max \in Limits : Settle(Without(inv, {s}), parked, {s}, {}, max)
    /\ owed' = [owed EXCEPT ![inv[s].item] = @ - inv[s].quantity]
    /\ UNCHANGED <<def, uses, request, spent>>

\* consume_durability: equipment wears down; at zero it breaks as its policy
\* says, and what is broken already does not break again.
WearDown(g, n) ==
    LET s == equipped[g]
        row == inv[s]
        left == IF row.durability > n THEN row.durability - n ELSE 0
        breaks == left = 0
        policy == def[row.item].policy
    IN  /\ s # Absent
        /\ row.durability # Absent /\ row.durability # 0
        /\ \E max \in Limits :
            IF breaks /\ policy = "destroy_at_zero"
            THEN Settle(Without(inv, {s}), parked, {s}, {}, max)
            ELSE /\ inv' = [inv EXCEPT ![s].durability = left]
                 /\ equipped' = IF breaks /\ policy = "unequip_broken"
                                THEN [equipped EXCEPT ![g] = Absent] ELSE equipped
                 /\ seen' = Screen({}, {s})
                 /\ UNCHANGED parked
        /\ owed' = [owed EXCEPT ![row.item] =
              @ - IF breaks /\ policy = "destroy_at_zero" THEN row.quantity ELSE 0]
        /\ UNCHANGED <<def, uses, request, spent>>

\* An administrator opens the inventory (get_player_inventory_admin).
Look(s) ==
    /\ s \in DOMAIN inv
    /\ seen' = [slot |-> s, row |-> inv[s], same |-> TRUE]
    /\ UNCHANGED <<def, inv, equipped, parked, uses, request, owed, spent>>

\* revoke_player_item: takes units of the row on the screen, unless the row is
\* gone or its version has moved on.
Revoke(n) ==
    /\ seen # None /\ seen.same
    /\ LET s == seen.slot
           row == inv[s]
       IN  /\ n <= row.quantity
           /\ IF n = row.quantity
              THEN \E max \in Limits : Settle(Without(inv, {s}), parked, {s}, {}, max)
              ELSE /\ inv' = [inv EXCEPT ![s].quantity = @ - n]
                   /\ seen' = Screen({}, {s})
                   /\ UNCHANGED <<equipped, parked>>
           /\ owed' = [owed EXCEPT ![row.item] = @ - n]
    /\ UNCHANGED <<def, uses, request, spent>>

\* claim_player_overflow: the parked rows an administrator picked, in the order
\* of the request.  A row that does not fit is reported and the next one tried;
\* one of an archived item fails the whole request.
Claim(batch) ==
    /\ \E max \in Limits :
        LET try(acc, id) ==
                LET at == {j \in DOMAIN acc.mail : acc.mail[j].id = id /\ ~ acc.mail[j].old}
                    row == acc.mail[CHOOSE j \in at : TRUE]
                    d == def[row.item]
                    g == Grant(acc.inv, d, row.item, row.quantity, Fresh(d, Plain), Absent, max)
                IN  IF at = {} THEN acc
                    ELSE CASE g.why = "ok" ->
                                [acc EXCEPT !.inv = g.inv, !.touched = @ \union g.touched,
                                            !.mail = SelectSeq(@, LAMBDA p : p.id # id)]
                           [] g.why = "full" -> acc
                           [] OTHER -> [acc EXCEPT !.ok = FALSE]
            done == FoldLeft(try, [inv |-> inv, mail |-> parked, touched |-> {}, ok |-> TRUE],
                             batch)
        IN  /\ done.ok /\ done.mail # parked
            /\ inv' = done.inv /\ parked' = done.mail
            /\ seen' = Screen({}, done.touched)
    /\ UNCHANGED <<def, equipped, uses, request, owed, spent>>

\* 24 hours have passed since the oldest of the rows was parked (OVERFLOW_TTL).
Age ==
    \E j \in DOMAIN parked :
        /\ ~ parked[j].old /\ \A k \in 1 .. j - 1 : parked[k].old
        /\ parked' = [parked EXCEPT ![j].old = TRUE]
        /\ UNCHANGED <<def, inv, equipped, seen, uses, request, owed, spent>>

Outdated(row) == row.old

\* The retention job deletes the outdated rows (delete_expired).
Sweep ==
    LET out == SelectSeq(parked, Outdated) IN
    /\ out # <<>>
    /\ parked' = SelectSeq(parked, LAMBDA row : ~ Outdated(row))
    /\ owed' = [i \in Items |->
          owed[i] - FoldLeft(LAMBDA n, row : n + IF row.item = i THEN row.quantity ELSE 0,
                             0, out)]
    /\ UNCHANGED <<def, inv, equipped, seen, uses, request, spent>>

\* upsert_item and archive_item put another definition in force.  A trigger of
\* the database refuses one that leaves a row with more charges than it allows.
Edit(i, d) ==
    /\ spent.edits < MaxEdits /\ d # def[i]
    /\ \A s \in DOMAIN inv :
          inv[s].item = i /\ inv[s].charges # Absent =>
              d.charges # Absent /\ inv[s].charges <= d.charges
    /\ def' = [def EXCEPT ![i] = d]
    /\ spent' = [spent EXCEPT !.edits = @ + 1]
    /\ UNCHANGED <<held, uses, request, owed>>

-----------------------------------------------------------------------------

\* Requests of an administrator for one parked row or for two.
Batches == {<<a>> : a \in 1 .. MaxParks}
           \union {<<a, b>> : a, b \in 1 .. MaxParks}

Next ==
    \/ \E i \in Items, n \in 1 .. 2 : AdminGrant(i, n) \/ CastDrop(i, n)
    \/ \E r \in Requests, k \in Keys, s \in AllSlots : AskUse(r, k, s)
    \/ \E r \in Requests : Use(r)
    \/ \E s \in AllSlots : Equip(s) \/ Trash(s) \/ Look(s)
    \/ \E g \in Gear : Unequip(g) \/ WearDown(g, 1)
    \/ \E n \in 1 .. 2 : Revoke(n)
    \/ \E batch \in Batches : Claim(batch)
    \/ Age
    \/ Sweep
    \/ \E i \in Items, d \in UNION {ShapesOf[j] : j \in Items} : d \in ShapesOf[i] /\ Edit(i, d)

Spec == Init /\ [][Next]_vars

\* Time passes and the retention job comes round (worker_main runs it hourly).
FairSpec == Spec /\ WF_vars(Age) /\ WF_vars(Sweep)

-----------------------------------------------------------------------------

Parked(i) ==
    FoldLeft(LAMBDA n, row : n + IF row.item = i THEN row.quantity ELSE 0, 0, parked)

TypeOK ==
    /\ \A i \in Items : def[i] \in ShapesOf[i]
    /\ DOMAIN inv \subseteq AllSlots
    /\ \A s \in DOMAIN inv :
          /\ inv[s].item \in Items /\ inv[s].quantity \in 1 .. MaxUnits
          /\ inv[s].durability \in Nat \union {Absent}
          /\ inv[s].charges \in Nat \union {Absent}
    /\ equipped \in [Gear -> AllSlots \union {Absent}]
    /\ owed \in [Items -> Nat]
    /\ \A j \in DOMAIN parked : parked[j].quantity \in 1 .. MaxUnits

\* Every unit granted or dropped is in a slot or parked, until it is used,
\* trashed, broken, revoked or swept: a grant that finds no room halfway, a
\* failed use or two claims of a parked row neither lose nor double a unit
\* (grant_many's savepoint, deliver, claim_available).
Accounted == \A i \in Items : Units(inv, i) + Parked(i) = owed[i]

\* What is equipped is a row the player has, of equipment that fits, and one
\* row is not worn in two places, whichever way the row goes (equipped_items).
EquippedIsHeld ==
    /\ \A g \in Gear : equipped[g] # Absent =>
          /\ equipped[g] \in DOMAIN inv
          /\ GearOf[inv[equipped[g]].item] = g
    /\ \A g, h \in Gear : g # h /\ equipped[g] # Absent => equipped[g] # equipped[h]

\* A row whose version has not moved since an administrator looked is what the
\* administrator saw: a revocation that passes the version check takes units of
\* that row and of no other (revoke_player_item, _check_version).
VersionTellsChange ==
    seen # None /\ seen.same =>
        seen.slot \in DOMAIN inv /\ inv[seen.slot] = seen.row

\* Of two requests that use an item with one key, one consumes and the other is
\* answered with its response: the retry neither fails nor consumes again.
RetryIsReplayed == \A r \in Requests : request[r].pc # "clashed"

\* One step of OldestFirst.
OldestFirstStep ==
    (\E s \in AllSlots : Trash(s)) =>
        LET Left(j) == \A k \in DOMAIN parked' : parked'[k].id # parked[j].id
        IN  \A j, k \in DOMAIN parked :
               k < j /\ Left(j) =>
                   Left(k) \/ parked[k].old \/ ~ def[parked[k].item].active

\* A slot that becomes free goes to the oldest parked row: a younger one is
\* delivered only when every older one that is still listed has been, or is of
\* an archived item (claim_available).
OldestFirst == [][OldestFirstStep]_vars

\* A parked row does not stay in the mailbox for ever: it is claimed, or it
\* grows old and is swept (delete_expired).
ParkedLeaves ==
    \A id \in 1 .. MaxParks :
        (\E j \in DOMAIN parked : parked[j].id = id)
            ~> (\A j \in DOMAIN parked : parked[j].id # id)

\* "a charge-based consumable is a single instance (stack_size 1) because each
\* instance tracks its own charges" (models.py:249).  A use of such a row
\* consumes its charges and with the last of them the row.
ChargedIsSingle ==
    \A s \in DOMAIN inv : def[inv[s].item].charges # Absent => inv[s].quantity = 1

\* "A full inventory must never lose a finite-stock drop" (models.py:1304): a
\* parked drop stays until it has been claimed.
DropIsNeverLost ==
    [][\A i \in Items : Parked(i)' < Parked(i) => Units(inv', i) > Units(inv, i)]_vars
=============================================================================
