----------------------------- MODULE ItemCatalog -----------------------------
(***************************************************************************)
(* The items of a channel and the drops of one location: definitions with  *)
(* the items their effects grant, the entries of the location's loot table *)
(* and their stock, edited by administrators in Discord and through the    *)
(* older API while casts and lootboxes roll the table.  A roll selects     *)
(* from what it has read without a lock and then reserves from the stock   *)
(* row it locks.  Where a drop goes is in Inventory.                       *)
(***************************************************************************)
EXTENDS AdminRequests, FiniteSets

CONSTANTS
    Items,
    Given,          \* [defs, entries] of the channel when the run starts
    Rollers,        \* casts and uses of lootboxes
    MaxRolls,       \* rolls of one use; a cast rolls once
    MaxQuantity,    \* a drop's largest quantity
    OldItems,       \* [item, grants, rolls, expected] the older API is called with
    MaxOld          \* bound on calls of the older API

CatalogAssumption == {MaxRolls, MaxQuantity, MaxOld} \subseteq Nat

VARIABLES
    defs,       \* item_definitions: [version, active, grants, rolls], or None
    entries,    \* loot_table_entries: [id, version, stock], or None; stock None is unlimited
    roller,     \* a cast or use: [pc, seen, item, quantity, rolls, took]
    locked,     \* the handler that holds the channel's row, or None
    older,      \* the call the older API works on: [payload, copy], or None
    made, old   \* ids given to entries; history: calls of the older API

catalogVars == <<defs, entries, roller, locked, older, made, old>>
vars == <<requestVars, catalogVars>>

Idle == [pc |-> "idle", seen |-> None, item |-> None, quantity |-> 0, rolls |-> 0, took |-> {}]

Init ==
    /\ RequestInit
    /\ defs = Given.defs /\ entries = Given.entries
    /\ roller = [r \in Rollers |-> Idle]
    /\ locked = None /\ older = None
    /\ made = Cardinality(Items) /\ old = 0

Exists(table, i) == table[i] # None

-----------------------------------------------------------------------------
(* Plausible bugs.                                                             *)

\* FreeRow, the channel is read without FOR UPDATE.
LocksNothing == TRUE

\* Remaining, the stock that was read with the candidates is reserved from.
RemainingWhenSeen(r) == roller[r].seen[roller[r].item].stock

\* Waits, locks are taken out of a roll as if nobody held them.
NeverWaits(r, s) == FALSE

\* Deadlocked, nobody looks for cycles of waiting transactions.
NeverDeadlocked(r) == FALSE

-----------------------------------------------------------------------------
(* What an item may lead to                                                    *)

\* _dependencies: the items an item's effects grant, and those of the table.
Leads(d, e, i) ==
    d[i].grants \union (IF d[i].rolls THEN {j \in Items : Exists(e, j)} ELSE {})

\* validate_item_dependency_graph: no positive cycle among the items there are,
\* archived ones among them.
Acyclic(d, e) ==
    \A S \in SUBSET {i \in Items : Exists(d, i)} :
        S # {} => \E i \in S : Leads(d, e, i) \intersect S = {}

-----------------------------------------------------------------------------
(* Administrators in Discord                                                   *)

FreeRow == locked = None

\* The operation's reads.  upsert_item and upsert_item_drop lock the channel's
\* row before they read; the two others read without.
Load(h) ==
    /\ handler[h].pc = "asked"
    /\ IF Op(h).kind \in {"upsert_item", "upsert_drop"}
       THEN FreeRow /\ locked' = h
       ELSE UNCHANGED locked
    /\ LoadCopy(h, [defs |-> defs, entries |-> entries])
    /\ UNCHANGED <<defs, entries, roller, older, made, old>>

Conclude(h, why, newDefs, newEntries) ==
    /\ \/ why = "ok" /\ Commit(h, why) /\ defs' = newDefs /\ entries' = newEntries
       \/ why = "ok" /\ Clash(h) /\ UNCHANGED <<defs, entries>>
       \/ why # "ok" /\ Refuse(h, why) /\ UNCHANGED <<defs, entries>>
    /\ locked' = IF locked = h THEN None ELSE locked
    /\ UNCHANGED <<roller, older, old>>

\* The row an UPDATE leaves: columns that do not differ from the copy the session
\* holds keep what somebody else wrote.  An edit makes the item active again.
Rewritten(row, copy, new) ==
    [version |-> copy.version + 1,
     active |-> IF copy.active THEN row.active ELSE TRUE,
     grants |-> IF new.grants = copy.grants THEN row.grants ELSE new.grants,
     rolls |-> IF new.rolls = copy.rolls THEN row.rolls ELSE new.rolls]

Made(new) == [version |-> 1, active |-> TRUE, grants |-> new.grants, rolls |-> new.rolls]

\* upsert_item: the definition is read, then its row locked, which leaves the
\* copy as it is; the version of the copy is compared.
UpsertItem(h) ==
    LET i == Op(h).item
        copy == handler[h].copy.defs[i]
        seen == handler[h].copy
        graph == [seen.defs EXCEPT ![i] = Made(Op(h))]
    IN  /\ Serves(h, "loaded", {"upsert_item"})
        /\ Conclude(h,
              CASE copy # None /\ Op(h).expected = None -> "exists"
                [] ~ (copy # None /\ Op(h).expected = None) /\ ~ Acyclic(graph, seen.entries) -> "cycle"
                [] copy # None /\ Op(h).expected \notin {None, copy.version}
                   /\ Acyclic(graph, seen.entries) -> "conflict"
                [] copy = None /\ Exists(defs, i) /\ Acyclic(graph, seen.entries) -> "failed"
                [] OTHER -> "ok",
              [defs EXCEPT ![i] = IF copy = None THEN Made(Op(h)) ELSE Rewritten(@, copy, Op(h))],
              entries)
        /\ UNCHANGED made

\* archive_item: the row is read as it is locked.
ArchiveItem(h) ==
    LET i == Op(h).item IN
    /\ Serves(h, "loaded", {"archive_item"})
    /\ Conclude(h, CASE ~ Exists(defs, i) -> "missing"
                     [] Exists(defs, i) /\ defs[i].version # Op(h).expected -> "conflict"
                     [] OTHER -> "ok",
                IF Exists(defs, i)
                THEN [defs EXCEPT ![i].active = FALSE, ![i].version = @ + 1] ELSE defs,
                entries)
    /\ UNCHANGED made

\* A roller holds the stock rows it has reserved from, up to its commit.
Holds(r, id) == \E t \in roller[r].took : t.id = id /\ t.row
StockFree(i) == Exists(entries, i) => \A r \in Rollers : ~ Holds(r, entries[i].id)

\* upsert_item_drop: the item's definition was read before; the entry and the
\* stock are locked when they are read.
UpsertDrop(h) ==
    LET i == Op(h).item
        seen == handler[h].copy.defs
        entry == entries[i]
        new == IF entry = None THEN [id |-> made + 1, version |-> 1, stock |-> Op(h).stock]
               ELSE [entry EXCEPT !.version = @ + 1, !.stock = Op(h).stock]
        after == [entries EXCEPT ![i] = new]
    IN  /\ Serves(h, "loaded", {"upsert_drop"})
        /\ StockFree(i)
        /\ Conclude(h,
              CASE ~ Exists(seen, i) -> "missing"
                [] Exists(seen, i) /\ ~ seen[i].active -> "archived"
                [] Exists(seen, i) /\ seen[i].active /\ (entry = None) # (Op(h).expected = None) -> "conflict"
                [] Exists(seen, i) /\ seen[i].active /\ entry # None
                   /\ Op(h).expected \notin {None, entry.version} -> "conflict"
                [] Exists(seen, i) /\ seen[i].active /\ (entry = None) = (Op(h).expected = None)
                   /\ (entry # None => Op(h).expected = entry.version)
                   /\ ~ Acyclic(seen, [handler[h].copy.entries EXCEPT ![i] = new]) -> "cycle"
                [] OTHER -> "ok",
              defs, after)
        /\ made' = IF entries' # entries /\ entry = None THEN made + 1 ELSE made

\* remove_item_drop: the entry goes, and its stock with it.
RemoveDrop(h) ==
    LET i == Op(h).item IN
    /\ Serves(h, "loaded", {"remove_drop"})
    /\ StockFree(i)
    /\ Conclude(h, CASE ~ Exists(entries, i) -> "missing"
                     [] Exists(entries, i) /\ entries[i].version # Op(h).expected -> "conflict"
                     [] OTHER -> "ok",
                defs, [entries EXCEPT ![i] = None])
    /\ UNCHANGED made

-----------------------------------------------------------------------------
(* The older API                                                               *)

\* AdminService.upsert_item_definition: the graph is validated against what is
\* there, and then the definition written, with no lock held in between.
OldReads(new) ==
    /\ older = None /\ old < MaxOld
    /\ Acyclic([defs EXCEPT ![new.item] = Made(new)], entries)
    /\ older' = [payload |-> new, copy |-> defs[new.item]]
    /\ old' = old + 1
    /\ UNCHANGED <<requestVars, defs, entries, roller, locked, made>>

OldWrites ==
    LET new == older.payload
        copy == older.copy
    IN  /\ older # None
        /\ \A h \in Handlers :      \* UPDATE waits for a handler with the row
               ~ (handler[h].pc = "loaded" /\ Op(h).kind = "upsert_item" /\ Op(h).item = new.item)
        /\ defs' = CASE copy = None /\ ~ Exists(defs, new.item) -> [defs EXCEPT ![new.item] = Made(new)]
                     [] copy # None /\ new.expected = copy.version ->
                            [defs EXCEPT ![new.item] = Rewritten(@, copy, new)]
                     [] OTHER -> defs
        /\ older' = None
        /\ UNCHANGED <<requestVars, entries, roller, locked, made, old>>

-----------------------------------------------------------------------------
(* Rolls                                                                       *)

\* resolve_candidates: entries and their stock, without a lock.
Start(r) ==
    /\ roller[r].pc = "idle"
    /\ \E i \in Items : Exists(entries, i)
    /\ roller' = [roller EXCEPT ![r] = [Idle EXCEPT !.pc = "loaded", !.seen = entries]]
    /\ UNCHANGED <<requestVars, defs, entries, locked, older, made, old>>

Candidates(r) == {i \in Items : Exists(roller[r].seen, i) /\ roller[r].seen[i].stock # 0}

\* select_item_drop: any candidate that is not exhausted, in any quantity.
Select(r) ==
    /\ roller[r].pc = "loaded" /\ roller[r].rolls < MaxRolls
    /\ \E i \in Candidates(r), q \in 1 .. MaxQuantity :
           roller' = [roller EXCEPT ![r].pc = "selected", ![r].item = i, ![r].quantity = q]
    /\ UNCHANGED <<requestVars, defs, entries, locked, older, made, old>>

Wanted(r) == roller[r].seen[roller[r].item].id

\* Units reserved by r so far from an entry.
Reserved(r, id) == IF Holds(r, id) THEN (CHOOSE t \in roller[r].took : t.id = id).units ELSE 0

\* The entry a roll selected, if it is still there.
Found(r) == Exists(entries, roller[r].item) /\ entries[roller[r].item].id = Wanted(r)

\* What the locked stock row holds for this transaction, or None without a row.
Remaining(r) ==
    IF ~ Found(r) \/ entries[roller[r].item].stock = None THEN None
    ELSE entries[roller[r].item].stock - Reserved(r, Wanted(r))

\* r waits for the stock row s holds.
Waits(r, s) == r # s /\ roller[r].pc = "selected" /\ Holds(s, Wanted(r))

\* reserve_loot_table_entry_stock: no row means no limit; otherwise as much as is
\* left.  The snapshot of the next roll learns what is left.
Reserve(r) ==
    LET left == Remaining(r)
        units == CASE left = None -> roller[r].quantity
                   [] left # None /\ left < roller[r].quantity -> left
                   [] OTHER -> roller[r].quantity
        took == {t \in roller[r].took : t.id # Wanted(r)}
                \union {[id |-> Wanted(r), item |-> roller[r].item,
                         row |-> left # None, units |-> Reserved(r, Wanted(r)) + units]}
    IN  /\ roller[r].pc = "selected"
        /\ \A s \in Rollers : ~ Waits(r, s)
        /\ roller' = [roller EXCEPT ![r] = [roller[r] EXCEPT
               !.pc = "loaded", !.took = took, !.item = None,
               !.quantity = 0, !.rolls = @ + 1,
               !.seen = IF left = None THEN @ ELSE [@ EXCEPT ![roller[r].item].stock = left - units]]]
        /\ UNCHANGED <<requestVars, defs, entries, locked, older, made, old>>

\* The transaction commits when every drop could be granted: definitions of
\* archived items are not found, and the cast or use fails as a whole.
Deliverable(r) == \A t \in roller[r].took : Exists(defs, t.item) /\ defs[t.item].active

Finish(r) ==
    /\ roller[r].pc = "loaded"
    /\ IF Deliverable(r)
       THEN entries' = [i \in Items |->
                IF Exists(entries, i) /\ entries[i].stock # None
                THEN [entries[i] EXCEPT !.stock = @ - Reserved(r, entries[i].id)] ELSE entries[i]]
       ELSE UNCHANGED entries
    /\ roller' = [roller EXCEPT ![r] = [Idle EXCEPT !.pc = IF Deliverable(r) THEN "done" ELSE "failed"]]
    /\ UNCHANGED <<requestVars, defs, locked, older, made, old>>

\* PostgreSQL ends one of the transactions that wait for each other.
Deadlocked(r) == \E s \in Rollers : Waits(r, s) /\ \E t \in Rollers : Waits(s, t) /\ (t = r \/ Waits(t, r))

Abort(r) ==
    /\ Deadlocked(r)
    /\ roller' = [roller EXCEPT ![r] = [Idle EXCEPT !.pc = "aborted"]]
    /\ UNCHANGED <<requestVars, defs, entries, locked, older, made, old>>

Roll(r) == Start(r) \/ Select(r) \/ Reserve(r) \/ Finish(r) \/ Abort(r)

EngineStops ==
    /\ Crash
    /\ locked' = None /\ older' = None
    /\ roller' = [r \in Rollers |-> IF roller[r].pc \in {"loaded", "selected"} THEN Idle ELSE roller[r]]
    /\ UNCHANGED <<defs, entries, made, old>>

Serve(h) ==
    Load(h) \/ UpsertItem(h) \/ ArchiveItem(h) \/ UpsertDrop(h) \/ RemoveDrop(h)

Next ==
    \/ \E h \in Handlers, k \in Keys : Receive(h, k) /\ UNCHANGED catalogVars
    \/ \E h \in Handlers : Serve(h)
    \/ \E new \in OldItems : OldReads(new)
    \/ OldWrites
    \/ \E r \in Rollers : Roll(r)
    \/ EngineStops

Spec == Init /\ [][Next]_vars

\* A started roll goes on: select_item_drop comes to an end, PostgreSQL grants
\* locks and breaks deadlocks.
Fairness ==
    \A r \in Rollers : WF_vars(Select(r) \/ Reserve(r) \/ Finish(r) \/ Abort(r))
LiveSpec == Spec /\ Fairness

-----------------------------------------------------------------------------

\* "Reject any positive item/lootbox dependency cycle in one channel"
\* (item_dependency_validator), whatever is edited at the same time: using an item
\* never grants it back.
GraphAcyclic == Acyclic(defs, entries)

\* An edit of an item or a drop commits only against the version its author saw.
EditsWhatItsAuthorSaw ==
    [][\A k \in Keys :
        /\ record[k] = None /\ record'[k] # None
        /\ OpOf[k].expected # None
        => LET op == OpOf[k]
               row == IF op.kind \in {"upsert_item", "archive_item"} THEN defs[op.item]
                      ELSE entries[op.item]
           IN  row # None /\ row.version = op.expected]_vars

\* One step of StockNeverFabricated.
StockNeverFabricatedStep ==
    \A r \in Rollers : roller[r].pc = "loaded" /\ roller'[r].pc = "done" =>
      \A t \in roller[r].took :
          roller[r].seen[t.item].stock # None =>
              /\ Exists(entries, t.item) /\ entries[t.item].id = t.id
              /\ entries[t.item].stock >= t.units
              /\ entries'[t.item].stock = entries[t.item].stock - t.units

\* "stock exhaustion is reported, never silently fabricated"
\* (consume_loot_table_entry_stock): a roll that selected an entry with a stock
\* takes out of that entry what it grants, and never more than was left.
StockNeverFabricated == [][StockNeverFabricatedStep]_vars

\* "Archived items cannot be dropped" (upsert_item_drop): no cast fails because it
\* was given an item that is archived.
DropsAreActive == \A r \in Rollers : roller[r].pc # "failed"

\* A cast or use that reserves stock comes to an end, though two of them may lock
\* the rows in different orders.
RollsEnd == \A r \in Rollers :
    roller[r].pc = "selected" ~> roller[r].pc \in {"idle", "done", "failed", "aborted"}
=============================================================================
