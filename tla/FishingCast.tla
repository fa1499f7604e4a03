----------------------------- MODULE FishingCast -----------------------------
(***************************************************************************)
(* One channel's fishing casts (FishingService.process_cast) and consumed  *)
(* items (InventoryService.use_item), each a PostgreSQL transaction at     *)
(* READ COMMITTED that works on rows it has locked and writes them all at  *)
(* its commit.  A cast whose request was seen before is replayed, one that *)
(* comes too early is rejected, a robbery locks its victim too, an item    *)
(* drop locks the row of the limited stock.  The cooldown goes to Redis    *)
(* after the commit; Redis may lose it, and a worker may crash anywhere.   *)
(***************************************************************************)
EXTENDS Integers, FiniteSets

CONSTANTS
    Viewers,        \* ids of users_progress rows
    Stock,          \* the row of the limited item's stock
    Ruleset,        \* the unique hash of the rules now in force
    Known,          \* whether a snapshot of them may be recorded at first
    Requests,       \* source request ids
    Owner,          \* the viewer of each request
    Workers,        \* requests served at a time
    None,
    Earlier,        \* masses a known viewer may have at first
    Deltas,         \* masses a catch may give or take
    Cooldowns,      \* cooldowns a cast may be subject to, 0 is none
    Stock0, Slots,  \* units of the limited item; slots of an inventory
    MaxTime, MaxCalls, MaxUses, MaxCrashes, MaxLosses   \* bounds

FishingAssumption ==
    /\ Viewers # {} /\ Stock \notin Viewers /\ Ruleset \notin Viewers \union {Stock}
    /\ Known \subseteq BOOLEAN /\ Owner \in [Requests -> Viewers]
    /\ Workers # {} /\ None \notin Viewers \union Requests \union Workers \union {Stock, Ruleset}
    /\ Deltas \subseteq Int /\ Earlier \subseteq Nat /\ Cooldowns \subseteq Nat /\ Cooldowns # {}
    /\ Stock0 \in Nat /\ Slots \in Nat
    /\ {MaxTime, MaxCalls, MaxUses, MaxCrashes, MaxLosses} \subseteq Nat

VARIABLES
    users,      \* committed users_progress rows, None before the first cast
    ledger,     \* fishing_casts, the one row a request id may have
    stock,      \* committed remaining_quantity
    ruleset,    \* whether a snapshot of the rules in force is committed
    holder,     \* the worker whose transaction has locked a row
    redis,      \* when the cooldown key of a viewer expires
    now,
    job,        \* what each worker does
    applied,    \* history: mass that landed on a viewer, as reported
    spent       \* history: how much of each bound is used up

data == <<users, ledger, stock, ruleset, applied>>
vars == <<data, holder, redis, now, job, spent>>

-----------------------------------------------------------------------------

\* users_progress with the units of the limited item in and out of the bag.
Row == [mass : Nat, fish : Nat, bag : Nat, parked : Nat]
NewRow == [mass |-> 0, fish |-> 0, bag |-> 0, parked |-> 0]

Cast == [status : {"none", "rejected", "failed", "resolved"},
         answer : Row \union {None},    \* response_snapshot
         checked : Nat, wait : Nat,     \* when it was let through, its cooldown
         until : Nat]                   \* next_available_at
NoCast == [status |-> "none", answer |-> None, checked |-> 0, wait |-> 0,
           until |-> 0]

Lockable == Viewers \union {Stock, Ruleset}

Idle == [pc |-> "idle", request |-> None, viewer |-> None, started |-> 0,
         checked |-> 0, wait |-> 0,
         mine |-> None, gained |-> 0, victim |-> None, his |-> None, landed |-> 0,
         drop |-> FALSE, left |-> None]

Job == [pc : {"idle", "own", "check", "roll", "victim", "drop",
              "commit", "insert", "after", "failing", "taken", "held"},
        request : Requests \union {None}, viewer : Viewers \union {None},
        started : Nat, checked : Nat, wait : Nat,
        mine : Row \union {None},       \* its rows, written at the commit
        victim : Viewers \union {None}, his : Row \union {None},
        gained : Int, landed : Int,     \* what it reports to have moved
        drop : BOOLEAN,                 \* an item was selected
        left : Nat \union {None}]       \* the stock as seen, then as reserved

TypeOK ==
    /\ users \in [Viewers -> Row \union {None}]
    /\ ledger \in [Requests -> Cast]
    /\ stock \in 0 .. Stock0 /\ ruleset \in BOOLEAN
    /\ holder \in [Lockable -> Workers \union {None}]
    /\ redis \in [Viewers -> Nat]
    /\ now \in 0 .. MaxTime
    /\ job \in [Workers -> Job]
    /\ applied \in [Viewers -> Int]
    /\ spent \in [calls : 0 .. MaxCalls, uses : 0 .. MaxUses,
                  crashes : 0 .. MaxCrashes, losses : 0 .. MaxLosses]

MassOf(v) == IF users[v] = None THEN 0 ELSE users[v].mass

Init ==
    /\ users \in [Viewers -> {None} \union {[NewRow EXCEPT !.mass = m] : m \in Earlier}]
    /\ ledger = [r \in Requests |-> NoCast]
    /\ stock = Stock0 /\ ruleset \in Known
    /\ holder = [x \in Lockable |-> None]
    /\ redis = [v \in Viewers |-> 0]
    /\ now = 0
    /\ job = [w \in Workers |-> Idle]
    /\ applied = [v \in Viewers |-> MassOf(v)]
    /\ spent = [calls |-> 0, uses |-> 0, crashes |-> 0, losses |-> 0]

-----------------------------------------------------------------------------
(* Plausible bugs.  Each takes the place of the operator its comment names in  *)
(* a mutation test: the property it is aimed at must notice.  Two more stand   *)
(* before LetThrough and Commit.                                               *)

\* Floored, no floor at all.
Unfloored(mass, delta) == mass + delta

\* VictimsRow, the instance of the unlocked query kept.
VictimAsPicked(w) == job[w].his

\* Reservable, the stock as it was when the item was selected.
StockAsSelected(w) == job[w].left

\* CoolingDown, Redis believed when it knows of no cooldown.
CoolingInRedis(v) == redis[v] > now

\* Fails, the failure recorded before the transaction is rolled back.
FailsHolding(w) ==
    /\ job' = [job EXCEPT ![w].pc = "failing"]
    /\ holder' = holder
    /\ UNCHANGED data

-----------------------------------------------------------------------------

\* apply_mass_mutation without a protected floor: the mass after a delta.
Floored(mass, delta) == IF mass + delta < 0 THEN 0 ELSE mass + delta

Released(w) == [x \in Lockable |-> IF holder[x] = w THEN None ELSE holder[x]]

Locks(w, x) ==
    /\ holder[x] = None
    /\ holder' = [holder EXCEPT ![x] = w]

Charge(bound) == spent' = [spent EXCEPT ![bound] = @ + 1]

\* The transaction rolls back; then another one records the failure.
Fails(w) ==
    /\ job' = [job EXCEPT ![w].pc = "failing"]
    /\ holder' = Released(w)
    /\ UNCHANGED data

-----------------------------------------------------------------------------
(* process_cast *)

\* A request arrives, for the first time or again.
Call(w, r) ==
    /\ job[w].pc = "idle" /\ spent.calls < MaxCalls
    /\ job' = [job EXCEPT ![w] = [Idle EXCEPT !.pc = "own", !.request = r,
                                    !.viewer = Owner[r], !.started = now]]
    /\ Charge("calls")
    /\ UNCHANGED <<data, holder, redis, now>>

\* acquire_fishing_lock and the row lock; a new viewer's row is created.
LockOwn(w) ==
    LET j == job[w]
        v == j.viewer IN
    /\ j.pc = "own"
    /\ Locks(w, v)
    /\ job' = [job EXCEPT ![w] =
         [j EXCEPT !.pc = "check", !.mine = IF users[v] = None THEN NewRow ELSE users[v]]]
    /\ UNCHANGED <<data, redis, now, spent>>

\* find_replay: the row of the request, when it holds a response.
Replays(r) == ledger[r].answer # None

\* The answer of the processed cast is returned again.
Replay(w) ==
    /\ job[w].pc = "check" /\ Replays(job[w].request)
    /\ job' = [job EXCEPT ![w] = Idle]
    /\ holder' = Released(w)
    /\ UNCHANGED <<data, redis, now, spent>>

\* The latest next_available_at of the viewer's processed casts is still to come.
Durable(v) ==
    \E r \in Requests : Owner[r] = v /\ ledger[r].status = "resolved" /\ ledger[r].until > now

\* check_cooldown: Redis first, the ledger when Redis knows nothing.
CoolingDown(v) == redis[v] > now \/ Durable(v)

\* record_rejected; its insert fails when the request already has a row.
\* The rows of a first cast, profile and rejection, are committed together.
Reject(w, d) ==
    LET j == job[w] IN
    /\ j.pc = "check" /\ ~Replays(j.request) /\ d > 0 /\ CoolingDown(j.viewer)
    /\ IF ledger[j.request].status # "none"
       THEN Fails(w)
       ELSE /\ ledger' = [ledger EXCEPT ![j.request].status = "rejected"]
            /\ users' = [users EXCEPT ![j.viewer] = j.mine]
            /\ job' = [job EXCEPT ![w] = Idle]
            /\ holder' = Released(w)
            /\ UNCHANGED <<stock, ruleset, applied>>
    /\ UNCHANGED <<redis, now, spent>>

\* LetThrough, the cooldown written before the transaction commits.
CoolsDownAtOnce(w, d) ==
    LET j == job[w] IN
    /\ j.pc = "check" /\ ~Replays(j.request) /\ ~(d > 0 /\ CoolingDown(j.viewer))
    /\ job' = [job EXCEPT ![w] = [j EXCEPT !.pc = "roll", !.checked = now, !.wait = d]]
    /\ redis' = IF d > 0 THEN [redis EXCEPT ![j.viewer] = now + d] ELSE redis
    /\ UNCHANGED <<data, holder, now, spent>>

LetThrough(w, d) ==
    LET j == job[w] IN
    /\ j.pc = "check" /\ ~Replays(j.request) /\ ~(d > 0 /\ CoolingDown(j.viewer))
    /\ job' = [job EXCEPT ![w] = [j EXCEPT !.pc = "roll", !.checked = now, !.wait = d]]
    /\ UNCHANGED <<data, holder, redis, now, spent>>

\* The caught fish counts; the selection of an item sees the stock unlocked.
Caught(w, pc, mass, dropped) ==
    LET j == job[w] IN
    /\ dropped => stock > 0
    /\ job' = [job EXCEPT ![w] =
         [j EXCEPT !.pc = pc, !.drop = dropped, !.left = stock,
                   !.gained = mass - j.mine.mass,
                   !.mine = [j.mine EXCEPT !.fish = j.mine.fish + 1, !.mass = mass]]]

Catch(w) ==
    /\ job[w].pc = "roll"
    /\ \E d \in Deltas, dropped \in BOOLEAN :
         Caught(w, IF dropped THEN "drop" ELSE "commit",
                Floored(job[w].mine.mass, d), dropped)
    /\ UNCHANGED <<data, holder, redis, now, spent>>

\* get_rich_victim: somebody at least as heavy, else anybody with mass.
Victims(v, mass) ==
    LET heavy == {u \in Viewers \ {v} : users[u] # None /\ users[u].mass > 0}
        heavier == {u \in heavy : users[u].mass >= mass}
    IN IF heavier # {} THEN heavier ELSE heavy

\* A robbery picks its victim before it locks anything of the victim's.
PickVictim(w) ==
    LET j == job[w] IN
    /\ j.pc = "roll"
    /\ \E dropped \in BOOLEAN :
         LET after == IF dropped THEN "drop" ELSE "commit"
             found == Victims(j.viewer, j.mine.mass) IN
         /\ dropped => stock > 0
         /\ IF found = {}
            THEN Caught(w, after, j.mine.mass, dropped)
            ELSE \E u \in found :
                   job' = [job EXCEPT ![w] =
                     [j EXCEPT !.pc = "victim", !.victim = u, !.his = users[u],
                               !.drop = dropped, !.left = stock]]
    /\ UNCHANGED <<data, holder, redis, now, spent>>

\* lock_users: the victim is read again under the lock (populate_existing).
VictimsRow(w) == users[job[w].victim]

\* What the victim has to lose lands on the robber; a defence or a counter may
\* cost the robber instead; or nothing happens.
Rob(w) ==
    LET j == job[w]
        his == VictimsRow(w) IN
    /\ j.pc = "victim"
    /\ Locks(w, j.victim)
    /\ \E wanted \in {0} \union {d \in Deltas : d > 0},
          cost \in {0} \union {-d : d \in {c \in Deltas : c < 0}} :
         LET left == Floored(his.mass, -wanted)
             taken == his.mass - left
             mass == Floored(j.mine.mass, -cost) + taken IN
         job' = [job EXCEPT ![w] =
           [j EXCEPT !.pc = IF j.drop THEN "drop" ELSE "commit",
                     !.mine = [j.mine EXCEPT !.fish = j.mine.fish + 1, !.mass = mass],
                     !.gained = mass - j.mine.mass,
                     !.his = [his EXCEPT !.mass = left],
                     !.landed = -taken]]
    /\ UNCHANGED <<data, redis, now, spent>>

\* The locked row is what a reservation counts from.
Reservable(w) == stock

\* reserve and deliver: to the bag, parked when it is full, or not delivered
\* with its stock spent.  An item nobody may own fails the cast.
Drop(w) ==
    LET j == job[w]
        left == Reservable(w) IN
    /\ j.pc = "drop"
    /\ UNCHANGED <<data, redis, now, spent>>
    /\ \/ /\ left > 0 /\ holder[Stock] = None
          /\ Fails(w)
       \/ /\ Locks(w, Stock)
          /\ job' = [job EXCEPT ![w] =
               IF left <= 0
               THEN [j EXCEPT !.pc = "commit", !.drop = FALSE]
               ELSE [j EXCEPT !.pc = "commit", !.left = left - 1,
                              !.mine = IF j.mine.bag < Slots
                                       THEN [j.mine EXCEPT !.bag = j.mine.bag + 1]
                                       ELSE [j.mine EXCEPT !.parked = j.mine.parked + 1]]]
       \/ /\ left > 0 /\ job[w].mine.bag >= Slots
          /\ Locks(w, Stock)
          /\ job' = [job EXCEPT ![w] = [j EXCEPT !.pc = "commit", !.left = left - 1]]

\* What the transaction of a cast leaves in the tables.
Writes(w) ==
    LET j == job[w]
        mine == [users EXCEPT ![j.viewer] = j.mine]
        gain == [applied EXCEPT ![j.viewer] = @ + j.gained]
    IN
    /\ users' = IF j.victim = None THEN mine ELSE [mine EXCEPT ![j.victim] = j.his]
    /\ applied' = IF j.victim = None THEN gain
                  ELSE [gain EXCEPT ![j.victim] = @ + j.landed]
    /\ stock' = IF j.drop THEN j.left ELSE stock
    /\ ruleset' = TRUE

\* get_or_create_ruleset_snapshot finds no snapshot of the rules ...
MissRuleset(w) ==
    /\ job[w].pc = "commit" /\ ~ruleset /\ holder[Ruleset] # w
    /\ job' = [job EXCEPT ![w].pc = "insert"]
    /\ UNCHANGED <<data, holder, redis, now, spent>>

\* ... and inserts one, once the cast that is inserting the same has ended.
InsertRuleset(w) ==
    /\ job[w].pc = "insert"
    /\ IF ruleset
       THEN Fails(w)
       ELSE /\ Locks(w, Ruleset)
            /\ job' = [job EXCEPT ![w].pc = "commit"]
            /\ UNCHANGED data
    /\ UNCHANGED <<redis, now, spent>>

\* Commit, an insert the ledger refuses is only logged.
CommitsUnrecorded(w) ==
    LET j == job[w] IN
    /\ j.pc = "commit" /\ (ruleset \/ holder[Ruleset] = w)
    /\ Writes(w)
    /\ ledger' = IF ledger[j.request].status # "none" THEN ledger
                 ELSE [ledger EXCEPT ![j.request] =
                   [status |-> "resolved", answer |-> j.mine, checked |-> j.checked,
                    wait |-> j.wait,
                    until |-> IF j.wait > 0 THEN j.started + j.wait ELSE 0]]
    /\ job' = [job EXCEPT ![w] = Idle]
    /\ holder' = Released(w)
    /\ UNCHANGED <<redis, now, spent>>

\* record_resolved and the commit; the unique index on the request id.
Commit(w) ==
    LET j == job[w] IN
    /\ j.pc = "commit" /\ (ruleset \/ holder[Ruleset] = w)
    /\ IF ledger[j.request].status # "none"
       THEN Fails(w)
       ELSE /\ Writes(w)
            /\ ledger' = [ledger EXCEPT ![j.request] =
                 [status |-> "resolved", answer |-> j.mine, checked |-> j.checked,
                  wait |-> j.wait,
                  until |-> IF j.wait > 0 THEN j.started + j.wait ELSE 0]]
            /\ job' = [job EXCEPT ![w] =
                 IF j.wait > 0 THEN [j EXCEPT !.pc = "after"] ELSE Idle]
            /\ holder' = Released(w)
    /\ UNCHANGED <<redis, now, spent>>

\* The callback after the commit; an error of Redis is swallowed.
SetCooldown(w) ==
    LET j == job[w] IN
    /\ j.pc = "after"
    /\ \/ redis' = [redis EXCEPT ![j.viewer] = now + j.wait] /\ UNCHANGED spent
       \/ spent.losses < MaxLosses /\ Charge("losses") /\ UNCHANGED redis
    /\ job' = [job EXCEPT ![w] = Idle]
    /\ UNCHANGED <<data, holder, now>>

\* _record_failed_cast: a foreign key needs the viewer's row, which nobody else
\* may have locked; a row the request already has keeps it out.
RecordFailed(w) ==
    LET j == job[w] IN
    /\ j.pc = "failing" /\ holder[j.viewer] = None
    /\ ledger' = IF users[j.viewer] = None \/ ledger[j.request].status # "none"
                 THEN ledger
                 ELSE [ledger EXCEPT ![j.request].status = "failed"]
    /\ job' = [job EXCEPT ![w] = Idle]
    /\ UNCHANGED <<users, stock, ruleset, applied, holder, redis, now, spent>>

-----------------------------------------------------------------------------
(* InventoryService.use_item, for an item whose effect is grant_mass *)

\* The row is read without a lock ...
UseItem(w, v) ==
    /\ job[w].pc = "idle" /\ spent.uses < MaxUses /\ users[v] # None
    /\ job' = [job EXCEPT ![w] = [Idle EXCEPT !.pc = "taken", !.viewer = v,
                                              !.mine = users[v]]]
    /\ Charge("uses")
    /\ UNCHANGED <<data, holder, redis, now>>

\* ... and the query that locks it hands out the instance already read.
LockUsed(w) ==
    /\ job[w].pc = "taken"
    /\ Locks(w, job[w].viewer)
    /\ job' = [job EXCEPT ![w].pc = "held"]
    /\ UNCHANGED <<data, redis, now, spent>>

\* Only the column that was assigned is written.
UsedUp(w) ==
    LET j == job[w] IN
    /\ j.pc = "held"
    /\ \E d \in Deltas \ {0} :
         LET mass == Floored(j.mine.mass, d) IN
         /\ users' = IF mass = j.mine.mass THEN users
                     ELSE [users EXCEPT ![j.viewer].mass = mass]
         /\ applied' = [applied EXCEPT ![j.viewer] = @ + mass - j.mine.mass]
    /\ job' = [job EXCEPT ![w] = Idle]
    /\ holder' = Released(w)
    /\ UNCHANGED <<ledger, stock, ruleset, redis, now, spent>>

-----------------------------------------------------------------------------
(* PostgreSQL, Redis and the machine *)

\* The lock a worker cannot go on without.
Wants(w) ==
    CASE job[w].pc \in {"own", "taken", "failing"} -> job[w].viewer
      [] job[w].pc = "victim" -> job[w].victim
      [] job[w].pc = "drop" -> Stock
      [] job[w].pc = "insert" -> Ruleset
      [] OTHER -> None

\* Transactions each of which waits for another of them and is waited for.
Deadlocked(S) ==
    /\ \A w \in S : Wants(w) # None
    /\ {holder[Wants(w)] : w \in S} = S

\* The detector aborts one of them; only casts hold a lock they wait with.
Abort(w) ==
    /\ \E S \in SUBSET Workers : w \in S /\ Deadlocked(S)
    /\ Fails(w)
    /\ UNCHANGED <<redis, now, spent>>

Crash(w) ==
    /\ job[w].pc # "idle" /\ spent.crashes < MaxCrashes
    /\ job' = [job EXCEPT ![w] = Idle]
    /\ holder' = Released(w)
    /\ Charge("crashes")
    /\ UNCHANGED <<data, redis, now>>

RedisLoses(v) ==
    /\ redis[v] > now /\ spent.losses < MaxLosses
    /\ redis' = [redis EXCEPT ![v] = 0]
    /\ Charge("losses")
    /\ UNCHANGED <<data, holder, now, job>>

Tick ==
    /\ now < MaxTime
    /\ now' = now + 1
    /\ UNCHANGED <<data, holder, redis, job, spent>>

Works(w) ==
    \/ Replay(w) \/ (\E d \in Cooldowns : Reject(w, d) \/ LetThrough(w, d))
    \/ Catch(w) \/ PickVictim(w) \/ MissRuleset(w) \/ Commit(w) \/ SetCooldown(w)
    \/ UsedUp(w) \/ Abort(w)

Waits(w) ==
    LockOwn(w) \/ Rob(w) \/ Drop(w) \/ InsertRuleset(w) \/ RecordFailed(w) \/ LockUsed(w)

Next ==
    \/ \E w \in Workers : \/ Works(w) \/ Waits(w) \/ Crash(w)
                          \/ \E r \in Requests : Call(w, r)
                          \/ \E v \in Viewers : UseItem(w, v)
    \/ \E v \in Viewers : RedisLoses(v)
    \/ Tick

Spec == Init /\ [][Next]_vars

\* A served request is run to its end and PostgreSQL queues lock requests, so
\* a lock that keeps coming free is granted; its detector runs after a second.
Fairness == \A w \in Workers : WF_vars(Works(w)) /\ SF_vars(Waits(w))

FairSpec == Spec /\ Fairness

-----------------------------------------------------------------------------
(* Properties *)

Rows(v, status) == {r \in Requests : Owner[r] = v /\ ledger[r].status = status}

\* Whatever is retried, delivered twice, aborted or cut off by a crash, a
\* viewer's total_fish_stat is the number of casts the ledger holds as
\* processed: no cast counts without its row, and none counts twice.
EveryFishHasItsRow ==
    \A v \in Viewers :
        (IF users[v] = None THEN 0 ELSE users[v].fish)
            = Cardinality(Rows(v, "resolved"))

\* A viewer's mass is what its catches, its robberies and the robberies of
\* others were reported to have moved: nobody writes back a row that somebody
\* changed in between.
MassAccounted ==
    \A v \in Viewers : MassOf(v) = applied[v]

\* The units of the limited item a viewer holds or has parked, and those of all.
Units(v) == IF users[v] = None THEN 0 ELSE users[v].bag + users[v].parked
HandedOut == UNION {{v} \X (1 .. Units(v)) : v \in Viewers}

\* The units of a limited item that viewers hold or have parked came out of its
\* stock: concurrent drops never hand out a unit twice.
NeverOversold == stock + Cardinality(HandedOut) <= Stock0

\* One step of CooldownHeld.
CooldownHeldStep ==
    \A r \in Requests :
       ledger'[r].status = "resolved" /\ ledger[r] # ledger'[r]
          /\ ledger'[r].wait > 0
       => \A q \in Rows(Owner[r], "resolved") : ledger[q].until <= ledger'[r].checked

\* A viewer is never let through to a cast that has a cooldown while the one
\* of an earlier cast lasts, even when Redis lost the key or the worker died
\* before it could write it.
CooldownHeld == [][CooldownHeldStep]_vars

\* A viewer whose casts were all rolled back is not made to wait: Redis holds a
\* cooldown only of a cast that is in the ledger.
NoCooldownWithoutCast ==
    \A v \in Viewers :
        redis[v] > 0 => \E r \in Rows(v, "resolved") : ledger[r].wait > 0

\* Every request that was taken up is answered, two viewers who rob each other
\* at once included.
EveryCallAnswered == \A w \in Workers : job[w].pc # "idle" ~> job[w].pc = "idle"

\* What the ledger says of itself (ledger_service.py, record_rejected): a
\* rejected attempt is kept apart, so it stops no cast from being processed.
RejectedKeptSeparate ==
    [][\A w \in Workers :
         job[w].pc = "commit" /\ job'[w].pc = "failing"
         => ledger[job[w].request].status # "rejected"]_vars

\* What _record_failed_cast says it is for: the ledger is complete, a cast that
\* failed has left a row of its request.
LedgerComplete ==
    [][\A w \in Workers :
         job[w].pc = "failing" /\ job'[w].pc = "idle" /\ spent' = spent
         => ledger'[job[w].request].status # "none"]_vars

\* What the repository of casts says it does (ruleset_snapshot_repo.py): it
\* deduplicates ruleset snapshots, so casts under the same rules share one and
\* no cast is lost because another one is recording it.
RulesetsDeduplicated ==
    [][\A w \in Workers : job[w].pc = "insert" => job'[w].pc # "failing"]_vars
=============================================================================
