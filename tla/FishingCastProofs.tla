---------------------------- MODULE FishingCastProofs ----------------------------
(***************************************************************************)
(* The safety of a cast, for any number of viewers, requests and workers:  *)
(* each fish has its row in the ledger, nobody is let through while an     *)
(* earlier cast's cooldown lasts, nobody cools down without a cast, mass   *)
(* is what was reported, and no more units are handed out than there are.  *)
(* The argument: from the check of the cooldown to the commit a worker     *)
(* holds the fisher's row, and a robber the victim's from the robbery on;  *)
(* whoever does not hold a row changes neither its fish nor its casts.     *)
(***************************************************************************)
EXTENDS FishingCast, FiniteSetTheorems, TLAPS

NoneApart == None \notin Row
Finite == IsFiniteSet(Requests)

FishOf(v) == IF users[v] = None THEN 0 ELSE users[v].fish

Decided == {"drop", "commit", "insert"}         \* the fish counts
LetIn == {"roll", "victim"} \union Decided      \* the cooldown was checked
InCast == {"check"} \union LetIn                \* the fisher's row is held

\* What a worker has in hand agrees with the rows it holds.
Holds(w) ==
    LET j == job[w] IN
    /\ j.pc \in InCast \union {"own", "after", "failing"} =>
          j.request \in Requests /\ j.viewer = Owner[j.request]
    /\ j.pc \in InCast \union {"held"} => holder[j.viewer] = w
    /\ j.pc \in InCast => j.mine \in Row
    /\ j.pc \in {"own", "check", "roll"} => j.victim = None
    /\ j.pc = "victim" =>
          j.victim \in Viewers /\ j.victim # j.viewer /\ users[j.victim] # None
    /\ j.pc \in Decided /\ j.victim # None =>
          /\ j.victim \in Viewers /\ j.victim # j.viewer /\ holder[j.victim] = w
          /\ j.his \in Row /\ j.his.fish = FishOf(j.victim) /\ users[j.victim] # None
    /\ j.pc \in InCast \ Decided => j.mine.fish = FishOf(j.viewer)
    /\ j.pc \in Decided => j.mine.fish = FishOf(j.viewer) + 1
    /\ j.pc \in {"taken", "held"} =>
          j.viewer \in Viewers /\ j.mine \in Row /\ users[j.viewer] # None
    /\ j.pc \notin InCast \union {"held"} => \A x \in Lockable : holder[x] # w
    /\ j.drop => j.left \in 0 .. Stock0

\* A worker that was let through is past every cooldown; one that is about to
\* write a cooldown has its cast in the ledger.
Cools(w) ==
    LET j == job[w] IN
    /\ j.pc \in LetIn /\ j.wait > 0 =>
          \A q \in Rows(j.viewer, "resolved") : ledger[q].until <= j.checked
    /\ j.pc = "after" =>
          j.wait > 0 /\ ledger[j.request].status = "resolved" /\ ledger[j.request].wait = j.wait

CastInv ==
    /\ TypeOK
    /\ \A w \in Workers : Holds(w) /\ Cools(w)
    /\ EveryFishHasItsRow
    /\ NoCooldownWithoutCast

-----------------------------------------------------------------------------
(* What a worker leaves alone *)

\* Only worker w goes on, it takes only free locks and gives up only its own, and
\* it changes the fish and the casts only of viewers whose rows it holds.
Alone(w) ==
    /\ \A u \in Workers : u # w => job'[u] = job[u]
    /\ \A u \in Workers, x \in Lockable : u # w => (holder'[x] = u <=> holder[x] = u)
    /\ \A v \in Viewers : holder[v] # w => FishOf(v)' = FishOf(v)
    /\ \A v \in Viewers : users[v] # None => users'[v] # None
    /\ \A r \in Requests : ledger[r].status = "resolved" => ledger'[r] = ledger[r]
    /\ \A r \in Requests :
          ledger'[r].status = "resolved" /\ ledger[r].status # "resolved" => holder[Owner[r]] = w

LEMMA OthersKept ==
    ASSUME FishingAssumption, CastInv, NEW w \in Workers, Alone(w), NEW u \in Workers, u # w
    PROVE  Holds(u)' /\ Cools(u)'
<1> DEFINE j == job[u]
<1>1. job'[u] = j BY DEF Alone
<1>2. Holds(u) /\ Cools(u) /\ j \in Job BY DEF CastInv, TypeOK
<1>3. \A v \in Viewers : holder[v] = u => holder'[v] = u /\ FishOf(v)' = FishOf(v)
  BY DEF Alone, Lockable
<1>4. j.pc \in InCast \union {"own", "after", "failing"} => j.viewer \in Viewers
  BY <1>2 DEF Holds, FishingAssumption
<1>5. Holds(u)'
  BY <1>1, <1>2, <1>3, <1>4 DEF Holds, Alone, InCast, LetIn, Decided
<1>6. ASSUME j.pc \in LetIn, j.wait > 0, NEW q \in Rows(j.viewer, "resolved")'
      PROVE ledger'[q].until <= j.checked
  <2>1. q \in Requests /\ Owner[q] = j.viewer /\ ledger'[q].status = "resolved"
    BY <1>1, <1>6 DEF Rows
  <2>2. holder[j.viewer] = u BY <1>2, <1>6 DEF Holds, InCast
  <2>3. ledger[q].status = "resolved" BY <2>1, <2>2 DEF Alone
  <2> QED BY <1>2, <1>6, <2>1, <2>3 DEF Alone, Rows, Cools
<1>7. j.pc = "after" => j.wait > 0 /\ ledger'[j.request].status = "resolved" /\ ledger'[j.request].wait = j.wait
  BY <1>2 DEF Holds, Cools, Alone
<1>8. Cools(u)' BY <1>1, <1>6, <1>7 DEF Cools
<1> QED BY <1>5, <1>8

-----------------------------------------------------------------------------
(* Steps of one worker *)

HolderType == [Lockable -> Workers \union {None}]
SpentType == [calls : 0 .. MaxCalls, uses : 0 .. MaxUses, crashes : 0 .. MaxCrashes, losses : 0 .. MaxLosses]

\* Others hold what they held.
Respects(w) ==
    /\ holder' \in HolderType
    /\ \A u \in Workers, x \in Lockable : u # w => (holder'[x] = u <=> holder[x] = u)

LEMMA ReleasedRespects ==
    ASSUME FishingAssumption, CastInv, NEW w \in Workers, holder' = Released(w)
    PROVE  Respects(w) /\ \A x \in Lockable : holder'[x] # w
BY DEF CastInv, TypeOK, Released, Respects, HolderType, FishingAssumption

LEMMA LocksRespects ==
    ASSUME FishingAssumption, CastInv, NEW w \in Workers, NEW x \in Lockable, Locks(w, x)
    PROVE  /\ Respects(w) /\ holder'[x] = w
           /\ \A y \in Lockable : holder[y] = w => holder'[y] = w
BY DEF CastInv, TypeOK, Locks, Respects, HolderType, FishingAssumption

LEMMA SameRespects ==
    ASSUME CastInv, NEW w \in Workers, UNCHANGED holder
    PROVE  Respects(w)
BY DEF CastInv, TypeOK, Respects, HolderType

LEMMA Charged ==
    ASSUME FishingAssumption, CastInv,
           \/ Charge("calls") /\ spent.calls < MaxCalls
           \/ Charge("uses") /\ spent.uses < MaxUses
           \/ Charge("crashes") /\ spent.crashes < MaxCrashes
           \/ Charge("losses") /\ spent.losses < MaxLosses
    PROVE  spent' \in SpentType
<1>1. spent \in SpentType BY DEF CastInv, TypeOK, SpentType
<1>2. /\ spent.calls \in 0 .. MaxCalls /\ spent.uses \in 0 .. MaxUses
      /\ spent.crashes \in 0 .. MaxCrashes /\ spent.losses \in 0 .. MaxLosses
      /\ MaxCalls \in Nat /\ MaxUses \in Nat /\ MaxCrashes \in Nat /\ MaxLosses \in Nat
  BY <1>1 DEF SpentType, FishingAssumption
<1>3. CASE Charge("calls") /\ spent.calls < MaxCalls BY <1>1, <1>2, <1>3 DEF Charge, SpentType
<1>4. CASE Charge("uses") /\ spent.uses < MaxUses BY <1>1, <1>2, <1>4 DEF Charge, SpentType
<1>5. CASE Charge("crashes") /\ spent.crashes < MaxCrashes BY <1>1, <1>2, <1>5 DEF Charge, SpentType
<1>6. CASE Charge("losses") /\ spent.losses < MaxLosses BY <1>1, <1>2, <1>6 DEF Charge, SpentType
<1> QED BY <1>3, <1>4, <1>5, <1>6

\* The worker's own step changes no table, and what it has in hand is in order.
LEMMA QuietSafe ==
    ASSUME FishingAssumption, CastInv, NEW w \in Workers, NEW new \in Job,
           job' = [job EXCEPT ![w] = new], Respects(w), UNCHANGED <<data, redis, now>>,
           spent' \in SpentType, Holds(w)', Cools(w)'
    PROVE  CastInv'
<1>1. UNCHANGED <<users, ledger, stock, ruleset, applied>> BY DEF data
<1>2. TypeOK' BY <1>1 DEF CastInv, TypeOK, Respects, HolderType, SpentType
<1>3. Alone(w)
  BY <1>1 DEF Alone, CastInv, TypeOK, Respects, FishOf
<1>4. \A u \in Workers : Holds(u)' /\ Cools(u)' BY <1>3, OthersKept
<1>5. EveryFishHasItsRow' BY <1>1 DEF CastInv, EveryFishHasItsRow, Rows
<1>6. NoCooldownWithoutCast' BY <1>1 DEF CastInv, NoCooldownWithoutCast, Rows
<1> QED BY <1>2, <1>4, <1>5, <1>6 DEF CastInv

\* A worker that ends its work and gives up its locks has nothing in hand.
LEMMA IdleHolds ==
    ASSUME NEW w \in Workers, job'[w] = Idle, \A x \in Lockable : holder'[x] # w
    PROVE  Holds(w)' /\ Cools(w)'
BY DEF Idle, Holds, Cools, InCast, LetIn, Decided

LEMMA IdleTyped == Idle \in Job
BY DEF Idle, Job

\* What a worker holds, by where it is.
LEMMA InHand ==
    ASSUME FishingAssumption, CastInv, NEW w \in Workers
    PROVE  /\ job[w] \in Job /\ Holds(w) /\ Cools(w)
           /\ job[w].pc \in InCast \union {"own", "after", "failing"} =>
                 /\ job[w].request \in Requests /\ job[w].viewer \in Viewers
                 /\ job[w].viewer = Owner[job[w].request]
BY DEF CastInv, TypeOK, Holds, FishingAssumption

\* The clock and the stock are numbers.
LEMMA Numbers ==
    ASSUME FishingAssumption, CastInv
    PROVE  now \in Nat /\ now \in 0 .. MaxTime /\ stock \in Nat /\ stock \in 0 .. Stock0
<1>1. MaxTime \in Nat /\ Stock0 \in Nat BY DEF FishingAssumption
<1>2. now \in 0 .. MaxTime /\ stock \in 0 .. Stock0 BY DEF CastInv, TypeOK
<1> QED BY <1>1, <1>2

\* A row after a catch.
Grow(row, m) == [row EXCEPT !.fish = row.fish + 1, !.mass = m]

LEMMA Grown ==
    ASSUME NEW row \in Row, NEW m \in Nat
    PROVE  /\ Grow(row, m) \in Row /\ Grow(row, m).fish = row.fish + 1 /\ Grow(row, m).mass = m
           /\ Grow(row, m).bag = row.bag /\ Grow(row, m).parked = row.parked
<1> DEFINE once == [row EXCEPT !.fish = row.fish + 1]
           grown == [once EXCEPT !.mass = m]
<1>1. /\ once \in Row /\ once.fish = row.fish + 1
      /\ once.bag = row.bag /\ once.parked = row.parked
  BY DEF Row
<1>2. Grow(row, m) = grown BY DEF Grow
<1> HIDE DEF once
<1>3. /\ grown \in Row /\ grown.fish = once.fish /\ grown.mass = m
      /\ grown.bag = once.bag /\ grown.parked = once.parked
  BY <1>1 DEF Row
<1> QED BY <1>1, <1>2, <1>3

LEMMA CallSafe ==
    ASSUME FishingAssumption, CastInv, NEW w \in Workers, NEW r \in Requests, Call(w, r)
    PROVE  CastInv'
<1> DEFINE new == [Idle EXCEPT !.pc = "own", !.request = r, !.viewer = Owner[r], !.started = now]
<1>1. new \in Job
  <2>1. now \in Nat BY Numbers
  <2>2. Owner[r] \in Viewers BY DEF FishingAssumption
  <2> QED BY <2>1, <2>2, IdleTyped DEF Job
<1>2. new.pc = "own" /\ new.request = r /\ new.viewer = Owner[r] /\ new.drop = FALSE
      /\ new.victim = None
  BY DEF Idle
<1>3. job[w].pc = "idle" /\ job' = [job EXCEPT ![w] = new] /\ UNCHANGED <<data, holder, redis, now>>
      /\ spent.calls < MaxCalls /\ Charge("calls")
  BY DEF Call
<1> HIDE DEF new
<1>4. job'[w] = new BY <1>3 DEF CastInv, TypeOK
<1>5. Holds(w)' /\ Cools(w)'
  BY <1>2, <1>3, <1>4, InHand DEF Holds, Cools, InCast, LetIn, Decided
<1>6. Respects(w) BY <1>3, SameRespects
<1>7. spent' \in SpentType BY <1>3, Charged
<1> QED BY <1>1, <1>3, <1>5, <1>6, <1>7, QuietSafe

LEMMA LockOwnSafe ==
    ASSUME FishingAssumption, NoneApart, CastInv, NEW w \in Workers, LockOwn(w)
    PROVE  CastInv'
<1> DEFINE v == job[w].viewer
<1> DEFINE row == IF users[v] = None THEN NewRow ELSE users[v]
<1> DEFINE new == [job[w] EXCEPT !.pc = "check", !.mine = row]
<1>1. /\ job[w].pc = "own" /\ Locks(w, v) /\ UNCHANGED <<data, redis, now, spent>>
      /\ job' = [job EXCEPT ![w] = new]
  BY DEF LockOwn
<1>2. /\ job[w] \in Job /\ Holds(w) /\ job[w].request \in Requests
      /\ v \in Viewers /\ v = Owner[job[w].request]
  BY <1>1, InHand
<1>3. row \in Row /\ row.fish = FishOf(v)
  BY <1>2 DEF CastInv, TypeOK, NewRow, Row, FishOf
<1> HIDE DEF row
<1>4. /\ new \in Job /\ new.pc = "check" /\ new.mine = row /\ new.request = job[w].request
      /\ new.viewer = v /\ new.victim = job[w].victim /\ new.drop = job[w].drop /\ new.left = job[w].left
  BY <1>2, <1>3 DEF Job
<1>5. job' = [job EXCEPT ![w] = new] BY <1>1
<1> HIDE DEF new
<1>6. job'[w] = new BY <1>5 DEF CastInv, TypeOK
<1>7. Respects(w) /\ holder'[v] = w BY <1>1, <1>2, LocksRespects DEF Lockable
<1>8. UNCHANGED <<users, ledger>> BY <1>1 DEF data
<1>9. Holds(w)'
  BY <1>1, <1>2, <1>3, <1>4, <1>6, <1>7, <1>8 DEF Holds, InCast, LetIn, Decided, FishOf
<1>10. Cools(w)' BY <1>4, <1>6 DEF Cools, InCast, LetIn, Decided
<1>11. spent' \in SpentType BY <1>1 DEF CastInv, TypeOK, SpentType
<1> QED BY <1>1, <1>4, <1>5, <1>7, <1>9, <1>10, <1>11, QuietSafe

LEMMA LetThroughSafe ==
    ASSUME FishingAssumption, CastInv, NEW w \in Workers, NEW d \in Cooldowns, LetThrough(w, d)
    PROVE  CastInv'
<1> DEFINE v == job[w].viewer
<1> DEFINE new == [job[w] EXCEPT !.pc = "roll", !.checked = now, !.wait = d]
<1>1. /\ job[w].pc = "check" /\ ~ (d > 0 /\ CoolingDown(v))
      /\ UNCHANGED <<data, holder, redis, now, spent>>
      /\ job' = [job EXCEPT ![w] = new]
  BY DEF LetThrough
<1>2. job[w] \in Job /\ Holds(w) /\ v \in Viewers
  BY <1>1, InHand DEF InCast
<1>3. now \in Nat /\ d \in Nat BY Numbers DEF FishingAssumption
<1>4. /\ new \in Job /\ new.pc = "roll" /\ new.wait = d /\ new.checked = now /\ new.mine = job[w].mine
      /\ new.request = job[w].request /\ new.viewer = v /\ new.victim = job[w].victim
      /\ new.drop = job[w].drop /\ new.left = job[w].left
  BY <1>2, <1>3 DEF Job
<1>5. job' = [job EXCEPT ![w] = new] BY <1>1
<1> HIDE DEF new
<1>6. job'[w] = new BY <1>5 DEF CastInv, TypeOK
<1>7. UNCHANGED <<users, ledger>> BY <1>1 DEF data
<1>8. Holds(w)'
  BY <1>1, <1>2, <1>4, <1>6, <1>7 DEF Holds, InCast, LetIn, Decided, FishOf
<1>9. ASSUME d > 0, NEW q \in Rows(v, "resolved") PROVE ledger[q].until <= now
  <2>1. ledger[q].until \in Nat BY DEF CastInv, TypeOK, Cast, Rows
  <2>2. ~ (ledger[q].until > now) BY <1>1, <1>9 DEF CoolingDown, Durable, Rows
  <2> QED BY <1>3, <2>1, <2>2
<1>10. Cools(w)' BY <1>4, <1>6, <1>7, <1>9 DEF Cools, Rows
<1>11. spent' \in SpentType BY <1>1 DEF CastInv, TypeOK, SpentType
<1>12. Respects(w) BY <1>1, SameRespects
<1> QED BY <1>1, <1>4, <1>5, <1>8, <1>10, <1>11, <1>12, QuietSafe

\* A cast that cannot go on gives up its locks and has only its failure to record.
LEMMA FailsSafe ==
    ASSUME FishingAssumption, CastInv, NEW w \in Workers, job[w].pc \in InCast,
           Fails(w), UNCHANGED <<redis, now, spent>>
    PROVE  CastInv'
<1> DEFINE new == [job[w] EXCEPT !.pc = "failing"]
<1>1. /\ job' = [job EXCEPT ![w] = new] /\ holder' = Released(w) /\ UNCHANGED data
  BY DEF Fails
<1>2. /\ job[w] \in Job /\ Holds(w) /\ job[w].request \in Requests
      /\ job[w].viewer = Owner[job[w].request]
  BY InHand
<1>3. /\ new \in Job /\ new.pc = "failing" /\ new.request = job[w].request
      /\ new.viewer = job[w].viewer /\ new.drop = job[w].drop /\ new.left = job[w].left
  BY <1>2 DEF Job
<1> HIDE DEF new
<1>4. job'[w] = new BY <1>1 DEF CastInv, TypeOK
<1>5. Respects(w) /\ \A x \in Lockable : holder'[x] # w BY <1>1, ReleasedRespects
<1>6. Holds(w)' /\ Cools(w)'
  BY <1>2, <1>3, <1>4, <1>5 DEF Holds, Cools, InCast, LetIn, Decided
<1>7. spent' \in SpentType BY DEF CastInv, TypeOK, SpentType
<1> QED BY <1>1, <1>3, <1>5, <1>6, <1>7, QuietSafe

LEMMA FlooredNat ==
    ASSUME NEW m \in Nat, NEW d \in Int
    PROVE  Floored(m, d) \in Nat
BY DEF Floored

\* What a catch does to its caster, in two steps: what comes next, and what it holds.
LEMMA Chosen ==
    ASSUME NEW j \in Job, NEW pc \in {"drop", "commit"}, NEW dropped \in BOOLEAN, NEW left \in Nat
    PROVE  [j EXCEPT !.pc = pc, !.drop = dropped, !.left = left] \in Job
BY DEF Job

\* What the caster holds and reports.
LEMMA Grows ==
    ASSUME NEW j \in Job, NEW gained \in Int, NEW mine \in Row
    PROVE  [j EXCEPT !.gained = gained, !.mine = mine] \in Job
BY DEF Job

\* Both steps: the record stays a caster's, and only those parts change.
AfterCatch(j, pc, dropped, left, gained, mine) ==
    [j EXCEPT !.pc = pc, !.drop = dropped, !.left = left, !.gained = gained, !.mine = mine]

\* All of what a catch records.
LEMMA CaughtJob ==
    ASSUME NEW j \in Job, NEW pc \in {"drop", "commit"}, NEW dropped \in BOOLEAN,
           NEW left \in Nat, NEW gained \in Int, NEW mine \in Row
    PROVE  LET new == AfterCatch(j, pc, dropped, left, gained, mine)
           IN  /\ new \in Job /\ new.pc = pc /\ new.drop = dropped /\ new.left = left
               /\ new.mine = mine /\ new.request = j.request /\ new.viewer = j.viewer
               /\ new.victim = j.victim /\ new.wait = j.wait /\ new.checked = j.checked
<1> DEFINE chosen == [j EXCEPT !.pc = pc, !.drop = dropped, !.left = left]
           new == [chosen EXCEPT !.gained = gained, !.mine = mine]
<1>1. chosen \in Job BY Chosen
<1>2. chosen.pc = pc /\ chosen.drop = dropped /\ chosen.left = left BY DEF Job
<1>3. /\ chosen.request = j.request /\ chosen.viewer = j.viewer /\ chosen.victim = j.victim
      /\ chosen.wait = j.wait /\ chosen.checked = j.checked
  BY DEF Job
<1>4. new = AfterCatch(j, pc, dropped, left, gained, mine) BY DEF AfterCatch
<1> HIDE DEF chosen
<1>5. new \in Job BY <1>1, Grows
<1>6. new.pc = chosen.pc /\ new.drop = chosen.drop /\ new.left = chosen.left BY <1>1 DEF Job
<1>7. new.mine = mine BY <1>1 DEF Job
<1>8. /\ new.request = chosen.request /\ new.viewer = chosen.viewer
      /\ new.victim = chosen.victim /\ new.wait = chosen.wait /\ new.checked = chosen.checked
  BY <1>1 DEF Job
<1> HIDE DEF new
<1> QED BY <1>2, <1>3, <1>4, <1>5, <1>6, <1>7, <1>8

LEMMA CaughtSafe ==
    ASSUME FishingAssumption, CastInv, NEW w \in Workers, job[w].pc = "roll",
           NEW pc \in {"drop", "commit"}, NEW mass \in Nat, NEW dropped \in BOOLEAN,
           Caught(w, pc, mass, dropped), UNCHANGED <<data, holder, redis, now, spent>>
    PROVE  CastInv'
<1> DEFINE j == job[w]
           mine == Grow(j.mine, mass)
           gained == mass - j.mine.mass
           new == AfterCatch(j, pc, dropped, stock, gained, mine)
<1>1. job' = [job EXCEPT ![w] = new] BY DEF Caught, Grow, AfterCatch
<1>2. j \in Job /\ Holds(w) /\ Cools(w) /\ j.viewer \in Viewers BY InHand DEF InCast, LetIn
<1>3. j.mine \in Row /\ j.mine.fish = FishOf(j.viewer) /\ holder[j.viewer] = w /\ j.victim = None
      /\ j.request \in Requests /\ j.viewer = Owner[j.request]
  BY <1>2 DEF Holds, InCast, LetIn, Decided
<1>4. mine \in Row /\ mine.fish = FishOf(j.viewer) + 1 BY <1>3, Grown
<1>5. stock \in 0 .. Stock0 /\ stock \in Nat /\ gained \in Int BY <1>3, Numbers DEF Row
<1> HIDE DEF mine, gained
<1>6. /\ new \in Job /\ new.pc = pc /\ new.drop = dropped /\ new.left = stock /\ new.mine = mine
      /\ new.request = j.request /\ new.viewer = j.viewer /\ new.victim = None
      /\ new.wait = j.wait /\ new.checked = j.checked
  BY <1>2, <1>3, <1>4, <1>5, CaughtJob
<1> HIDE DEF new
<1>7. job'[w] = new BY <1>1 DEF CastInv, TypeOK
<1>8. UNCHANGED <<users, ledger>> BY DEF data
<1>9. Holds(w)'
  BY <1>3, <1>4, <1>5, <1>6, <1>7, <1>8 DEF Holds, InCast, LetIn, Decided, FishOf
<1>10. Cools(w)' BY <1>2, <1>6, <1>7, <1>8 DEF Cools, Rows, LetIn
<1>11. Respects(w) BY SameRespects
<1>12. spent' \in SpentType BY DEF CastInv, TypeOK, SpentType
<1> QED BY <1>1, <1>6, <1>9, <1>10, <1>11, <1>12, QuietSafe

LEMMA CatchSafe ==
    ASSUME FishingAssumption, CastInv, NEW w \in Workers, Catch(w)
    PROVE  CastInv'
<1>1. PICK d \in Deltas, dropped \in BOOLEAN :
         Caught(w, IF dropped THEN "drop" ELSE "commit", Floored(job[w].mine.mass, d), dropped)
  BY DEF Catch
<1>2. job[w].pc = "roll" /\ UNCHANGED <<data, holder, redis, now, spent>> BY DEF Catch
<1>3. job[w].mine \in Row BY <1>2, InHand DEF Holds, InCast, LetIn
<1>4. Floored(job[w].mine.mass, d) \in Nat BY <1>3, FlooredNat DEF Row, FishingAssumption
<1>5. (IF dropped THEN "drop" ELSE "commit") \in {"drop", "commit"} OBVIOUS
<1> QED BY <1>1, <1>2, <1>4, <1>5, CaughtSafe

LEMMA PickVictimSafe ==
    ASSUME FishingAssumption, CastInv, NEW w \in Workers, PickVictim(w)
    PROVE  CastInv'
<1> DEFINE j == job[w]
           found == Victims(j.viewer, j.mine.mass)
<1>1. PICK dropped \in BOOLEAN :
         IF found = {}
         THEN Caught(w, IF dropped THEN "drop" ELSE "commit", j.mine.mass, dropped)
         ELSE \E u \in found :
                job' = [job EXCEPT ![w] =
                  [j EXCEPT !.pc = "victim", !.victim = u, !.his = users[u],
                            !.drop = dropped, !.left = stock]]
  BY DEF PickVictim
<1>2. j.pc = "roll" /\ UNCHANGED <<data, holder, redis, now, spent>> BY DEF PickVictim
<1>3. j \in Job /\ Holds(w) /\ Cools(w) /\ j.viewer \in Viewers BY <1>2, InHand DEF InCast, LetIn
<1>4. j.mine \in Row /\ j.mine.fish = FishOf(j.viewer) /\ holder[j.viewer] = w
      /\ j.request \in Requests /\ j.viewer = Owner[j.request]
  BY <1>2, <1>3 DEF Holds, InCast, LetIn, Decided
<1>5. CASE found = {}
  <2>1. j.mine.mass \in Nat BY <1>4 DEF Row
  <2>2. (IF dropped THEN "drop" ELSE "commit") \in {"drop", "commit"} OBVIOUS
  <2> QED BY <1>1, <1>2, <1>5, <2>1, <2>2, CaughtSafe
<1>6. CASE found # {}
  <2>1. PICK u \in found :
           job' = [job EXCEPT ![w] =
             [j EXCEPT !.pc = "victim", !.victim = u, !.his = users[u],
                       !.drop = dropped, !.left = stock]]
    BY <1>1, <1>6
  <2>2. u \in Viewers /\ u # j.viewer /\ users[u] # None BY DEF Victims
  <2>3. users[u] \in Row BY <2>2 DEF CastInv, TypeOK
  <2> DEFINE new == [j EXCEPT !.pc = "victim", !.victim = u, !.his = users[u],
                              !.drop = dropped, !.left = stock]
  <2>4. job' = [job EXCEPT ![w] = new] BY <2>1
  <2>5. stock \in 0 .. Stock0 /\ stock \in Nat BY Numbers
  <2>6. /\ new \in Job /\ new.pc = "victim" /\ new.drop = dropped /\ new.left = stock
        /\ new.mine = j.mine /\ new.request = j.request /\ new.viewer = j.viewer
        /\ new.victim = u /\ new.wait = j.wait /\ new.checked = j.checked
    BY <1>3, <2>2, <2>3, <2>5 DEF Job
  <2> HIDE DEF new
  <2>7. job'[w] = new BY <2>4 DEF CastInv, TypeOK
  <2>8. UNCHANGED <<users, ledger>> BY <1>2 DEF data
  <2>9. Holds(w)'
    BY <1>2, <1>4, <2>2, <2>5, <2>6, <2>7, <2>8 DEF Holds, InCast, LetIn, Decided, FishOf
  <2>10. Cools(w)' BY <1>2, <1>3, <2>6, <2>7, <2>8 DEF Cools, Rows, LetIn
  <2>11. Respects(w) BY <1>2, SameRespects
  <2>12. spent' \in SpentType BY <1>2 DEF CastInv, TypeOK, SpentType
  <2> QED BY <1>2, <2>4, <2>6, <2>9, <2>10, <2>11, <2>12, QuietSafe
<1> QED BY <1>5, <1>6

\* What a robbery takes is what the victim has less.
LEMMA Robbed ==
    ASSUME NEW mass \in Nat, NEW wanted \in Nat
    PROVE  LET left == Floored(mass, -wanted) IN left \in Nat /\ mass - left \in Nat
BY DEF Floored

LEMMA RobSafe ==
    ASSUME FishingAssumption, NoneApart, CastInv, NEW w \in Workers, Rob(w)
    PROVE  CastInv'
<1> DEFINE j == job[w]
           his == users[j.victim]
<1>1. /\ j.pc = "victim" /\ Locks(w, j.victim) /\ UNCHANGED <<data, redis, now, spent>>
  BY DEF Rob
<1>2. PICK wanted \in {0} \union {d \in Deltas : d > 0},
           cost \in {0} \union {-d : d \in {c \in Deltas : c < 0}} :
         LET left == Floored(his.mass, -wanted)
             taken == his.mass - left
             mass == Floored(j.mine.mass, -cost) + taken IN
         job' = [job EXCEPT ![w] =
           [j EXCEPT !.pc = IF j.drop THEN "drop" ELSE "commit",
                     !.mine = [j.mine EXCEPT !.fish = j.mine.fish + 1, !.mass = mass],
                     !.gained = mass - j.mine.mass,
                     !.his = [his EXCEPT !.mass = left],
                     !.landed = -taken]]
  BY DEF Rob, VictimsRow
<1>3. j \in Job /\ Holds(w) /\ Cools(w) /\ j.viewer \in Viewers
  BY <1>1, InHand DEF InCast, LetIn
<1>4. /\ j.mine \in Row /\ j.mine.fish = FishOf(j.viewer) /\ holder[j.viewer] = w
      /\ j.request \in Requests /\ j.viewer = Owner[j.request]
      /\ j.victim \in Viewers /\ j.victim # j.viewer /\ users[j.victim] # None
      /\ j.drop => j.left \in 0 .. Stock0
  BY <1>1, <1>3 DEF Holds, InCast, LetIn, Decided
<1>5. his \in Row BY <1>4 DEF CastInv, TypeOK
<1>6. wanted \in Nat /\ -cost \in Int BY DEF FishingAssumption
<1> DEFINE left == Floored(his.mass, -wanted)
           taken == his.mass - left
           mass == Floored(j.mine.mass, -cost) + taken
           gained == mass - j.mine.mass
           pc == IF j.drop THEN "drop" ELSE "commit"
           mine == Grow(j.mine, mass)
           hers == [his EXCEPT !.mass = left]
           new == [j EXCEPT !.pc = pc, !.mine = mine, !.gained = gained, !.his = hers,
                            !.landed = -taken]
<1>7. job' = [job EXCEPT ![w] = new] BY <1>2 DEF Grow
<1>8. left \in Nat /\ taken \in Nat
  <2>1. his.mass \in Nat BY <1>5 DEF Row
  <2> QED BY <1>6, <2>1, Robbed
<1> HIDE DEF left
<1>9. mass \in Nat
  <2>1. j.mine.mass \in Nat BY <1>4 DEF Row
  <2>2. Floored(j.mine.mass, -cost) \in Nat BY <1>6, <2>1, FlooredNat
  <2> QED BY <1>8, <2>2
<1>10. -taken \in Int /\ gained \in Int
  <2>1. j.mine.mass \in Nat BY <1>4 DEF Row
  <2> HIDE DEF mass
  <2> QED BY <1>8, <1>9, <2>1
<1> HIDE DEF gained, taken, mass
<1>11. mine \in Row /\ mine.fish = FishOf(j.viewer) + 1 BY <1>4, <1>9, Grown
<1>12. hers \in Row /\ hers.fish = his.fish BY <1>5, <1>8 DEF Row
<1>13. pc \in {"drop", "commit"} OBVIOUS
<1> HIDE DEF mine, hers, pc
<1>14. /\ new \in Job /\ new.pc = pc /\ new.drop = j.drop /\ new.left = j.left
       /\ new.mine = mine /\ new.his = hers
       /\ new.request = j.request /\ new.viewer = j.viewer /\ new.victim = j.victim
       /\ new.wait = j.wait /\ new.checked = j.checked
  BY <1>3, <1>10, <1>11, <1>12, <1>13 DEF Job
<1> HIDE DEF new
<1>15. job'[w] = new BY <1>7 DEF CastInv, TypeOK
<1>16. UNCHANGED <<users, ledger>> BY <1>1 DEF data
<1>17. /\ Respects(w) /\ holder'[j.victim] = w /\ holder'[j.viewer] = w
  <2>1. j.victim \in Lockable /\ j.viewer \in Lockable BY <1>3, <1>4 DEF Lockable
  <2> QED BY <1>1, <1>4, <2>1, LocksRespects
<1>18. hers.fish = FishOf(j.victim) /\ \A v \in Viewers : FishOf(v)' = FishOf(v)
  BY <1>4, <1>12, <1>16 DEF FishOf
<1>19. Holds(w)'
  BY <1>3, <1>4, <1>11, <1>12, <1>13, <1>14, <1>15, <1>16, <1>17, <1>18
  DEF Holds, InCast, LetIn, Decided
<1>20. Cools(w)'
  BY <1>1, <1>3, <1>13, <1>14, <1>15, <1>16 DEF Cools, Rows, LetIn
<1>21. spent' \in SpentType BY <1>1 DEF CastInv, TypeOK, SpentType
<1> QED BY <1>1, <1>7, <1>14, <1>17, <1>19, <1>20, <1>21, QuietSafe

\* A cast whose fish counts goes on under its locks.
LEMMA GoesOnSafe ==
    ASSUME FishingAssumption, CastInv, NEW w \in Workers, NEW new \in Job,
           job[w].pc \in Decided, new.pc \in Decided,
           new.request = job[w].request, new.viewer = job[w].viewer,
           new.victim = job[w].victim, new.his = job[w].his, new.wait = job[w].wait,
           new.checked = job[w].checked, new.mine.fish = job[w].mine.fish, new.mine \in Row,
           new.drop => new.left \in 0 .. Stock0,
           job' = [job EXCEPT ![w] = new], Respects(w),
           \A y \in Lockable : holder[y] = w => holder'[y] = w,
           UNCHANGED <<data, redis, now, spent>>
    PROVE  CastInv'
<1> DEFINE j == job[w]
<1>1. j \in Job /\ Holds(w) /\ Cools(w) BY InHand
<1>2. /\ j.mine.fish = FishOf(j.viewer) + 1 /\ holder[j.viewer] = w
      /\ j.request \in Requests /\ j.viewer = Owner[j.request] /\ j.viewer \in Viewers
      /\ j.victim # None =>
            /\ j.victim \in Viewers /\ j.victim # j.viewer /\ holder[j.victim] = w
            /\ j.his \in Row /\ j.his.fish = FishOf(j.victim) /\ users[j.victim] # None
  BY <1>1, InHand DEF Holds, InCast, LetIn, Decided
<1>3. job'[w] = new BY DEF CastInv, TypeOK
<1>4. UNCHANGED <<users, ledger>> BY DEF data
<1>5. Holds(w)'
  BY <1>2, <1>3, <1>4 DEF Holds, InCast, LetIn, Decided, FishOf, Lockable
<1>6. Cools(w)' BY <1>1, <1>3, <1>4 DEF Cools, Rows, LetIn, Decided
<1>7. spent' \in SpentType BY DEF CastInv, TypeOK, SpentType
<1> QED BY <1>5, <1>6, <1>7, QuietSafe

LEMMA DropSafe ==
    ASSUME FishingAssumption, CastInv, NEW w \in Workers, Drop(w)
    PROVE  CastInv'
<1> DEFINE j == job[w]
<1>1. j.pc = "drop" /\ UNCHANGED <<data, redis, now, spent>> BY DEF Drop
<1>2. j \in Job /\ j.mine \in Row /\ (j.drop => j.left \in 0 .. Stock0)
  BY <1>1, InHand DEF Holds, InCast, LetIn, Decided
<1>3. stock \in Nat /\ stock \in 0 .. Stock0 /\ Stock0 \in Nat BY Numbers DEF FishingAssumption
<1>4. CASE Fails(w)
  BY <1>1, <1>4, FailsSafe DEF InCast, LetIn, Decided
<1>5. ASSUME Locks(w, Stock),
             NEW new \in Job, job' = [job EXCEPT ![w] = new], new.pc = "commit",
             new.request = j.request, new.viewer = j.viewer, new.victim = j.victim, new.his = j.his,
             new.wait = j.wait, new.checked = j.checked, new.mine \in Row, new.mine.fish = j.mine.fish,
             new.drop => new.left \in 0 .. Stock0
      PROVE  CastInv'
  <2>1. /\ Respects(w) /\ \A y \in Lockable : holder[y] = w => holder'[y] = w
    BY <1>5, LocksRespects DEF Lockable
  <2>2. j.pc \in Decided /\ new.pc \in Decided BY <1>1, <1>5 DEF Decided
  <2> QED BY <1>1, <1>5, <2>1, <2>2, GoesOnSafe
<1>6. ASSUME Locks(w, Stock), stock <= 0,
             job' = [job EXCEPT ![w] = [j EXCEPT !.pc = "commit", !.drop = FALSE]]
      PROVE  CastInv'
  <2> DEFINE new == [j EXCEPT !.pc = "commit", !.drop = FALSE]
  <2>1. /\ new \in Job /\ new.pc = "commit" /\ ~ new.drop
        /\ new.request = j.request /\ new.viewer = j.viewer /\ new.victim = j.victim /\ new.his = j.his
        /\ new.wait = j.wait /\ new.checked = j.checked /\ new.mine = j.mine
    BY <1>2 DEF Job
  <2> HIDE DEF new
  <2> QED BY <1>2, <1>5, <1>6, <2>1 DEF new
<1>7. ASSUME Locks(w, Stock), stock > 0, NEW mine \in Row, mine.fish = j.mine.fish,
             job' = [job EXCEPT ![w] = [j EXCEPT !.pc = "commit", !.left = stock - 1, !.mine = mine]]
      PROVE  CastInv'
  <2> DEFINE new == [j EXCEPT !.pc = "commit", !.left = stock - 1, !.mine = mine]
  <2>1. stock - 1 \in Nat /\ stock - 1 \in 0 .. Stock0 BY <1>3, <1>7
  <2>2. /\ new \in Job /\ new.pc = "commit" /\ new.left = stock - 1
        /\ new.request = j.request /\ new.viewer = j.viewer /\ new.victim = j.victim /\ new.his = j.his
        /\ new.wait = j.wait /\ new.checked = j.checked /\ new.mine = mine
    BY <1>2, <2>1 DEF Job
  <2>3. job' = [job EXCEPT ![w] = new] BY <1>7
  <2> HIDE DEF new
  <2> QED BY <1>5, <1>7, <2>1, <2>2, <2>3
<1>8. ASSUME Locks(w, Stock), stock > 0,
             job' = [job EXCEPT ![w] = [j EXCEPT !.pc = "commit", !.left = stock - 1]]
      PROVE  CastInv'
  <2> DEFINE new == [j EXCEPT !.pc = "commit", !.left = stock - 1]
  <2>1. stock - 1 \in Nat /\ stock - 1 \in 0 .. Stock0 BY <1>3, <1>8
  <2>2. /\ new \in Job /\ new.pc = "commit" /\ new.left = stock - 1
        /\ new.request = j.request /\ new.viewer = j.viewer /\ new.victim = j.victim /\ new.his = j.his
        /\ new.wait = j.wait /\ new.checked = j.checked /\ new.mine = j.mine
    BY <1>2, <2>1 DEF Job
  <2>3. job' = [job EXCEPT ![w] = new] BY <1>8
  <2> HIDE DEF new
  <2> QED BY <1>2, <1>5, <1>8, <2>1, <2>2, <2>3
<1>9. /\ [j.mine EXCEPT !.bag = j.mine.bag + 1] \in Row
      /\ [j.mine EXCEPT !.bag = j.mine.bag + 1].fish = j.mine.fish
  BY <1>2 DEF Row
<1>10. /\ [j.mine EXCEPT !.parked = j.mine.parked + 1] \in Row
       /\ [j.mine EXCEPT !.parked = j.mine.parked + 1].fish = j.mine.fish
  BY <1>2 DEF Row
<1>11. \/ Fails(w)
       \/ Locks(w, Stock) /\ stock <= 0
            /\ job' = [job EXCEPT ![w] = [j EXCEPT !.pc = "commit", !.drop = FALSE]]
       \/ Locks(w, Stock) /\ stock > 0
            /\ job' = [job EXCEPT ![w] = [j EXCEPT !.pc = "commit", !.left = stock - 1,
                          !.mine = IF j.mine.bag < Slots
                                   THEN [j.mine EXCEPT !.bag = j.mine.bag + 1]
                                   ELSE [j.mine EXCEPT !.parked = j.mine.parked + 1]]]
       \/ Locks(w, Stock) /\ stock > 0
            /\ job' = [job EXCEPT ![w] = [j EXCEPT !.pc = "commit", !.left = stock - 1]]
  BY <1>3 DEF Drop, Reservable
<1>12. ASSUME Locks(w, Stock), stock > 0,
              job' = [job EXCEPT ![w] = [j EXCEPT !.pc = "commit", !.left = stock - 1,
                          !.mine = IF j.mine.bag < Slots
                                   THEN [j.mine EXCEPT !.bag = j.mine.bag + 1]
                                   ELSE [j.mine EXCEPT !.parked = j.mine.parked + 1]]]
       PROVE CastInv'
  <2> DEFINE mine == IF j.mine.bag < Slots THEN [j.mine EXCEPT !.bag = j.mine.bag + 1]
                                           ELSE [j.mine EXCEPT !.parked = j.mine.parked + 1]
  <2>1. mine \in Row /\ mine.fish = j.mine.fish BY <1>9, <1>10
  <2>2. job' = [job EXCEPT ![w] = [j EXCEPT !.pc = "commit", !.left = stock - 1, !.mine = mine]]
    BY <1>12
  <2> HIDE DEF mine
  <2> QED BY <1>7, <1>12, <2>1, <2>2
<1> QED BY <1>4, <1>6, <1>8, <1>11, <1>12

LEMMA MissRulesetSafe ==
    ASSUME FishingAssumption, CastInv, NEW w \in Workers, MissRuleset(w)
    PROVE  CastInv'
<1> DEFINE j == job[w]
           new == [j EXCEPT !.pc = "insert"]
<1>1. /\ j.pc = "commit" /\ UNCHANGED <<data, holder, redis, now, spent>>
      /\ job' = [job EXCEPT ![w] = new]
  BY DEF MissRuleset
<1>2. j \in Job /\ j.mine \in Row /\ (j.drop => j.left \in 0 .. Stock0)
  BY <1>1, InHand DEF Holds, InCast, LetIn, Decided
<1>3. /\ new \in Job /\ new.pc = "insert" /\ new.drop = j.drop /\ new.left = j.left
      /\ new.request = j.request /\ new.viewer = j.viewer /\ new.victim = j.victim /\ new.his = j.his
      /\ new.wait = j.wait /\ new.checked = j.checked /\ new.mine = j.mine
  BY <1>2 DEF Job
<1> HIDE DEF new
<1>4. j.pc \in Decided /\ new.pc \in Decided BY <1>1, <1>3 DEF Decided
<1>5. Respects(w) BY <1>1, SameRespects
<1> QED BY <1>1, <1>2, <1>3, <1>4, <1>5, GoesOnSafe

LEMMA InsertRulesetSafe ==
    ASSUME FishingAssumption, CastInv, NEW w \in Workers, InsertRuleset(w)
    PROVE  CastInv'
<1> DEFINE j == job[w]
           new == [j EXCEPT !.pc = "commit"]
<1>1. /\ j.pc = "insert" /\ UNCHANGED <<redis, now, spent>>
      /\ \/ Fails(w)
         \/ Locks(w, Ruleset) /\ job' = [job EXCEPT ![w] = new] /\ UNCHANGED data
  BY DEF InsertRuleset
<1>2. CASE Fails(w) BY <1>1, <1>2, FailsSafe DEF InCast, LetIn, Decided
<1>3. CASE Locks(w, Ruleset) /\ job' = [job EXCEPT ![w] = new] /\ UNCHANGED data
  <2>1. j \in Job /\ j.mine \in Row /\ (j.drop => j.left \in 0 .. Stock0)
    BY <1>1, InHand DEF Holds, InCast, LetIn, Decided
  <2>2. /\ new \in Job /\ new.pc = "commit" /\ new.drop = j.drop /\ new.left = j.left
        /\ new.request = j.request /\ new.viewer = j.viewer /\ new.victim = j.victim
        /\ new.his = j.his /\ new.wait = j.wait /\ new.checked = j.checked /\ new.mine = j.mine
    BY <2>1 DEF Job
  <2> HIDE DEF new
  <2>3. j.pc \in Decided /\ new.pc \in Decided BY <1>1, <2>2 DEF Decided
  <2>4. /\ Respects(w) /\ \A y \in Lockable : holder[y] = w => holder'[y] = w
    BY <1>3, LocksRespects DEF Lockable
  <2>5. UNCHANGED <<data, redis, now, spent>> BY <1>1, <1>3
  <2> QED BY <1>3, <2>1, <2>2, <2>3, <2>4, <2>5, GoesOnSafe
<1> QED BY <1>1, <1>2, <1>3

\* A worker that ends its work without writing anything.
LEMMA EndSafe ==
    ASSUME FishingAssumption, CastInv, NEW w \in Workers, job' = [job EXCEPT ![w] = Idle],
           holder' = Released(w), UNCHANGED <<data, redis, now>>, spent' \in SpentType
    PROVE  CastInv'
<1>1. job'[w] = Idle BY DEF CastInv, TypeOK
<1>2. Respects(w) /\ \A x \in Lockable : holder'[x] # w BY ReleasedRespects
<1>3. Holds(w)' /\ Cools(w)' BY <1>1, <1>2, IdleHolds
<1> QED BY <1>2, <1>3, IdleTyped, QuietSafe

LEMMA ReplaySafe ==
    ASSUME FishingAssumption, CastInv, NEW w \in Workers, Replay(w)
    PROVE  CastInv'
<1>1. spent' \in SpentType BY DEF Replay, CastInv, TypeOK, SpentType
<1> QED BY <1>1, EndSafe DEF Replay

LEMMA CrashSafe ==
    ASSUME FishingAssumption, CastInv, NEW w \in Workers, Crash(w)
    PROVE  CastInv'
<1>1. spent' \in SpentType BY Charged DEF Crash
<1> QED BY <1>1, EndSafe DEF Crash

\* Whoever is waited for and waits is in a cast.
LEMMA AbortSafe ==
    ASSUME FishingAssumption, CastInv, NEW w \in Workers, Abort(w)
    PROVE  CastInv'
<1>1. PICK S \in SUBSET Workers : w \in S /\ Deadlocked(S) BY DEF Abort
<1>2. Fails(w) /\ UNCHANGED <<redis, now, spent>> BY DEF Abort
<1>3. PICK x \in S : holder[Wants(x)] = w /\ Wants(x) # None BY <1>1 DEF Deadlocked
<1>4. x \in Workers /\ Holds(x) BY <1>1, <1>3, InHand
<1>5. Wants(x) \in Lockable
  <2>1. job[x].pc \in {"own", "failing"} => job[x].viewer \in Viewers BY <1>4, InHand
  <2>2. job[x].pc = "taken" => job[x].viewer \in Viewers BY <1>4 DEF Holds
  <2>3. job[x].pc = "victim" => job[x].victim \in Viewers BY <1>4 DEF Holds
  <2> QED BY <1>3, <2>1, <2>2, <2>3 DEF Wants, Lockable
<1>6. job[w].pc \in InCast \union {"held"} BY <1>3, <1>5, InHand DEF Holds
<1>7. Wants(w) # None BY <1>1 DEF Deadlocked
<1>8. job[w].pc # "held" BY <1>7 DEF Wants
<1> QED BY <1>2, <1>6, <1>8, FailsSafe

LEMMA UseItemSafe ==
    ASSUME FishingAssumption, CastInv, NEW w \in Workers, NEW v \in Viewers, UseItem(w, v)
    PROVE  CastInv'
<1> DEFINE new == [Idle EXCEPT !.pc = "taken", !.viewer = v, !.mine = users[v]]
<1>1. /\ job[w].pc = "idle" /\ users[v] # None /\ job' = [job EXCEPT ![w] = new]
      /\ spent.uses < MaxUses /\ Charge("uses") /\ UNCHANGED <<data, holder, redis, now>>
  BY DEF UseItem
<1>2. users[v] \in Row BY <1>1 DEF CastInv, TypeOK
<1>3. new \in Job BY <1>2, IdleTyped DEF Job
<1>4. new.pc = "taken" /\ new.viewer = v /\ new.mine = users[v] /\ new.drop = FALSE /\ new.victim = None
  BY DEF Idle
<1> HIDE DEF new
<1>5. job'[w] = new BY <1>1 DEF CastInv, TypeOK
<1>6. UNCHANGED users BY <1>1 DEF data
<1>7. Holds(w)' /\ Cools(w)'
  BY <1>1, <1>2, <1>4, <1>5, <1>6, InHand DEF Holds, Cools, InCast, LetIn, Decided
<1>8. Respects(w) BY <1>1, SameRespects
<1>9. spent' \in SpentType BY <1>1, Charged
<1> QED BY <1>1, <1>3, <1>7, <1>8, <1>9, QuietSafe

LEMMA LockUsedSafe ==
    ASSUME FishingAssumption, CastInv, NEW w \in Workers, LockUsed(w)
    PROVE  CastInv'
<1> DEFINE j == job[w]
           new == [j EXCEPT !.pc = "held"]
<1>1. /\ j.pc = "taken" /\ Locks(w, j.viewer) /\ job' = [job EXCEPT ![w] = new]
      /\ UNCHANGED <<data, redis, now, spent>>
  BY DEF LockUsed
<1>2. /\ j \in Job /\ j.viewer \in Viewers /\ j.mine \in Row /\ users[j.viewer] # None
      /\ j.drop => j.left \in 0 .. Stock0
  BY <1>1, InHand DEF Holds
<1>3. /\ new \in Job /\ new.pc = "held" /\ new.viewer = j.viewer /\ new.mine = j.mine
      /\ new.drop = j.drop /\ new.left = j.left
  BY <1>2 DEF Job
<1> HIDE DEF new
<1>4. job'[w] = new BY <1>1 DEF CastInv, TypeOK
<1>5. Respects(w) /\ holder'[j.viewer] = w
  <2>1. j.viewer \in Lockable BY <1>2 DEF Lockable
  <2> QED BY <1>1, <2>1, LocksRespects
<1>6. UNCHANGED users BY <1>1 DEF data
<1>7. Holds(w)' /\ Cools(w)'
  BY <1>2, <1>3, <1>4, <1>5, <1>6 DEF Holds, Cools, InCast, LetIn, Decided
<1>8. spent' \in SpentType BY <1>1 DEF CastInv, TypeOK, SpentType
<1> QED BY <1>1, <1>3, <1>5, <1>7, <1>8, QuietSafe

-----------------------------------------------------------------------------
(* Steps that write to the tables *)

\* The fish of nobody changes and the processed casts stay what they are.
LEMMA SameFish ==
    ASSUME CastInv, \A v \in Viewers : FishOf(v)' = FishOf(v),
           \A r \in Requests : ledger[r].status = "resolved" => ledger'[r] = ledger[r],
           \A r \in Requests : ledger'[r].status = "resolved" => ledger[r].status = "resolved"
    PROVE  /\ EveryFishHasItsRow'
           /\ UNCHANGED redis => NoCooldownWithoutCast'
<1>1. \A v \in Viewers : Rows(v, "resolved")' = Rows(v, "resolved") BY DEF Rows
<1>2. EveryFishHasItsRow' BY <1>1 DEF CastInv, EveryFishHasItsRow, FishOf
<1>3. ASSUME UNCHANGED redis PROVE NoCooldownWithoutCast'
  <2>1. \A v \in Viewers : \A r \in Rows(v, "resolved") : ledger'[r] = ledger[r] BY DEF Rows
  <2> QED BY <1>1, <1>3, <2>1 DEF CastInv, NoCooldownWithoutCast
<1> QED BY <1>2, <1>3

LEMMA RejectSafe ==
    ASSUME FishingAssumption, NoneApart, CastInv, NEW w \in Workers, NEW d \in Cooldowns, Reject(w, d)
    PROVE  CastInv'
<1> DEFINE j == job[w]
           r == j.request
<1>1. j.pc = "check" /\ UNCHANGED <<redis, now, spent>> BY DEF Reject
<1>2. CASE Fails(w) BY <1>1, <1>2, FailsSafe DEF InCast
<1>3. CASE /\ ledger[r].status = "none"
           /\ ledger' = [ledger EXCEPT ![r].status = "rejected"]
           /\ users' = [users EXCEPT ![j.viewer] = j.mine]
           /\ job' = [job EXCEPT ![w] = Idle]
           /\ holder' = Released(w)
           /\ UNCHANGED <<stock, ruleset, applied>>
  <2>1. /\ j.mine \in Row /\ j.mine # None /\ j.mine.fish = FishOf(j.viewer) /\ holder[j.viewer] = w
        /\ r \in Requests /\ j.viewer \in Viewers
    BY <1>1, InHand DEF Holds, InCast, LetIn, Decided, NoneApart
  <2>2. /\ ledger \in [Requests -> Cast] /\ users \in [Viewers -> Row \union {None}]
        /\ job \in [Workers -> Job]
    BY DEF CastInv, TypeOK
  <2>3. [ledger[r] EXCEPT !.status = "rejected"] \in Cast BY <2>1, <2>2 DEF Cast
  <2>4. ledger' \in [Requests -> Cast] /\ ledger'[r].status = "rejected"
        /\ \A q \in Requests : q # r => ledger'[q] = ledger[q]
    BY <1>3, <2>1, <2>2, <2>3 DEF Cast
  <2>5. users' \in [Viewers -> Row \union {None}] /\ users'[j.viewer] = j.mine
        /\ \A v \in Viewers : v # j.viewer => users'[v] = users[v]
    BY <1>3, <2>1, <2>2
  <2>6. \A v \in Viewers : FishOf(v)' = FishOf(v) BY <2>1, <2>5 DEF FishOf
  <2>7. Respects(w) /\ \A x \in Lockable : holder'[x] # w BY <1>3, ReleasedRespects
  <2>8. job' \in [Workers -> Job] /\ job'[w] = Idle /\ \A u \in Workers : u # w => job'[u] = job[u]
    BY <1>3, <2>2, IdleTyped
  <2>9. TypeOK'
    BY <1>1, <1>3, <2>4, <2>5, <2>7, <2>8 DEF CastInv, TypeOK, Respects, HolderType
  <2>10. Alone(w) BY <1>3, <2>1, <2>4, <2>5, <2>6, <2>7, <2>8 DEF Alone, Respects
  <2>11. EveryFishHasItsRow' /\ NoCooldownWithoutCast' BY <1>1, <1>3, <2>4, <2>6, SameFish
  <2>12. Holds(w)' /\ Cools(w)' BY <2>7, <2>8, IdleHolds
  <2> QED BY <2>9, <2>10, <2>11, <2>12, OthersKept DEF CastInv
<1> QED BY <1>2, <1>3 DEF Reject

LEMMA UsedUpSafe ==
    ASSUME FishingAssumption, NoneApart, CastInv, NEW w \in Workers, UsedUp(w)
    PROVE  CastInv'
<1> DEFINE j == job[w]
           v == j.viewer
<1>1. /\ j.pc = "held" /\ job' = [job EXCEPT ![w] = Idle] /\ holder' = Released(w)
      /\ UNCHANGED <<ledger, stock, ruleset, redis, now, spent>>
  BY DEF UsedUp
<1>2. PICK d \in Deltas \ {0} :
         /\ users' = IF Floored(j.mine.mass, d) = j.mine.mass THEN users
                     ELSE [users EXCEPT ![v] = [users[v] EXCEPT !.mass = Floored(j.mine.mass, d)]]
         /\ applied' = [applied EXCEPT ![v] = applied[v] + Floored(j.mine.mass, d) - j.mine.mass]
  BY DEF UsedUp
<1>3. v \in Viewers /\ j.mine \in Row /\ users[v] # None /\ holder[v] = w
  BY <1>1, InHand DEF Holds
<1>4. /\ users \in [Viewers -> Row \union {None}] /\ applied \in [Viewers -> Int]
      /\ job \in [Workers -> Job]
  BY DEF CastInv, TypeOK
<1>5. j.mine.mass \in Nat /\ Floored(j.mine.mass, d) \in Nat
  BY <1>3, FlooredNat DEF Row, FishingAssumption
<1> DEFINE mass == Floored(j.mine.mass, d)
           row == [users[v] EXCEPT !.mass = mass]
<1> HIDE DEF mass
<1>6. users[v] \in Row BY <1>3, <1>4
<1>7. row \in Row /\ row.fish = users[v].fish /\ row # None BY <1>5, <1>6 DEF Row, mass, NoneApart
<1> HIDE DEF row
<1>8. users' = users \/ users' = [users EXCEPT ![v] = row] BY <1>2 DEF mass, row
<1>9. /\ users' \in [Viewers -> Row \union {None}]
      /\ \A u \in Viewers : users[u] # None => users'[u] # None
      /\ \A u \in Viewers : FishOf(u)' = FishOf(u)
  BY <1>3, <1>4, <1>7, <1>8 DEF FishOf
<1>10. applied' \in [Viewers -> Int] BY <1>2, <1>3, <1>4, <1>5
<1>11. job' \in [Workers -> Job] /\ job'[w] = Idle /\ \A u \in Workers : u # w => job'[u] = job[u]
  BY <1>1, <1>4, IdleTyped
<1>12. Respects(w) /\ \A x \in Lockable : holder'[x] # w BY <1>1, ReleasedRespects
<1>13. TypeOK' BY <1>1, <1>9, <1>10, <1>11, <1>12 DEF CastInv, TypeOK, Respects, HolderType
<1>14. Alone(w) BY <1>1, <1>9, <1>11, <1>12 DEF Alone, Respects
<1>15. EveryFishHasItsRow' /\ NoCooldownWithoutCast' BY <1>1, <1>9, SameFish
<1>16. Holds(w)' /\ Cools(w)' BY <1>11, <1>12, IdleHolds
<1> QED BY <1>13, <1>14, <1>15, <1>16, OthersKept DEF CastInv

LEMMA RecordFailedSafe ==
    ASSUME FishingAssumption, CastInv, NEW w \in Workers, RecordFailed(w)
    PROVE  CastInv'
<1> DEFINE j == job[w]
           r == j.request
<1>1. /\ j.pc = "failing" /\ job' = [job EXCEPT ![w] = Idle]
      /\ UNCHANGED <<users, stock, ruleset, applied, holder, redis, now, spent>>
      /\ \/ ledger' = ledger
         \/ ledger[r].status = "none" /\ ledger' = [ledger EXCEPT ![r].status = "failed"]
  BY DEF RecordFailed
<1>2. r \in Requests BY <1>1, InHand
<1>3. ledger \in [Requests -> Cast] /\ job \in [Workers -> Job] BY DEF CastInv, TypeOK
<1> DEFINE row == [ledger[r] EXCEPT !.status = "failed"]
<1>4. row \in Cast /\ row.status = "failed" BY <1>2, <1>3 DEF Cast
<1>5. /\ ledger' \in [Requests -> Cast]
      /\ \A q \in Requests :
            \/ ledger'[q] = ledger[q]
            \/ ledger[q].status = "none" /\ ledger'[q].status = "failed"
  <2>1. \/ ledger' = ledger
        \/ ledger[r].status = "none" /\ ledger' = [ledger EXCEPT ![r] = row]
    BY <1>1
  <2> HIDE DEF row
  <2>2. CASE ledger' = ledger BY <1>3, <2>2
  <2>3. CASE ledger[r].status = "none" /\ ledger' = [ledger EXCEPT ![r] = row]
    BY <1>2, <1>3, <1>4, <2>3
  <2> QED BY <2>1, <2>2, <2>3
<1>6. job' \in [Workers -> Job] /\ job'[w] = Idle /\ \A u \in Workers : u # w => job'[u] = job[u]
  BY <1>1, <1>3, IdleTyped
<1>7. Respects(w) BY <1>1, SameRespects
<1>8. \A x \in Lockable : holder'[x] # w
  BY <1>1, InHand DEF Holds, InCast, LetIn, Decided
<1>9. TypeOK' BY <1>1, <1>5, <1>6, <1>7 DEF CastInv, TypeOK, Respects, HolderType
<1>10. \A v \in Viewers : FishOf(v)' = FishOf(v) BY <1>1 DEF FishOf
<1>11. Alone(w) BY <1>1, <1>5, <1>6, <1>7, <1>10 DEF Alone, Respects
<1>12. EveryFishHasItsRow' /\ NoCooldownWithoutCast' BY <1>1, <1>5, <1>10, SameFish
<1>13. Holds(w)' /\ Cools(w)' BY <1>6, <1>8, IdleHolds
<1> QED BY <1>9, <1>11, <1>12, <1>13, OthersKept DEF CastInv

\* Only a worker whose cast is in the ledger writes its cooldown.
LEMMA SetCooldownSafe ==
    ASSUME FishingAssumption, CastInv, NEW w \in Workers, SetCooldown(w)
    PROVE  CastInv'
<1> DEFINE j == job[w]
           v == j.viewer
<1>1. /\ j.pc = "after" /\ job' = [job EXCEPT ![w] = Idle] /\ UNCHANGED <<data, holder, now>>
      /\ \/ redis' = [redis EXCEPT ![v] = now + j.wait] /\ UNCHANGED spent
         \/ spent.losses < MaxLosses /\ Charge("losses") /\ UNCHANGED redis
  BY DEF SetCooldown
<1>2. /\ j \in Job /\ v \in Viewers /\ j.request \in Requests /\ v = Owner[j.request]
      /\ ledger[j.request].status = "resolved" /\ ledger[j.request].wait > 0
      /\ \A x \in Lockable : holder[x] # w
  <2>1. j \in Job /\ Holds(w) /\ Cools(w) /\ v \in Viewers BY <1>1, InHand
  <2> QED BY <1>1, <2>1 DEF Holds, Cools, InCast, LetIn, Decided
<1>3. redis \in [Viewers -> Nat] /\ job \in [Workers -> Job] /\ spent \in SpentType
  BY DEF CastInv, TypeOK, SpentType
<1>4. now + j.wait \in Nat BY <1>2, Numbers DEF Job
<1>5. redis' \in [Viewers -> Nat] /\ \A u \in Viewers : u # v => redis'[u] = redis[u]
  BY <1>1, <1>2, <1>3, <1>4
<1>6. spent' \in SpentType BY <1>1, <1>3, Charged
<1>7. job' \in [Workers -> Job] /\ job'[w] = Idle /\ \A u \in Workers : u # w => job'[u] = job[u]
  BY <1>1, <1>3, IdleTyped
<1>8. UNCHANGED <<users, ledger, stock, ruleset, applied, holder, now>> BY <1>1 DEF data
<1>9. Respects(w) BY <1>1, SameRespects
<1>10. TypeOK'
  BY <1>5, <1>6, <1>7, <1>8 DEF CastInv, TypeOK, SpentType
<1>11. Alone(w) BY <1>7, <1>8, <1>9 DEF Alone, Respects, FishOf
<1>12. EveryFishHasItsRow' BY <1>8, SameFish DEF FishOf
<1>13. NoCooldownWithoutCast'
  <2>1. \A u \in Viewers : Rows(u, "resolved")' = Rows(u, "resolved") BY <1>8 DEF Rows
  <2>2. j.request \in Rows(v, "resolved") BY <1>2 DEF Rows
  <2>3. ASSUME NEW u \in Viewers, redis'[u] > 0
        PROVE  \E q \in Rows(u, "resolved") : ledger[q].wait > 0
    BY <1>2, <1>5, <2>2, <2>3 DEF CastInv, NoCooldownWithoutCast
  <2> QED BY <1>8, <2>1, <2>3 DEF NoCooldownWithoutCast
<1>14. Holds(w)' /\ Cools(w)' BY <1>2, <1>7, <1>8, IdleHolds
<1> QED BY <1>10, <1>11, <1>12, <1>13, <1>14, OthersKept DEF CastInv

\* Redis and the clock change nothing that workers have in hand.
LEMMA WorldSafe ==
    ASSUME FishingAssumption, CastInv, (\E v \in Viewers : RedisLoses(v)) \/ Tick
    PROVE  CastInv'
<1>1. UNCHANGED <<users, ledger, stock, ruleset, applied, holder, job>>
  BY DEF RedisLoses, Tick, data
<1>2. redis' \in [Viewers -> Nat] /\ (\A v \in Viewers : redis'[v] > 0 => redis[v] > 0)
  BY DEF CastInv, TypeOK, RedisLoses, Tick
<1>3. spent' \in SpentType
  <2>1. CASE Tick BY <2>1 DEF Tick, CastInv, TypeOK, SpentType
  <2>2. CASE \E v \in Viewers : RedisLoses(v) BY <2>2, Charged DEF RedisLoses
  <2> QED BY <2>1, <2>2
<1>4. now' \in 0 .. MaxTime
  <2>1. CASE Tick
    <3>1. now \in Nat /\ now < MaxTime /\ now' = now + 1 /\ MaxTime \in Nat
      BY <2>1, Numbers DEF Tick, FishingAssumption
    <3> QED BY <3>1
  <2>2. CASE \E v \in Viewers : RedisLoses(v) BY <2>2, Numbers DEF RedisLoses
  <2> QED BY <2>1, <2>2
<1>5. TypeOK' BY <1>1, <1>2, <1>3, <1>4 DEF CastInv, TypeOK, SpentType
<1>6. \A v \in Viewers : Rows(v, "resolved")' = Rows(v, "resolved") /\ FishOf(v)' = FishOf(v)
  BY <1>1 DEF Rows, FishOf
<1>7. ASSUME NEW w \in Workers PROVE Holds(w)' /\ Cools(w)'
  <2>1. Holds(w) /\ Cools(w) BY InHand
  <2>2. Holds(w)' BY <1>1, <2>1 DEF Holds, FishOf
  <2>3. Cools(w)' BY <1>1, <2>1 DEF Cools, Rows
  <2> QED BY <2>2, <2>3
<1>8. EveryFishHasItsRow' BY <1>6 DEF CastInv, EveryFishHasItsRow, FishOf
<1>9. NoCooldownWithoutCast' BY <1>1, <1>2, <1>6 DEF CastInv, NoCooldownWithoutCast
<1> QED BY <1>5, <1>7, <1>8, <1>9 DEF CastInv

\* The cast is written: one fish and one processed row more.
LEMMA CommitSafe ==
    ASSUME FishingAssumption, NoneApart, Finite, CastInv, NEW w \in Workers, Commit(w)
    PROVE  CastInv'
<1> DEFINE j == job[w]
           v == j.viewer
           r == j.request
           h == j.victim
           entry == [status |-> "resolved", answer |-> j.mine, checked |-> j.checked, wait |-> j.wait,
                     until |-> IF j.wait > 0 THEN j.started + j.wait ELSE 0]
           new == IF j.wait > 0 THEN [j EXCEPT !.pc = "after"] ELSE Idle
<1>1. j.pc = "commit" /\ UNCHANGED <<redis, now, spent>> BY DEF Commit
<1>2. CASE Fails(w) BY <1>1, <1>2, FailsSafe DEF InCast, LetIn, Decided
<1>3. CASE /\ ledger[r].status = "none" /\ Writes(w)
           /\ ledger' = [ledger EXCEPT ![r] = entry]
           /\ job' = [job EXCEPT ![w] = new] /\ holder' = Released(w)
  <2>1. /\ j \in Job /\ j.mine \in Row /\ j.mine.fish = FishOf(v) + 1 /\ holder[v] = w
        /\ r \in Requests /\ v \in Viewers /\ v = Owner[r]
        /\ j.drop => j.left \in 0 .. Stock0
        /\ h # None => /\ h \in Viewers /\ h # v /\ holder[h] = w /\ users[h] # None
                       /\ j.his \in Row /\ j.his.fish = FishOf(h)
    BY <1>1, InHand DEF Holds, InCast, LetIn, Decided
  <2>2. /\ ledger \in [Requests -> Cast] /\ users \in [Viewers -> Row \union {None}]
        /\ applied \in [Viewers -> Int] /\ job \in [Workers -> Job] /\ stock \in 0 .. Stock0
    BY DEF CastInv, TypeOK
  <2>3. entry \in Cast /\ entry.status = "resolved" /\ entry.wait = j.wait BY <2>1 DEF Job, Cast
  <2> HIDE DEF entry
  <2>4. /\ ledger' \in [Requests -> Cast] /\ ledger'[r] = entry
        /\ \A q \in Requests : q # r => ledger'[q] = ledger[q]
    BY <1>3, <2>1, <2>2, <2>3
  <2>5. /\ users' \in [Viewers -> Row \union {None}] /\ users'[v] = j.mine
        /\ h # None => users'[h] = j.his
        /\ \A u \in Viewers : u # v /\ u # h => users'[u] = users[u]
    <3>1. CASE h = None
      <4>1. users' = [users EXCEPT ![v] = j.mine] BY <1>3, <3>1 DEF Writes
      <4> QED BY <2>1, <2>2, <3>1, <4>1
    <3>2. CASE h # None
      <4>1. users' = [[users EXCEPT ![v] = j.mine] EXCEPT ![h] = j.his] BY <1>3, <3>2 DEF Writes
      <4> QED BY <2>1, <2>2, <3>2, <4>1
    <3> QED BY <3>1, <3>2
  <2>6. applied' \in [Viewers -> Int]
    <3> DEFINE gain == applied[v] + j.gained
    <3>1. j.gained \in Int /\ j.landed \in Int BY <2>1 DEF Job
    <3>2. gain \in Int BY <2>1, <2>2, <3>1
    <3>3. \/ applied' = [applied EXCEPT ![v] = gain]
          \/ /\ h # None
             /\ applied' = [[applied EXCEPT ![v] = gain] EXCEPT
                              ![h] = [applied EXCEPT ![v] = gain][h] + j.landed]
      BY <1>3 DEF Writes
    <3> HIDE DEF gain
    <3> QED BY <2>1, <2>2, <3>1, <3>2, <3>3
  <2>7. stock' \in 0 .. Stock0 /\ ruleset' \in BOOLEAN BY <1>3, <2>1, <2>2 DEF Writes
  <2>8. Respects(w) /\ \A x \in Lockable : holder'[x] # w BY <1>3, ReleasedRespects
  <2>9. /\ new \in Job
        /\ new = Idle \/ /\ new.pc = "after" /\ j.wait > 0 /\ new.request = r
                          /\ new.viewer = v /\ new.wait = j.wait
                          /\ new.drop = j.drop /\ new.left = j.left
    BY <2>1, IdleTyped DEF Job
  <2> HIDE DEF new
  <2>10. /\ job' \in [Workers -> Job] /\ job'[w] = new
         /\ \A u \in Workers : u # w => job'[u] = job[u]
    BY <1>3, <2>2, <2>9
  <2>11. TypeOK'
    BY <1>1, <2>2, <2>4, <2>5, <2>6, <2>7, <2>8, <2>10 DEF CastInv, TypeOK, Respects, HolderType
  <2>12. \A u \in Viewers : FishOf(u)' = IF u = v THEN FishOf(u) + 1 ELSE FishOf(u)
    <3>1. \A u \in Viewers : FishOf(u)' = IF users'[u] = None THEN 0 ELSE users'[u].fish
      BY DEF FishOf
    <3>2. j.mine # None /\ (h # None => j.his # None) BY <2>1 DEF NoneApart
    <3>3. ASSUME NEW u \in Viewers, u = v PROVE FishOf(u)' = FishOf(u) + 1
      BY <2>1, <2>5, <3>1, <3>2, <3>3
    <3>4. ASSUME NEW u \in Viewers, u # v, u = h PROVE FishOf(u)' = FishOf(u)
      <4>1. users'[u] = j.his /\ j.his # None BY <2>1, <2>5, <3>2, <3>4 DEF FishingAssumption
      <4> QED BY <2>1, <3>1, <3>4, <4>1 DEF FishingAssumption
    <3>5. ASSUME NEW u \in Viewers, u # v, u # h PROVE FishOf(u)' = FishOf(u)
      BY <2>5, <3>1, <3>5 DEF FishOf
    <3> QED BY <3>3, <3>4, <3>5
  <2>13. \A u \in Viewers : users[u] # None => users'[u] # None
    <3>1. j.mine # None /\ (h # None => j.his # None) BY <2>1 DEF NoneApart
    <3>2. ASSUME NEW u \in Viewers, users[u] # None PROVE users'[u] # None
      <4>1. CASE u = v BY <2>5, <3>1, <4>1
      <4>2. CASE u = h /\ h # None BY <2>5, <3>1, <4>2
      <4>3. CASE u # v /\ u # h BY <2>5, <3>2, <4>3
      <4> QED BY <2>1, <4>1, <4>2, <4>3 DEF FishingAssumption
    <3> QED BY <3>2
  <2>14. \A q \in Requests : ledger[q].status = "resolved" => q # r /\ ledger'[q] = ledger[q]
    BY <1>3, <2>4
  <2>15. Alone(w)
    <3>1. \A u \in Viewers : holder[u] # w => FishOf(u)' = FishOf(u) BY <2>1, <2>12
    <3>2. \A q \in Requests :
             ledger'[q].status = "resolved" /\ ledger[q].status # "resolved" => holder[Owner[q]] = w
      BY <2>1, <2>4
    <3> QED BY <2>8, <2>10, <2>13, <2>14, <3>1, <3>2 DEF Alone, Respects
  <2>16. Holds(w)' /\ Cools(w)'
    <3>1. CASE new = Idle BY <2>8, <2>10, <3>1, IdleHolds
    <3>2. CASE new # Idle
      BY <2>1, <2>3, <2>4, <2>8, <2>9, <2>10, <3>2 DEF Holds, Cools, InCast, LetIn, Decided
    <3> QED BY <3>1, <3>2
  <2>17. /\ r \notin Rows(v, "resolved")
         /\ \A u \in Viewers : Rows(u, "resolved")' =
              IF u = v THEN Rows(u, "resolved") \union {r} ELSE Rows(u, "resolved")
    BY <1>3, <2>1, <2>3, <2>4 DEF Rows
  <2>18. EveryFishHasItsRow'
    <3>1. IsFiniteSet(Rows(v, "resolved")) BY FS_Subset DEF Finite, Rows
    <3>2. Cardinality(Rows(v, "resolved") \union {r}) = Cardinality(Rows(v, "resolved")) + 1
      BY <2>17, <3>1, FS_AddElement
    <3>3. \A u \in Viewers : FishOf(u) = Cardinality(Rows(u, "resolved"))
      BY DEF CastInv, EveryFishHasItsRow, FishOf
    <3>4. \A u \in Viewers : FishOf(u)' = Cardinality(Rows(u, "resolved")')
      BY <2>1, <2>12, <2>17, <3>2, <3>3
    <3> QED BY <3>4 DEF EveryFishHasItsRow, FishOf
  <2>19. NoCooldownWithoutCast'
    <3>1. \A u \in Viewers : \A q \in Rows(u, "resolved") :
             q \in Rows(u, "resolved")' /\ ledger'[q].wait = ledger[q].wait
      BY <2>14 DEF Rows
    <3> QED BY <1>1, <3>1 DEF CastInv, NoCooldownWithoutCast
  <2> QED BY <2>11, <2>15, <2>16, <2>18, <2>19, OthersKept DEF CastInv
<1> QED BY <1>2, <1>3 DEF Commit

-----------------------------------------------------------------------------
(* The inductive invariant *)

LEMMA InitSafe ==
    ASSUME FishingAssumption, NoneApart, Init
    PROVE  CastInv
<1>1. \A m \in Earlier : [NewRow EXCEPT !.mass = m] \in Row /\ [NewRow EXCEPT !.mass = m].fish = 0
  BY DEF NewRow, Row, FishingAssumption
<1>2. users \in [Viewers -> Row \union {None}] /\ \A v \in Viewers : FishOf(v) = 0
  <2>1. \A v \in Viewers : users[v] = None \/ (users[v] \in Row /\ users[v].fish = 0)
    <3>1. ASSUME NEW v \in Viewers
          PROVE  users[v] = None \/ \E m \in Earlier : users[v] = [NewRow EXCEPT !.mass = m]
      BY DEF Init
    <3> QED BY <1>1, <3>1
  <2>2. users \in [Viewers -> Row \union {None}] BY <1>1 DEF Init
  <2> QED BY <2>1, <2>2 DEF FishOf
<1>3. applied \in [Viewers -> Int]
  <2>1. \A v \in Viewers : MassOf(v) \in Int BY <1>2 DEF MassOf, Row
  <2> QED BY <2>1 DEF Init
<1>4. ledger \in [Requests -> Cast] /\ \A r \in Requests : ledger[r].status = "none"
  <2>1. NoCast \in Cast /\ NoCast.status = "none" BY DEF NoCast, Cast
  <2> QED BY <2>1 DEF Init
<1>5. job \in [Workers -> Job] /\ \A w \in Workers : job[w] = Idle BY IdleTyped DEF Init
<1>6. /\ stock \in 0 .. Stock0 /\ ruleset \in BOOLEAN /\ now \in 0 .. MaxTime
      /\ redis \in [Viewers -> Nat] /\ \A v \in Viewers : redis[v] = 0
  BY DEF Init, FishingAssumption
<1>7. /\ holder \in [Lockable -> Workers \union {None}]
      /\ \A w \in Workers, x \in Lockable : holder[x] # w
  BY DEF Init, FishingAssumption
<1>8. spent \in [calls : 0 .. MaxCalls, uses : 0 .. MaxUses,
                 crashes : 0 .. MaxCrashes, losses : 0 .. MaxLosses]
  BY DEF Init, FishingAssumption
<1>9. TypeOK BY <1>2, <1>3, <1>4, <1>5, <1>6, <1>7, <1>8 DEF TypeOK
<1>10. ASSUME NEW w \in Workers PROVE Holds(w) /\ Cools(w)
  BY <1>5, <1>7 DEF Holds, Cools, Idle, InCast, LetIn, Decided
<1>11. EveryFishHasItsRow
  <2>1. \A v \in Viewers : Rows(v, "resolved") = {} BY <1>4 DEF Rows
  <2> QED BY <1>2, <2>1, FS_EmptySet DEF EveryFishHasItsRow, FishOf
<1>12. NoCooldownWithoutCast BY <1>6 DEF NoCooldownWithoutCast
<1> QED BY <1>9, <1>10, <1>11, <1>12 DEF CastInv

LEMMA StutterSafe ==
    ASSUME CastInv, UNCHANGED vars
    PROVE  CastInv'
<1>1. UNCHANGED <<users, ledger, stock, ruleset, applied, holder, redis, now, job, spent>>
  BY DEF vars, data
<1>2. TypeOK' BY <1>1 DEF CastInv, TypeOK
<1>3. \A w \in Workers : Holds(w)' /\ Cools(w)'
  BY <1>1 DEF CastInv, Holds, Cools, FishOf, Rows
<1>4. EveryFishHasItsRow' /\ NoCooldownWithoutCast'
  BY <1>1 DEF CastInv, EveryFishHasItsRow, NoCooldownWithoutCast, Rows
<1> QED BY <1>2, <1>3, <1>4 DEF CastInv

LEMMA NextSafe ==
    ASSUME FishingAssumption, NoneApart, Finite, CastInv, [Next]_vars
    PROVE  CastInv'
<1>1. ASSUME NEW w \in Workers, Works(w) PROVE CastInv'
  <2>1. CASE Replay(w) BY <2>1, ReplaySafe
  <2>2. ASSUME NEW d \in Cooldowns, Reject(w, d) PROVE CastInv' BY <2>2, RejectSafe
  <2>3. ASSUME NEW d \in Cooldowns, LetThrough(w, d) PROVE CastInv' BY <2>3, LetThroughSafe
  <2>4. CASE Catch(w) BY <2>4, CatchSafe
  <2>5. CASE PickVictim(w) BY <2>5, PickVictimSafe
  <2>6. CASE MissRuleset(w) BY <2>6, MissRulesetSafe
  <2>7. CASE Commit(w) BY <2>7, CommitSafe
  <2>8. CASE SetCooldown(w) BY <2>8, SetCooldownSafe
  <2>9. CASE UsedUp(w) BY <2>9, UsedUpSafe
  <2>10. CASE Abort(w) BY <2>10, AbortSafe
  <2> QED BY <1>1, <2>1, <2>2, <2>3, <2>4, <2>5, <2>6, <2>7, <2>8, <2>9, <2>10 DEF Works
<1>2. ASSUME NEW w \in Workers, Waits(w) PROVE CastInv'
  <2>1. CASE LockOwn(w) BY <2>1, LockOwnSafe
  <2>2. CASE Rob(w) BY <2>2, RobSafe
  <2>3. CASE Drop(w) BY <2>3, DropSafe
  <2>4. CASE InsertRuleset(w) BY <2>4, InsertRulesetSafe
  <2>5. CASE RecordFailed(w) BY <2>5, RecordFailedSafe
  <2>6. CASE LockUsed(w) BY <2>6, LockUsedSafe
  <2> QED BY <1>2, <2>1, <2>2, <2>3, <2>4, <2>5, <2>6 DEF Waits
<1>3. ASSUME NEW w \in Workers, Crash(w) PROVE CastInv' BY <1>3, CrashSafe
<1>4. ASSUME NEW w \in Workers, NEW r \in Requests, Call(w, r) PROVE CastInv' BY <1>4, CallSafe
<1>5. ASSUME NEW w \in Workers, NEW v \in Viewers, UseItem(w, v) PROVE CastInv' BY <1>5, UseItemSafe
<1>6. CASE (\E v \in Viewers : RedisLoses(v)) \/ Tick BY <1>6, WorldSafe
<1>7. CASE UNCHANGED vars BY <1>7, StutterSafe
<1> QED BY <1>1, <1>2, <1>3, <1>4, <1>5, <1>6, <1>7 DEF Next

LEMMA CastInvHolds ==
    ASSUME FishingAssumption, NoneApart, Finite
    PROVE  Spec => []CastInv
<1>1. Init => CastInv BY InitSafe
<1>2. CastInv /\ [Next]_vars => CastInv' BY NextSafe
<1> QED BY <1>1, <1>2, PTL DEF Spec

\* Only a commit makes a row a processed cast's.
LEMMA OnlyCommitResolves ==
    ASSUME [Next]_vars, NEW r \in Requests, ledger \in [Requests -> Cast],
           ledger'[r].status = "resolved", ledger'[r] # ledger[r]
    PROVE  \E w \in Workers : Commit(w)
<1>1. ledger' # ledger OBVIOUS
<1>2. ASSUME NEW w \in Workers, NEW d, Reject(w, d) PROVE FALSE
  <2>1. ledger' = [ledger EXCEPT ![job[w].request] = [ledger[job[w].request] EXCEPT !.status = "rejected"]]
    BY <1>1, <1>2 DEF Reject, Fails, data
  <2>2. ledger'[r] = ledger[r] \/ ledger'[r].status = "rejected" BY <2>1 DEF Cast
  <2> QED BY <2>2
<1>3. ASSUME NEW w \in Workers, RecordFailed(w) PROVE FALSE
  <2>1. ledger' = [ledger EXCEPT ![job[w].request] = [ledger[job[w].request] EXCEPT !.status = "failed"]]
    BY <1>1, <1>3 DEF RecordFailed
  <2>2. ledger'[r] = ledger[r] \/ ledger'[r].status = "failed" BY <2>1 DEF Cast
  <2> QED BY <2>2
<1>4. ASSUME NEW w \in Workers, Works(w) \/ Waits(w) PROVE Commit(w)
  <2>1. ~Replay(w) /\ ~Catch(w) /\ ~PickVictim(w) /\ ~MissRuleset(w) /\ ~SetCooldown(w)
    BY <1>1 DEF Replay, Catch, PickVictim, MissRuleset, SetCooldown, data
  <2>2. ~UsedUp(w) /\ ~Abort(w) BY <1>1 DEF UsedUp, Abort, Fails, data
  <2>3. ~(\E d \in Cooldowns : Reject(w, d) \/ LetThrough(w, d))
    BY <1>1, <1>2 DEF LetThrough, data
  <2>4. ~LockOwn(w) /\ ~Rob(w) /\ ~Drop(w) /\ ~InsertRuleset(w) /\ ~LockUsed(w)
    BY <1>1 DEF LockOwn, Rob, Drop, InsertRuleset, LockUsed, Fails, data
  <2> QED BY <1>3, <1>4, <2>1, <2>2, <2>3, <2>4 DEF Works, Waits
<1>5. ~(\E w \in Workers : \/ Crash(w) \/ (\E q \in Requests : Call(w, q))
                              \/ (\E v \in Viewers : UseItem(w, v)))
  BY <1>1 DEF Crash, Call, UseItem, data
<1>6. ~(\E v \in Viewers : RedisLoses(v)) /\ ~Tick BY <1>1 DEF RedisLoses, Tick, data
<1>7. ~UNCHANGED vars BY <1>1 DEF vars, data
<1> QED BY <1>4, <1>5, <1>6, <1>7 DEF Next

LEMMA CooldownHeldSafe ==
    ASSUME FishingAssumption, CastInv, [Next]_vars
    PROVE  CooldownHeldStep
<1> SUFFICES ASSUME NEW r \in Requests, ledger'[r].status = "resolved", ledger[r] # ledger'[r],
                    ledger'[r].wait > 0, NEW q \in Rows(Owner[r], "resolved")
             PROVE  ledger[q].until <= ledger'[r].checked
  BY DEF CooldownHeldStep
<1>1. ledger \in [Requests -> Cast] BY DEF CastInv, TypeOK
<1>2. PICK w \in Workers : Commit(w) BY <1>1, OnlyCommitResolves
<1> DEFINE j == job[w]
           entry == [status |-> "resolved", answer |-> j.mine, checked |-> j.checked, wait |-> j.wait,
                     until |-> IF j.wait > 0 THEN j.started + j.wait ELSE 0]
<1>3. j.pc = "commit" /\ ledger' = [ledger EXCEPT ![j.request] = entry]
  BY <1>2 DEF Commit, Fails, data
<1>4. entry.wait = j.wait /\ entry.checked = j.checked OBVIOUS
<1> HIDE DEF entry
<1>5. r = j.request /\ ledger'[r] = entry BY <1>1, <1>3
<1>6. Owner[r] = j.viewer BY <1>3, <1>5, InHand DEF Holds, InCast, LetIn, Decided
<1>7. j.wait > 0 /\ ledger'[r].checked = j.checked BY <1>4, <1>5
<1> QED BY <1>3, <1>6, <1>7 DEF CastInv, Cools, LetIn, Decided

-----------------------------------------------------------------------------
(* Mass: what a worker has in hand is what the tables hold and what it reports. *)

Balanced(j) ==
    /\ j.pc \notin {"taken", "held"}
    /\ j.pc \in InCast \ Decided => j.mine.mass = MassOf(j.viewer)
    /\ j.pc \in Decided => j.mine.mass = MassOf(j.viewer) + j.gained
    /\ j.pc \in Decided /\ j.victim # None => j.his.mass = MassOf(j.victim) + j.landed

MassInv ==
    /\ \A w \in Workers : Balanced(job[w])
    /\ MassAccounted

\* The rows that a worker holds are changed by nobody else.
LEMMA OthersBalanced ==
    ASSUME FishingAssumption, CastInv, MassInv, NEW w \in Workers, NEW u \in Workers, u # w,
           job'[u] = job[u], \A v \in Viewers : holder[v] # w => MassOf(v)' = MassOf(v)
    PROVE  Balanced(job[u])'
<1> DEFINE j == job[u]
<1>1. Balanced(j) /\ Holds(u) BY InHand DEF MassInv
<1>2. j.pc \in InCast => j.viewer \in Viewers /\ holder[j.viewer] = u BY InHand DEF Holds
<1>3. j.pc \in Decided /\ j.victim # None => j.victim \in Viewers /\ holder[j.victim] = u
  BY <1>1 DEF Holds
<1>4. j.pc \in InCast => \A v \in Viewers : v = j.viewer => MassOf(v)' = MassOf(v) BY <1>2
<1>5. j.pc \in Decided /\ j.victim # None => \A v \in Viewers : v = j.victim => MassOf(v)' = MassOf(v)
  BY <1>3
<1> HIDE DEF j
<1>6. job'[u] = j BY DEF j
<1>7. ASSUME NEW m, m = j PROVE (Balanced(m))'
  BY <1>1, <1>2, <1>3, <1>4, <1>5, <1>7 DEF Balanced, InCast, LetIn, Decided
<1> QED BY <1>6, <1>7

\* A step that writes no row is in order when what the worker takes in hand is.
LEMMA QuietBalanced ==
    ASSUME FishingAssumption, CastInv, MassInv, NEW w \in Workers, NEW new, Balanced(new),
           job' = [job EXCEPT ![w] = new], UNCHANGED data
    PROVE  MassInv'
<1>1. UNCHANGED <<users, applied>> BY DEF data
<1>2. job'[w] = new /\ \A u \in Workers : u # w => job'[u] = job[u] BY DEF CastInv, TypeOK
<1>3. \A v \in Viewers : MassOf(v)' = MassOf(v) BY <1>1 DEF MassOf
<1>4. Balanced(job[w])' BY <1>1, <1>2 DEF Balanced, MassOf
<1>5. \A u \in Workers : Balanced(job[u])' BY <1>2, <1>3, <1>4, OthersBalanced
<1>6. MassAccounted' BY <1>1, <1>3 DEF MassInv, MassAccounted
<1> QED BY <1>5, <1>6 DEF MassInv

LEMMA IdleBalanced == Balanced(Idle)
BY DEF Balanced, Idle, InCast, LetIn, Decided

LEMMA FailsBalanced ==
    ASSUME FishingAssumption, CastInv, MassInv, NEW w \in Workers, Fails(w)
    PROVE  MassInv'
<1> DEFINE new == [job[w] EXCEPT !.pc = "failing"]
<1>1. job' = [job EXCEPT ![w] = new] /\ UNCHANGED data BY DEF Fails
<1>2. new.pc = "failing" BY InHand DEF Job
<1> HIDE DEF new
<1>3. Balanced(new) BY <1>2 DEF Balanced, InCast, LetIn, Decided
<1> QED BY <1>1, <1>3, QuietBalanced

LEMMA CallBalanced ==
    ASSUME FishingAssumption, CastInv, MassInv, NEW w \in Workers, NEW r \in Requests, Call(w, r)
    PROVE  MassInv'
<1> DEFINE new == [Idle EXCEPT !.pc = "own", !.request = r, !.viewer = Owner[r], !.started = now]
<1>1. job' = [job EXCEPT ![w] = new] /\ UNCHANGED data BY DEF Call
<1>2. new.pc = "own" BY DEF Idle
<1> HIDE DEF new
<1>3. Balanced(new) BY <1>2 DEF Balanced, InCast, LetIn, Decided
<1> QED BY <1>1, <1>3, QuietBalanced

LEMMA LockOwnBalanced ==
    ASSUME FishingAssumption, CastInv, MassInv, NEW w \in Workers, LockOwn(w)
    PROVE  MassInv'
<1> DEFINE v == job[w].viewer
           row == IF users[v] = None THEN NewRow ELSE users[v]
           new == [job[w] EXCEPT !.pc = "check", !.mine = row]
<1>1. job' = [job EXCEPT ![w] = new] /\ UNCHANGED data BY DEF LockOwn
<1>2. row.mass = MassOf(v) BY DEF NewRow, MassOf
<1> HIDE DEF row
<1>3. new.pc = "check" /\ new.mine = row /\ new.viewer = v BY InHand DEF Job
<1> HIDE DEF new
<1>4. Balanced(new) BY <1>2, <1>3 DEF Balanced, InCast, LetIn, Decided
<1> QED BY <1>1, <1>4, QuietBalanced

\* A worker goes on with the same rows in hand.
LEMMA SameBalanced ==
    ASSUME FishingAssumption, CastInv, MassInv, NEW w \in Workers, NEW new \in Job,
           job[w].pc \in InCast, new.pc \in InCast, new.pc \in Decided <=> job[w].pc \in Decided,
           new.viewer = job[w].viewer, new.mine.mass = job[w].mine.mass,
           new.gained = job[w].gained,
           new.pc \in Decided => new.victim = job[w].victim /\ new.his = job[w].his
                                 /\ new.landed = job[w].landed,
           job' = [job EXCEPT ![w] = new], UNCHANGED data
    PROVE  MassInv'
<1>1. Balanced(job[w]) BY DEF MassInv
<1>2. Balanced(new) BY <1>1 DEF Balanced, InCast, LetIn, Decided
<1> QED BY <1>2, QuietBalanced

LEMMA LetThroughBalanced ==
    ASSUME FishingAssumption, CastInv, MassInv, NEW w \in Workers, NEW d \in Cooldowns, LetThrough(w, d)
    PROVE  MassInv'
<1> DEFINE j == job[w]
           new == [j EXCEPT !.pc = "roll", !.checked = now, !.wait = d]
<1>1. j.pc = "check" /\ job' = [job EXCEPT ![w] = new] /\ UNCHANGED data BY DEF LetThrough
<1>2. d \in Nat /\ now \in Nat /\ j \in Job BY Numbers, InHand DEF FishingAssumption
<1>3. /\ new \in Job /\ new.pc = "roll" /\ new.viewer = j.viewer /\ new.mine = j.mine
      /\ new.gained = j.gained
  BY <1>2 DEF Job
<1> HIDE DEF new
<1> QED BY <1>1, <1>3, SameBalanced DEF InCast, LetIn, Decided

LEMMA CaughtBalanced ==
    ASSUME FishingAssumption, CastInv, MassInv, NEW w \in Workers, job[w].pc = "roll",
           NEW pc \in {"drop", "commit"}, NEW mass \in Nat, NEW dropped \in BOOLEAN,
           Caught(w, pc, mass, dropped), UNCHANGED data
    PROVE  MassInv'
<1> DEFINE j == job[w]
           mine == Grow(j.mine, mass)
           gained == mass - j.mine.mass
           new == [j EXCEPT !.pc = pc, !.drop = dropped, !.left = stock, !.gained = gained,
                            !.mine = mine]
<1>1. job' = [job EXCEPT ![w] = new] BY DEF Caught, Grow
<1>2. j \in Job /\ j.mine \in Row /\ j.victim = None BY InHand DEF Holds, InCast, LetIn
<1>3. j.mine.mass = MassOf(j.viewer) BY DEF MassInv, Balanced, InCast, LetIn, Decided
<1>4. mine.mass = mass BY <1>2, Grown
<1>5. j.mine.mass \in Nat /\ mass = j.mine.mass + gained BY <1>2 DEF Row
<1> HIDE DEF mine, gained
<1>6. new.pc = pc /\ new.mine = mine /\ new.gained = gained /\ new.viewer = j.viewer
      /\ new.victim = None
  BY <1>2 DEF Job
<1> HIDE DEF new
<1>7. Balanced(new) BY <1>3, <1>4, <1>5, <1>6 DEF Balanced, InCast, LetIn, Decided
<1> QED BY <1>1, <1>7, QuietBalanced

LEMMA CatchBalanced ==
    ASSUME FishingAssumption, CastInv, MassInv, NEW w \in Workers, Catch(w)
    PROVE  MassInv'
<1>1. PICK d \in Deltas, dropped \in BOOLEAN :
         Caught(w, IF dropped THEN "drop" ELSE "commit", Floored(job[w].mine.mass, d), dropped)
  BY DEF Catch
<1>2. job[w].pc = "roll" /\ UNCHANGED data BY DEF Catch
<1>3. job[w].mine \in Row BY <1>2, InHand DEF Holds, InCast, LetIn
<1>4. Floored(job[w].mine.mass, d) \in Nat BY <1>3, FlooredNat DEF Row, FishingAssumption
<1>5. (IF dropped THEN "drop" ELSE "commit") \in {"drop", "commit"} OBVIOUS
<1> QED BY <1>1, <1>2, <1>4, <1>5, CaughtBalanced

LEMMA PickVictimBalanced ==
    ASSUME FishingAssumption, CastInv, MassInv, NEW w \in Workers, PickVictim(w)
    PROVE  MassInv'
<1> DEFINE j == job[w]
           found == Victims(j.viewer, j.mine.mass)
<1>1. PICK dropped \in BOOLEAN :
         IF found = {}
         THEN Caught(w, IF dropped THEN "drop" ELSE "commit", j.mine.mass, dropped)
         ELSE \E u \in found :
                job' = [job EXCEPT ![w] =
                  [j EXCEPT !.pc = "victim", !.victim = u, !.his = users[u],
                            !.drop = dropped, !.left = stock]]
  BY DEF PickVictim
<1>2. j.pc = "roll" /\ UNCHANGED data /\ stock \in Nat BY Numbers DEF PickVictim
<1>3. j \in Job /\ j.mine \in Row BY <1>2, InHand DEF Holds, InCast, LetIn
<1>4. CASE found = {}
  <2>1. j.mine.mass \in Nat BY <1>3 DEF Row
  <2>2. (IF dropped THEN "drop" ELSE "commit") \in {"drop", "commit"} OBVIOUS
  <2> QED BY <1>1, <1>2, <1>4, <2>1, <2>2, CaughtBalanced
<1>5. CASE found # {}
  <2>1. PICK u \in found :
           job' = [job EXCEPT ![w] =
             [j EXCEPT !.pc = "victim", !.victim = u, !.his = users[u],
                       !.drop = dropped, !.left = stock]]
    BY <1>1, <1>5
  <2> DEFINE new == [j EXCEPT !.pc = "victim", !.victim = u, !.his = users[u],
                              !.drop = dropped, !.left = stock]
  <2>2. job' = [job EXCEPT ![w] = new] BY <2>1
  <2>3. u \in Viewers /\ users[u] \in Row BY DEF Victims, CastInv, TypeOK
  <2>4. /\ new \in Job /\ new.pc = "victim" /\ new.viewer = j.viewer /\ new.mine = j.mine
        /\ new.gained = j.gained
    BY <1>2, <1>3, <2>3 DEF Job
  <2> HIDE DEF new
  <2> QED BY <1>2, <2>2, <2>4, SameBalanced DEF InCast, LetIn, Decided
<1> QED BY <1>4, <1>5

LEMMA RobBalanced ==
    ASSUME FishingAssumption, CastInv, MassInv, NEW w \in Workers, Rob(w)
    PROVE  MassInv'
<1> DEFINE j == job[w]
           his == users[j.victim]
<1>1. j.pc = "victim" /\ UNCHANGED data BY DEF Rob
<1>2. PICK wanted \in {0} \union {d \in Deltas : d > 0},
           cost \in {0} \union {-d : d \in {c \in Deltas : c < 0}} :
         LET left == Floored(his.mass, -wanted)
             taken == his.mass - left
             mass == Floored(j.mine.mass, -cost) + taken IN
         job' = [job EXCEPT ![w] =
           [j EXCEPT !.pc = IF j.drop THEN "drop" ELSE "commit",
                     !.mine = [j.mine EXCEPT !.fish = j.mine.fish + 1, !.mass = mass],
                     !.gained = mass - j.mine.mass,
                     !.his = [his EXCEPT !.mass = left],
                     !.landed = -taken]]
  BY DEF Rob, VictimsRow
<1>3. /\ j \in Job /\ j.mine \in Row /\ j.mine.mass = MassOf(j.viewer)
      /\ j.victim \in Viewers /\ users[j.victim] # None
  BY <1>1, InHand DEF Holds, InCast, LetIn, Decided, MassInv, Balanced
<1>4. his \in Row /\ his.mass = MassOf(j.victim) BY <1>3 DEF CastInv, TypeOK, MassOf
<1>5. wanted \in Nat /\ -cost \in Int BY DEF FishingAssumption
<1> DEFINE left == Floored(his.mass, -wanted)
           taken == his.mass - left
           mass == Floored(j.mine.mass, -cost) + taken
           gained == mass - j.mine.mass
           pc == IF j.drop THEN "drop" ELSE "commit"
           mine == Grow(j.mine, mass)
           hers == [his EXCEPT !.mass = left]
           new == [j EXCEPT !.pc = pc, !.mine = mine, !.gained = gained, !.his = hers,
                            !.landed = -taken]
<1>6. job' = [job EXCEPT ![w] = new] BY <1>2 DEF Grow
<1>7. his.mass \in Nat /\ j.mine.mass \in Nat BY <1>3, <1>4 DEF Row
<1>8. left \in Nat /\ taken \in Nat BY <1>5, <1>7, Robbed
<1>9. left = his.mass + (-taken) BY <1>7, <1>8
<1> HIDE DEF left
<1> HIDE DEF taken
<1>10. mass \in Nat
  <2>1. Floored(j.mine.mass, -cost) \in Nat BY <1>5, <1>7, FlooredNat
  <2> QED BY <1>8, <2>1
<1> HIDE DEF mass
<1>11. mass = j.mine.mass + gained BY <1>7, <1>10
<1>12. mine.mass = mass BY <1>3, <1>10, Grown
<1>13. hers.mass = left BY <1>4 DEF Row
<1>14. pc \in Decided BY DEF Decided
<1> HIDE DEF gained, mine, hers, pc
<1>15. new.pc = pc /\ new.mine = mine /\ new.gained = gained /\ new.his = hers
       /\ new.landed = -taken /\ new.viewer = j.viewer /\ new.victim = j.victim
  BY <1>3 DEF Job
<1> HIDE DEF new
<1>16. Balanced(new)
  BY <1>3, <1>4, <1>9, <1>11, <1>12, <1>13, <1>14, <1>15 DEF Balanced, InCast, LetIn, Decided
<1> QED BY <1>1, <1>6, <1>16, QuietBalanced

LEMMA DropBalanced ==
    ASSUME FishingAssumption, CastInv, MassInv, NEW w \in Workers, Drop(w)
    PROVE  MassInv'
<1> DEFINE j == job[w]
<1>1. j.pc = "drop" /\ UNCHANGED data /\ j \in Job /\ j.mine \in Row /\ j.mine.bag \in Nat
      /\ j.mine.parked \in Nat
  <2>1. j.pc = "drop" /\ UNCHANGED data BY DEF Drop
  <2>2. j \in Job /\ j.mine \in Row BY <2>1, InHand DEF Holds, InCast, LetIn, Decided
  <2> QED BY <2>1, <2>2 DEF Row
<1>2. stock \in Nat BY Numbers
<1>3. ASSUME NEW new \in Job, job' = [job EXCEPT ![w] = new], new.pc = "commit",
             new.viewer = j.viewer, new.victim = j.victim, new.his = j.his,
             new.gained = j.gained, new.landed = j.landed, new.mine.mass = j.mine.mass
      PROVE  MassInv'
  BY <1>1, <1>3, SameBalanced DEF InCast, LetIn, Decided
<1>4. CASE Fails(w) BY <1>4, FailsBalanced
<1>5. CASE job' = [job EXCEPT ![w] = [j EXCEPT !.pc = "commit", !.drop = FALSE]]
  <2> DEFINE new == [j EXCEPT !.pc = "commit", !.drop = FALSE]
  <2>1. /\ new \in Job /\ new.pc = "commit" /\ new.viewer = j.viewer /\ new.victim = j.victim
        /\ new.his = j.his /\ new.gained = j.gained /\ new.landed = j.landed /\ new.mine = j.mine
    BY <1>1 DEF Job
  <2>2. job' = [job EXCEPT ![w] = new] BY <1>5
  <2> HIDE DEF new
  <2> QED BY <1>3, <2>1, <2>2
<1>6. ASSUME stock > 0, NEW mine \in Row, mine.mass = j.mine.mass,
             job' = [job EXCEPT ![w] = [j EXCEPT !.pc = "commit", !.left = stock - 1, !.mine = mine]]
      PROVE  MassInv'
  <2> DEFINE new == [j EXCEPT !.pc = "commit", !.left = stock - 1, !.mine = mine]
  <2>1. stock - 1 \in Nat BY <1>2, <1>6
  <2>2. /\ new \in Job /\ new.pc = "commit" /\ new.viewer = j.viewer /\ new.victim = j.victim
        /\ new.his = j.his /\ new.gained = j.gained /\ new.landed = j.landed /\ new.mine = mine
    BY <1>1, <2>1 DEF Job
  <2>3. job' = [job EXCEPT ![w] = new] BY <1>6
  <2> HIDE DEF new
  <2> QED BY <1>3, <1>6, <2>2, <2>3
<1>7. CASE stock > 0 /\ job' = [job EXCEPT ![w] = [j EXCEPT !.pc = "commit", !.left = stock - 1]]
  <2> DEFINE new == [j EXCEPT !.pc = "commit", !.left = stock - 1]
  <2>1. stock - 1 \in Nat BY <1>2, <1>7
  <2>2. /\ new \in Job /\ new.pc = "commit" /\ new.viewer = j.viewer /\ new.victim = j.victim
        /\ new.his = j.his /\ new.gained = j.gained /\ new.landed = j.landed /\ new.mine = j.mine
    BY <1>1, <2>1 DEF Job
  <2>3. job' = [job EXCEPT ![w] = new] BY <1>7
  <2> HIDE DEF new
  <2> QED BY <1>3, <2>2, <2>3
<1> DEFINE bagged == [j.mine EXCEPT !.bag = j.mine.bag + 1]
           parked == [j.mine EXCEPT !.parked = j.mine.parked + 1]
           mine == IF j.mine.bag < Slots THEN bagged ELSE parked
<1>8. /\ bagged \in Row /\ bagged.mass = j.mine.mass
      /\ parked \in Row /\ parked.mass = j.mine.mass
  BY <1>1 DEF Row
<1>9. \/ Fails(w)
      \/ job' = [job EXCEPT ![w] = [j EXCEPT !.pc = "commit", !.drop = FALSE]]
      \/ stock > 0 /\ job' = [job EXCEPT ![w] = [j EXCEPT !.pc = "commit", !.left = stock - 1,
                                                          !.mine = mine]]
      \/ stock > 0 /\ job' = [job EXCEPT ![w] = [j EXCEPT !.pc = "commit", !.left = stock - 1]]
  BY <1>2 DEF Drop, Reservable
<1> HIDE DEF bagged, parked
<1>10. mine \in Row /\ mine.mass = j.mine.mass BY <1>8
<1> HIDE DEF mine
<1> QED BY <1>4, <1>5, <1>6, <1>7, <1>9, <1>10

LEMMA RulesetBalanced ==
    ASSUME FishingAssumption, CastInv, MassInv, NEW w \in Workers,
           MissRuleset(w) \/ InsertRuleset(w)
    PROVE  MassInv'
<1> DEFINE j == job[w]
           new(pc) == [j EXCEPT !.pc = pc]
<1>1. PICK pc \in {"insert", "commit"} :
         j.pc \in {"commit", "insert"}
         /\ (Fails(w) \/ (job' = [job EXCEPT ![w] = new(pc)] /\ UNCHANGED data))
  BY DEF MissRuleset, InsertRuleset
<1>2. /\ new(pc) \in Job /\ new(pc).pc = pc /\ new(pc).viewer = j.viewer /\ new(pc).victim = j.victim
      /\ new(pc).his = j.his /\ new(pc).gained = j.gained /\ new(pc).landed = j.landed
      /\ new(pc).mine = j.mine
  BY InHand DEF Job
<1> HIDE DEF new
<1>3. CASE Fails(w) BY <1>3, FailsBalanced
<1>4. CASE job' = [job EXCEPT ![w] = new(pc)] /\ UNCHANGED data
  BY <1>1, <1>2, <1>4, SameBalanced DEF InCast, LetIn, Decided
<1> QED BY <1>1, <1>3, <1>4

\* A rejected cast writes the row that was read, a new one at first.
LEMMA RejectBalanced ==
    ASSUME FishingAssumption, NoneApart, CastInv, MassInv, NEW w \in Workers, NEW d \in Cooldowns,
           Reject(w, d)
    PROVE  MassInv'
<1> DEFINE j == job[w]
           v == j.viewer
<1>1. CASE Fails(w) BY <1>1, FailsBalanced
<1>2. CASE /\ users' = [users EXCEPT ![v] = j.mine] /\ job' = [job EXCEPT ![w] = Idle]
           /\ UNCHANGED applied
  <2>1. j.pc = "check" BY DEF Reject
  <2>2. v \in Viewers /\ j.mine \in Row /\ j.mine.mass = MassOf(v) /\ j.mine # None
    BY <2>1, InHand DEF Holds, InCast, LetIn, Decided, MassInv, Balanced, NoneApart
  <2>3. users \in [Viewers -> Row \union {None}] BY DEF CastInv, TypeOK
  <2>4. \A u \in Viewers : MassOf(u)' = MassOf(u)
    <3>1. \A u \in Viewers : MassOf(u)' = IF users'[u] = None THEN 0 ELSE users'[u].mass BY DEF MassOf
    <3>2. \A u \in Viewers : users'[u] = IF u = v THEN j.mine ELSE users[u] BY <1>2, <2>2, <2>3
    <3> QED BY <2>2, <3>1, <3>2 DEF MassOf
  <2>5. job'[w] = Idle /\ \A u \in Workers : u # w => job'[u] = job[u] BY <1>2 DEF CastInv, TypeOK
  <2>6. Balanced(job[w])' BY <2>5 DEF Balanced, Idle, InCast, LetIn, Decided
  <2>7. \A u \in Workers : Balanced(job[u])' BY <2>4, <2>5, <2>6, OthersBalanced
  <2>8. MassAccounted' BY <1>2, <2>4 DEF MassInv, MassAccounted
  <2> QED BY <2>7, <2>8 DEF MassInv
<1> QED BY <1>1, <1>2 DEF Reject

\* What a committed cast reports is what it leaves in the rows of both.
LEMMA CommitBalanced ==
    ASSUME FishingAssumption, NoneApart, CastInv, MassInv, NEW w \in Workers, Commit(w)
    PROVE  MassInv'
<1> DEFINE j == job[w]
           v == j.viewer
           h == j.victim
           new == IF j.wait > 0 THEN [j EXCEPT !.pc = "after"] ELSE Idle
<1>1. CASE Fails(w) BY <1>1, FailsBalanced
<1>2. CASE Writes(w) /\ job' = [job EXCEPT ![w] = new]
  <2>1. j.pc = "commit" BY DEF Commit
  <2>2. /\ j \in Job /\ j.mine \in Row /\ j.mine # None /\ v \in Viewers
        /\ j.mine.mass = MassOf(v) + j.gained /\ holder[v] = w
        /\ h # None => /\ h \in Viewers /\ h # v /\ j.his \in Row /\ j.his # None
                       /\ j.his.mass = MassOf(h) + j.landed /\ holder[h] = w
    BY <2>1, InHand DEF Holds, InCast, LetIn, Decided, MassInv, Balanced, NoneApart
  <2>3. users \in [Viewers -> Row \union {None}] /\ applied \in [Viewers -> Int]
    BY DEF CastInv, TypeOK
  <2>4. j.gained \in Int /\ j.landed \in Int BY <2>2 DEF Job
  <2>5. \A u \in Viewers : MassOf(u) \in Int BY <2>3 DEF MassOf, Row
  <2>6. \A u \in Viewers : MassOf(u)' = IF users'[u] = None THEN 0 ELSE users'[u].mass
    BY DEF MassOf
  <2>7. /\ users'[v] = j.mine /\ applied'[v] = applied[v] + j.gained
        /\ h # None => users'[h] = j.his /\ applied'[h] = applied[h] + j.landed
        /\ \A u \in Viewers : u # v /\ u # h => users'[u] = users[u] /\ applied'[u] = applied[u]
    <3>1. CASE h = None
      <4>1. /\ users' = [users EXCEPT ![v] = j.mine]
            /\ applied' = [applied EXCEPT ![v] = applied[v] + j.gained]
        BY <1>2, <3>1 DEF Writes
      <4> QED BY <2>2, <2>3, <3>1, <4>1
    <3>2. CASE h # None
      <4> DEFINE gain == [applied EXCEPT ![v] = applied[v] + j.gained]
      <4>1. users' = [[users EXCEPT ![v] = j.mine] EXCEPT ![h] = j.his] BY <1>2, <3>2 DEF Writes
      <4>2. applied' = [gain EXCEPT ![h] = gain[h] + j.landed] BY <1>2, <3>2 DEF Writes
      <4>3. /\ gain \in [Viewers -> Int] /\ gain[v] = applied[v] + j.gained
            /\ \A u \in Viewers : u # v => gain[u] = applied[u]
        BY <2>2, <2>3, <2>4
      <4> HIDE DEF gain
      <4>4. /\ users'[v] = j.mine /\ users'[h] = j.his
            /\ \A u \in Viewers : u # v /\ u # h => users'[u] = users[u]
        BY <2>2, <2>3, <3>2, <4>1
      <4>5. /\ applied'[v] = gain[v] /\ applied'[h] = gain[h] + j.landed
            /\ \A u \in Viewers : u # v /\ u # h => applied'[u] = gain[u]
        BY <2>2, <3>2, <4>2, <4>3
      <4> QED BY <2>2, <3>2, <4>3, <4>4, <4>5
    <3> QED BY <3>1, <3>2
  <2>8. \A u \in Viewers : u # v /\ u # h => MassOf(u)' = MassOf(u) BY <2>6, <2>7 DEF MassOf
  <2>9. \A u \in Viewers : MassOf(u) = applied[u] BY DEF MassInv, MassAccounted
  <2>10. ASSUME NEW u \in Viewers PROVE MassOf(u)' = applied'[u]
    <3>1. CASE u = v BY <2>2, <2>6, <2>7, <2>9, <3>1
    <3>2. CASE u = h /\ u # v
      <4>1. h # None BY <3>2 DEF FishingAssumption
      <4> QED BY <2>2, <2>6, <2>7, <2>9, <3>2, <4>1
    <3>3. CASE u # v /\ u # h BY <2>7, <2>8, <2>9, <3>3
    <3> QED BY <3>1, <3>2, <3>3
  <2>11. \A u \in Viewers : holder[u] # w => MassOf(u)' = MassOf(u)
    BY <2>2, <2>8 DEF FishingAssumption
  <2>12. new.pc \in {"idle", "after"} BY <2>2 DEF Job, Idle
  <2> HIDE DEF new
  <2>13. job'[w] = new /\ \A u \in Workers : u # w => job'[u] = job[u] BY <1>2 DEF CastInv, TypeOK
  <2>14. Balanced(job[w])' BY <2>12, <2>13 DEF Balanced, InCast, LetIn, Decided
  <2>15. \A u \in Workers : Balanced(job[u])' BY <2>11, <2>13, <2>14, OthersBalanced
  <2>16. MassAccounted' BY <2>10 DEF MassAccounted
  <2> QED BY <2>15, <2>16 DEF MassInv
<1> QED BY <1>1, <1>2 DEF Commit

\* A worker ends its work; other steps leave rows and workers alone.
LEMMA EndBalanced ==
    ASSUME FishingAssumption, CastInv, MassInv, NEW w \in Workers,
           job' = [job EXCEPT ![w] = Idle], UNCHANGED <<users, applied>>
    PROVE  MassInv'
<1>1. job'[w] = Idle /\ \A u \in Workers : u # w => job'[u] = job[u] BY DEF CastInv, TypeOK
<1>2. \A v \in Viewers : MassOf(v)' = MassOf(v) BY DEF MassOf
<1>3. Balanced(job[w])' BY <1>1 DEF Balanced, Idle, InCast, LetIn, Decided
<1>4. \A u \in Workers : Balanced(job[u])' BY <1>1, <1>2, <1>3, OthersBalanced
<1>5. MassAccounted' BY <1>2 DEF MassInv, MassAccounted
<1> QED BY <1>4, <1>5 DEF MassInv

LEMMA StillBalanced ==
    ASSUME MassInv, UNCHANGED <<users, applied, job>>
    PROVE  MassInv'
BY DEF MassInv, Balanced, MassOf, MassAccounted

LEMMA NextBalanced ==
    ASSUME FishingAssumption, NoneApart, MaxUses = 0, CastInv, MassInv, [Next]_vars
    PROVE  MassInv'
<1>1. ASSUME NEW w \in Workers, Works(w) PROVE MassInv'
  <2>1. CASE Replay(w) BY <2>1, EndBalanced DEF Replay, data
  <2>2. ASSUME NEW d \in Cooldowns, Reject(w, d) PROVE MassInv' BY <2>2, RejectBalanced
  <2>3. ASSUME NEW d \in Cooldowns, LetThrough(w, d) PROVE MassInv' BY <2>3, LetThroughBalanced
  <2>4. CASE Catch(w) BY <2>4, CatchBalanced
  <2>5. CASE PickVictim(w) BY <2>5, PickVictimBalanced
  <2>6. CASE MissRuleset(w) BY <2>6, RulesetBalanced
  <2>7. CASE Commit(w) BY <2>7, CommitBalanced
  <2>8. CASE SetCooldown(w) BY <2>8, EndBalanced DEF SetCooldown, data
  <2>9. CASE UsedUp(w) BY <2>9 DEF UsedUp, MassInv, Balanced
  <2>10. CASE Abort(w) BY <2>10, FailsBalanced DEF Abort
  <2> QED BY <1>1, <2>1, <2>2, <2>3, <2>4, <2>5, <2>6, <2>7, <2>8, <2>9, <2>10 DEF Works
<1>2. ASSUME NEW w \in Workers, Waits(w) PROVE MassInv'
  <2>1. CASE LockOwn(w) BY <2>1, LockOwnBalanced
  <2>2. CASE Rob(w) BY <2>2, RobBalanced
  <2>3. CASE Drop(w) BY <2>3, DropBalanced
  <2>4. CASE InsertRuleset(w) BY <2>4, RulesetBalanced
  <2>5. CASE RecordFailed(w) BY <2>5, EndBalanced DEF RecordFailed
  <2>6. CASE LockUsed(w) BY <2>6 DEF LockUsed, MassInv, Balanced
  <2> QED BY <1>2, <2>1, <2>2, <2>3, <2>4, <2>5, <2>6 DEF Waits
<1>3. ASSUME NEW w \in Workers, Crash(w) PROVE MassInv' BY <1>3, EndBalanced DEF Crash, data
<1>4. ASSUME NEW w \in Workers, NEW r \in Requests, Call(w, r) PROVE MassInv' BY <1>4, CallBalanced
<1>5. ASSUME NEW w \in Workers, NEW v \in Viewers, UseItem(w, v) PROVE MassInv'
  <2>1. spent.uses \in 0 .. MaxUses BY DEF CastInv, TypeOK
  <2>2. spent.uses < MaxUses BY <1>5 DEF UseItem
  <2> QED BY <2>1, <2>2
<1>6. CASE (\E v \in Viewers : RedisLoses(v)) \/ Tick BY <1>6, StillBalanced DEF RedisLoses, Tick, data
<1>7. CASE UNCHANGED vars BY <1>7, StillBalanced DEF vars, data
<1> QED BY <1>1, <1>2, <1>3, <1>4, <1>5, <1>6, <1>7 DEF Next

-----------------------------------------------------------------------------
(* The limited item: a drop holds the row of the stock from its reservation to  *)
(* its commit, so what it takes is still there, and takes one unit at most.     *)

In(row) == row.bag + row.parked

Reserves(j) == j.pc \in {"commit", "insert"} /\ j.drop

Stocked(j) ==
    /\ j.pc \in InCast =>
          /\ Units(j.viewer) <= In(j.mine)
          /\ In(j.mine) <= Units(j.viewer) + IF Reserves(j) THEN 1 ELSE 0
    /\ j.pc \in Decided /\ j.victim # None => In(j.his) = Units(j.victim)
    /\ Reserves(j) => stock > 0 /\ j.left = stock - 1
    /\ j.pc = "drop" => j.drop

StockInv ==
    /\ \A w \in Workers : Stocked(job[w]) /\ (Reserves(job[w]) => holder[Stock] = w)
    /\ IsFiniteSet(HandedOut)
    /\ NeverOversold

LEMMA InNat ==
    ASSUME NEW row \in Row
    PROVE  In(row) \in Nat /\ row.bag \in Nat /\ row.parked \in Nat
BY DEF In, Row

LEMMA UnitsNat ==
    ASSUME CastInv, NEW v \in Viewers
    PROVE  Units(v) \in Nat
<1>1. users \in [Viewers -> Row \union {None}] BY DEF CastInv, TypeOK
<1> QED BY <1>1 DEF Units, Row

\* One viewer's units may grow by one, and those handed out with them.
LEMMA HandedOutGrows ==
    ASSUME CastInv, StockInv, NEW v \in Viewers, NEW k \in {0, 1}, Units(v)' <= Units(v) + k,
           Units(v)' \in Nat, \A u \in Viewers : u # v => Units(u)' = Units(u)
    PROVE  IsFiniteSet(HandedOut)' /\ Cardinality(HandedOut)' <= Cardinality(HandedOut) + k
<1>1. Units(v) \in Nat BY UnitsNat
<1> DEFINE more == IF k = 0 THEN {} ELSE {<<v, Units(v) + 1>>}
<1>2. ASSUME NEW x \in HandedOut' PROVE x \in HandedOut \union more
  <2>1. PICK u \in Viewers : x \in {u} \X (1 .. Units(u)') BY DEF HandedOut
  <2>2. PICK n \in 1 .. Units(u)' : x = <<u, n>> BY <2>1
  <2>3. CASE n \in 1 .. Units(u)
    <3>1. x \in {u} \X (1 .. Units(u)) BY <2>2, <2>3
    <3> QED BY <3>1 DEF HandedOut
  <2>4. CASE n \notin 1 .. Units(u)
    <3>1. u = v BY <2>2, <2>4
    <3>2. k = 1 /\ n = Units(v) + 1 BY <1>1, <2>2, <2>4, <3>1
    <3> QED BY <2>2, <3>1, <3>2
  <2> QED BY <2>3, <2>4
<1>3. IsFiniteSet(HandedOut) BY DEF StockInv
<1> DEFINE all == HandedOut \union more
<1>4. IsFiniteSet(all) /\ Cardinality(all) <= Cardinality(HandedOut) + k
  <2>1. Cardinality(HandedOut) \in Nat BY <1>3, FS_CardinalityType
  <2>2. CASE k = 0 BY <1>3, <2>1, <2>2
  <2>3. CASE k = 1
    <3> DEFINE unit == <<v, Units(v) + 1>>
    <3>1. all = HandedOut \union {unit} BY <2>3
    <3> HIDE DEF all, unit
    <3>2. /\ IsFiniteSet(HandedOut \union {unit})
          /\ Cardinality(HandedOut \union {unit})
               = IF unit \in HandedOut THEN Cardinality(HandedOut) ELSE Cardinality(HandedOut) + 1
      BY <1>3, FS_AddElement
    <3> QED BY <2>1, <2>3, <3>1, <3>2
  <2> QED BY <2>2, <2>3
<1>5. (HandedOut)' \subseteq all BY <1>2
<1> HIDE DEF all
<1>6. IsFiniteSet((HandedOut)') /\ Cardinality((HandedOut)') <= Cardinality(all)
  BY <1>4, <1>5, FS_Subset
<1>7. /\ Cardinality(all) \in Nat /\ Cardinality((HandedOut)') \in Nat
      /\ Cardinality(HandedOut) \in Nat
  BY <1>3, <1>4, <1>6, FS_CardinalityType
<1> QED BY <1>4, <1>6, <1>7

LEMMA HandedOutSame ==
    ASSUME \A u \in Viewers : Units(u)' = Units(u)
    PROVE  (HandedOut)' = HandedOut
BY DEF HandedOut

\* The rows that a worker holds, that of the stock among them, are changed by
\* nobody else.
LEMMA OthersStocked ==
    ASSUME FishingAssumption, CastInv, StockInv, NEW w \in Workers, NEW u \in Workers, u # w,
           job'[u] = job[u], Respects(w), \A v \in Viewers : holder[v] # w => Units(v)' = Units(v),
           holder[Stock] # w => stock' = stock
    PROVE  Stocked(job[u])' /\ (Reserves(job[u])' => holder'[Stock] = u)
<1> DEFINE j == job[u]
<1>1. Stocked(j) /\ (Reserves(j) => holder[Stock] = u) /\ Holds(u) BY InHand DEF StockInv
<1>2. j.pc \in InCast => j.viewer \in Viewers /\ holder[j.viewer] = u BY InHand DEF Holds
<1>3. j.pc \in Decided /\ j.victim # None => j.victim \in Viewers /\ holder[j.victim] = u
  BY <1>1 DEF Holds
<1>4. j.pc \in InCast => \A v \in Viewers : v = j.viewer => Units(v)' = Units(v) BY <1>2
<1>5. j.pc \in Decided /\ j.victim # None => \A v \in Viewers : v = j.victim => Units(v)' = Units(v)
  BY <1>3
<1>6. Reserves(j) => holder'[Stock] = u /\ stock' = stock BY <1>1 DEF Respects, Lockable
<1> HIDE DEF j
<1>7. job'[u] = j BY DEF j
<1>8. ASSUME NEW m, m = j PROVE (Stocked(m))' /\ (Reserves(m) => holder'[Stock] = u)
  <2>1. m.pc \in InCast =>
          /\ Units(m.viewer)' <= In(m.mine)
          /\ In(m.mine) <= Units(m.viewer)' + IF Reserves(m) THEN 1 ELSE 0
    BY <1>1, <1>2, <1>4, <1>8 DEF Stocked
  <2>2. m.pc \in Decided /\ m.victim # None => In(m.his) = Units(m.victim)'
    BY <1>1, <1>3, <1>5, <1>8 DEF Stocked
  <2>3. Reserves(m) => stock' > 0 /\ m.left = stock' - 1 BY <1>1, <1>6, <1>8 DEF Stocked
  <2>4. m.pc = "drop" => m.drop BY <1>1, <1>8 DEF Stocked
  <2> QED BY <1>6, <1>8, <2>1, <2>2, <2>3, <2>4 DEF Stocked, Reserves, In
<1> QED BY <1>7, <1>8 DEF Reserves

\* A step that writes no row is in order when what the worker takes in hand is.
LEMMA QuietStocked ==
    ASSUME FishingAssumption, CastInv, StockInv, NEW w \in Workers, NEW new, Stocked(new),
           Reserves(new) => holder'[Stock] = w, Respects(w),
           job' = [job EXCEPT ![w] = new], UNCHANGED data
    PROVE  StockInv'
<1>1. UNCHANGED <<users, stock>> BY DEF data
<1>2. job'[w] = new /\ \A u \in Workers : u # w => job'[u] = job[u] BY DEF CastInv, TypeOK
<1>3. \A v \in Viewers : Units(v)' = Units(v) BY <1>1 DEF Units
<1>4. Stocked(job[w])' /\ (Reserves(job[w])' => holder'[Stock] = w)
  BY <1>1, <1>2 DEF Stocked, Reserves, Units, In
<1>5. \A u \in Workers : Stocked(job[u])' /\ (Reserves(job[u])' => holder'[Stock] = u)
  BY <1>1, <1>2, <1>3, <1>4, OthersStocked
<1>6. IsFiniteSet(HandedOut)' /\ NeverOversold'
  BY <1>1, <1>3, HandedOutSame DEF StockInv, NeverOversold
<1> QED BY <1>5, <1>6 DEF StockInv, Reserves

LEMMA FailsStocked ==
    ASSUME FishingAssumption, CastInv, StockInv, NEW w \in Workers, Fails(w)
    PROVE  StockInv'
<1> DEFINE new == [job[w] EXCEPT !.pc = "failing"]
<1>1. job' = [job EXCEPT ![w] = new] /\ UNCHANGED data /\ Respects(w)
  BY ReleasedRespects DEF Fails
<1>2. new.pc = "failing" BY InHand DEF Job
<1> HIDE DEF new
<1>3. Stocked(new) /\ ~Reserves(new) BY <1>2 DEF Stocked, Reserves, InCast, LetIn, Decided
<1> QED BY <1>1, <1>3, QuietStocked

\* A job that is not in a cast has nothing in hand.
LEMMA AsideStocked ==
    ASSUME NEW j, j.pc \notin InCast
    PROVE  Stocked(j) /\ ~Reserves(j)
BY DEF Stocked, Reserves, InCast, LetIn, Decided

LEMMA CallStocked ==
    ASSUME FishingAssumption, CastInv, StockInv, NEW w \in Workers, NEW r \in Requests, Call(w, r)
    PROVE  StockInv'
<1> DEFINE new == [Idle EXCEPT !.pc = "own", !.request = r, !.viewer = Owner[r], !.started = now]
<1>1. job' = [job EXCEPT ![w] = new] /\ UNCHANGED data /\ Respects(w) BY SameRespects DEF Call
<1>2. new.pc = "own" BY DEF Idle
<1> HIDE DEF new
<1>3. Stocked(new) /\ ~Reserves(new) BY <1>2, AsideStocked DEF InCast, LetIn, Decided
<1> QED BY <1>1, <1>3, QuietStocked

LEMMA UseItemStocked ==
    ASSUME FishingAssumption, CastInv, StockInv, NEW w \in Workers, NEW v \in Viewers, UseItem(w, v)
    PROVE  StockInv'
<1> DEFINE new == [Idle EXCEPT !.pc = "taken", !.viewer = v, !.mine = users[v]]
<1>1. job' = [job EXCEPT ![w] = new] /\ UNCHANGED data /\ Respects(w) BY SameRespects DEF UseItem
<1>2. new.pc = "taken" BY DEF Idle
<1> HIDE DEF new
<1>3. Stocked(new) /\ ~Reserves(new) BY <1>2, AsideStocked DEF InCast, LetIn, Decided
<1> QED BY <1>1, <1>3, QuietStocked

LEMMA LockUsedStocked ==
    ASSUME FishingAssumption, CastInv, StockInv, NEW w \in Workers, LockUsed(w)
    PROVE  StockInv'
<1> DEFINE new == [job[w] EXCEPT !.pc = "held"]
<1>1. /\ job[w].pc = "taken" /\ Locks(w, job[w].viewer) /\ job' = [job EXCEPT ![w] = new]
      /\ UNCHANGED data
  BY DEF LockUsed
<1>2. job[w] \in Job /\ job[w].viewer \in Lockable BY <1>1, InHand DEF Holds, Lockable
<1>3. Respects(w) BY <1>1, <1>2, LocksRespects
<1>4. new.pc = "held" BY <1>2 DEF Job
<1> HIDE DEF new
<1>5. Stocked(new) /\ ~Reserves(new) BY <1>4, AsideStocked DEF InCast, LetIn, Decided
<1> QED BY <1>1, <1>3, <1>5, QuietStocked

LEMMA LockOwnStocked ==
    ASSUME FishingAssumption, CastInv, StockInv, NEW w \in Workers, LockOwn(w)
    PROVE  StockInv'
<1> DEFINE v == job[w].viewer
           row == IF users[v] = None THEN NewRow ELSE users[v]
           new == [job[w] EXCEPT !.pc = "check", !.mine = row]
<1>1. job[w].pc = "own" /\ Locks(w, v) /\ job' = [job EXCEPT ![w] = new] /\ UNCHANGED data
  BY DEF LockOwn
<1>2. job[w] \in Job /\ v \in Viewers /\ v \in Lockable BY <1>1, InHand DEF Lockable
<1>3. Respects(w) BY <1>1, <1>2, LocksRespects
<1>4. In(row) = Units(v) BY DEF NewRow, In, Units
<1> HIDE DEF row
<1>5. new.pc = "check" /\ new.mine = row /\ new.viewer = v BY <1>2 DEF Job
<1> HIDE DEF new
<1>6. ~Reserves(new) BY <1>5 DEF Reserves
<1>7. Units(v) \in Nat BY <1>2, UnitsNat
<1>8. Stocked(new) BY <1>4, <1>5, <1>6, <1>7 DEF Stocked, InCast, LetIn, Decided
<1> QED BY <1>1, <1>3, <1>6, <1>8, QuietStocked

\* A worker goes on with the same rows in hand.
LEMMA SameStocked ==
    ASSUME FishingAssumption, CastInv, StockInv, NEW w \in Workers, NEW new \in Job,
           job[w].pc \in InCast, new.pc \in InCast,
           new.viewer = job[w].viewer, In(new.mine) = In(job[w].mine), new.pc = "drop" => new.drop,
           new.pc \in Decided /\ new.victim # None =>
              job[w].pc \in Decided /\ new.victim = job[w].victim /\ new.his = job[w].his,
           Reserves(new) <=> Reserves(job[w]), Reserves(new) => new.left = job[w].left,
           Respects(w), Reserves(job[w]) /\ holder[Stock] = w => holder'[Stock] = w,
           job' = [job EXCEPT ![w] = new], UNCHANGED data
    PROVE  StockInv'
<1>1. Stocked(job[w]) /\ (Reserves(job[w]) => holder[Stock] = w) BY DEF StockInv
<1>2. Stocked(new) BY <1>1 DEF Stocked
<1>3. Reserves(new) => holder'[Stock] = w BY <1>1
<1> QED BY <1>2, <1>3, QuietStocked

LEMMA LetThroughStocked ==
    ASSUME FishingAssumption, CastInv, StockInv, NEW w \in Workers, NEW d \in Cooldowns,
           LetThrough(w, d)
    PROVE  StockInv'
<1> DEFINE j == job[w]
           new == [j EXCEPT !.pc = "roll", !.checked = now, !.wait = d]
<1>1. j.pc = "check" /\ job' = [job EXCEPT ![w] = new] /\ UNCHANGED data /\ Respects(w)
  BY SameRespects DEF LetThrough
<1>2. d \in Nat /\ now \in Nat /\ j \in Job BY Numbers, InHand DEF FishingAssumption
<1>3. new \in Job /\ new.pc = "roll" /\ new.viewer = j.viewer /\ new.mine = j.mine
  BY <1>2 DEF Job
<1> HIDE DEF new
<1>4. ~Reserves(new) /\ ~Reserves(j) BY <1>1, <1>3 DEF Reserves
<1> QED BY <1>1, <1>3, <1>4, SameStocked DEF InCast, LetIn, Decided

\* Only a catch with an item goes on to the stock.
Goes(pc, dropped) == pc = IF dropped THEN "drop" ELSE "commit"

LEMMA CaughtStocked ==
    ASSUME FishingAssumption, CastInv, StockInv, NEW w \in Workers, job[w].pc = "roll",
           NEW pc \in {"drop", "commit"}, NEW mass \in Nat, NEW dropped \in BOOLEAN,
           Goes(pc, dropped), Caught(w, pc, mass, dropped), UNCHANGED <<data, holder>>
    PROVE  StockInv'
<1> DEFINE j == job[w]
           mine == Grow(j.mine, mass)
           gained == mass - j.mine.mass
           new == AfterCatch(j, pc, dropped, stock, gained, mine)
<1>1. job' = [job EXCEPT ![w] = new] /\ Respects(w) BY SameRespects DEF Caught, Grow, AfterCatch
<1>2. j \in Job /\ j.mine \in Row /\ j.victim = None BY InHand DEF Holds, InCast, LetIn
<1>3. mine \in Row BY <1>2, Grown
<1>4. In(mine) = In(j.mine) BY <1>2, Grown DEF In
<1>5. stock \in Nat BY Numbers
<1>6. gained \in Int BY <1>2 DEF Row
<1> HIDE DEF mine, gained
<1>9. /\ new \in Job /\ new.pc = pc /\ new.mine = mine /\ new.viewer = j.viewer
      /\ new.victim = None /\ new.drop = dropped
  BY <1>2, <1>3, <1>5, <1>6, CaughtJob
<1> HIDE DEF new
<1>10. ~Reserves(new) /\ ~Reserves(j) BY <1>9 DEF Reserves, Goes
<1>11. In(new.mine) = In(j.mine) BY <1>4, <1>9
<1>12. new.pc = "drop" => new.drop BY <1>9 DEF Goes
<1> QED BY <1>1, <1>9, <1>10, <1>11, <1>12, SameStocked DEF InCast, LetIn, Decided

LEMMA CatchStocked ==
    ASSUME FishingAssumption, CastInv, StockInv, NEW w \in Workers, Catch(w)
    PROVE  StockInv'
<1>1. PICK d \in Deltas, dropped \in BOOLEAN :
         Caught(w, IF dropped THEN "drop" ELSE "commit", Floored(job[w].mine.mass, d), dropped)
  BY DEF Catch
<1>2. job[w].pc = "roll" /\ UNCHANGED <<data, holder>> BY DEF Catch
<1>3. job[w].mine \in Row BY <1>2, InHand DEF Holds, InCast, LetIn
<1>4. Floored(job[w].mine.mass, d) \in Nat BY <1>3, FlooredNat DEF Row, FishingAssumption
<1> DEFINE pc == IF dropped THEN "drop" ELSE "commit"
<1>5. pc \in {"drop", "commit"} /\ Goes(pc, dropped) BY DEF Goes
<1>6. Caught(w, pc, Floored(job[w].mine.mass, d), dropped) BY <1>1
<1> HIDE DEF pc
<1> QED BY <1>2, <1>4, <1>5, <1>6, CaughtStocked

LEMMA PickVictimStocked ==
    ASSUME FishingAssumption, CastInv, StockInv, NEW w \in Workers, PickVictim(w)
    PROVE  StockInv'
<1> DEFINE j == job[w]
           found == Victims(j.viewer, j.mine.mass)
<1>1. PICK dropped \in BOOLEAN :
         IF found = {}
         THEN Caught(w, IF dropped THEN "drop" ELSE "commit", j.mine.mass, dropped)
         ELSE \E u \in found :
                job' = [job EXCEPT ![w] =
                  [j EXCEPT !.pc = "victim", !.victim = u, !.his = users[u],
                            !.drop = dropped, !.left = stock]]
  BY DEF PickVictim
<1>2. j.pc = "roll" /\ UNCHANGED <<data, holder>> /\ stock \in Nat BY Numbers DEF PickVictim
<1>3. j \in Job /\ j.mine \in Row BY <1>2, InHand DEF Holds, InCast, LetIn
<1>4. CASE found = {}
  <2> DEFINE pc == IF dropped THEN "drop" ELSE "commit"
  <2>1. pc \in {"drop", "commit"} /\ Goes(pc, dropped) BY DEF Goes
  <2>2. Caught(w, pc, j.mine.mass, dropped) BY <1>1, <1>4
  <2>3. j.mine.mass \in Nat BY <1>3 DEF Row
  <2> HIDE DEF pc
  <2> QED BY <1>2, <2>1, <2>2, <2>3, CaughtStocked
<1>5. CASE found # {}
  <2>1. PICK u \in found :
           job' = [job EXCEPT ![w] =
             [j EXCEPT !.pc = "victim", !.victim = u, !.his = users[u],
                       !.drop = dropped, !.left = stock]]
    BY <1>1, <1>5
  <2> DEFINE new == [j EXCEPT !.pc = "victim", !.victim = u, !.his = users[u],
                              !.drop = dropped, !.left = stock]
  <2>2. job' = [job EXCEPT ![w] = new] /\ Respects(w) BY <1>2, <2>1, SameRespects
  <2>3. u \in Viewers /\ users[u] \in Row BY DEF Victims, CastInv, TypeOK
  <2>4. /\ new \in Job /\ new.pc = "victim" /\ new.viewer = j.viewer /\ new.mine = j.mine
    BY <1>2, <1>3, <2>3 DEF Job
  <2> HIDE DEF new
  <2>5. ~Reserves(new) /\ ~Reserves(j) BY <1>2, <2>4 DEF Reserves
  <2>6. new.pc \notin Decided BY <2>4 DEF Decided
  <2> QED BY <1>2, <2>2, <2>4, <2>5, <2>6, SameStocked DEF InCast, LetIn, Decided
<1> QED BY <1>4, <1>5

LEMMA RobStocked ==
    ASSUME FishingAssumption, CastInv, StockInv, NEW w \in Workers, Rob(w)
    PROVE  StockInv'
<1> DEFINE j == job[w]
           his == users[j.victim]
<1>1. j.pc = "victim" /\ Locks(w, j.victim) /\ UNCHANGED data BY DEF Rob
<1>2. PICK wanted \in {0} \union {d \in Deltas : d > 0},
           cost \in {0} \union {-d : d \in {c \in Deltas : c < 0}} :
         LET left == Floored(his.mass, -wanted)
             taken == his.mass - left
             mass == Floored(j.mine.mass, -cost) + taken IN
         job' = [job EXCEPT ![w] =
           [j EXCEPT !.pc = IF j.drop THEN "drop" ELSE "commit",
                     !.mine = [j.mine EXCEPT !.fish = j.mine.fish + 1, !.mass = mass],
                     !.gained = mass - j.mine.mass,
                     !.his = [his EXCEPT !.mass = left],
                     !.landed = -taken]]
  BY DEF Rob, VictimsRow
<1>3. /\ j \in Job /\ j.mine \in Row /\ j.viewer \in Viewers
      /\ j.victim \in Viewers /\ users[j.victim] # None
  BY <1>1, InHand DEF Holds, InCast, LetIn, Decided
<1>4. his \in Row /\ In(his) = Units(j.victim) BY <1>3 DEF CastInv, TypeOK, Units, In
<1>5. wanted \in Nat /\ -cost \in Int BY DEF FishingAssumption
<1> DEFINE left == Floored(his.mass, -wanted)
           taken == his.mass - left
           mass == Floored(j.mine.mass, -cost) + taken
           gained == mass - j.mine.mass
           pc == IF j.drop THEN "drop" ELSE "commit"
           mine == Grow(j.mine, mass)
           hers == [his EXCEPT !.mass = left]
           new == [j EXCEPT !.pc = pc, !.mine = mine, !.gained = gained, !.his = hers,
                            !.landed = -taken]
<1>6. job' = [job EXCEPT ![w] = new] BY <1>2 DEF Grow
<1>7. his.mass \in Nat /\ j.mine.mass \in Nat BY <1>3, <1>4 DEF Row
<1>8. left \in Nat /\ taken \in Nat BY <1>5, <1>7, Robbed
<1> HIDE DEF left
<1> HIDE DEF taken
<1>9. mass \in Nat
  <2>1. Floored(j.mine.mass, -cost) \in Nat BY <1>5, <1>7, FlooredNat
  <2> QED BY <1>8, <2>1
<1> HIDE DEF mass
<1>10. In(mine) = In(j.mine) BY <1>3, <1>9, Grown DEF In
<1>11. hers.bag = his.bag /\ hers.parked = his.parked BY <1>4 DEF Row
<1>12. In(hers) = Units(j.victim) BY <1>4, <1>11 DEF In
<1>13. pc \in Decided /\ Goes(pc, j.drop) /\ pc # "insert" BY DEF Decided, Goes
<1> HIDE DEF gained, mine, hers, pc
<1>14. new.pc = pc /\ new.mine = mine /\ new.his = hers /\ new.viewer = j.viewer
       /\ new.victim = j.victim /\ new.drop = j.drop
  BY <1>3 DEF Job
<1> HIDE DEF new
<1>15. ~Reserves(new) BY <1>13, <1>14 DEF Reserves, Goes
<1>16. Stocked(j) /\ ~Reserves(j) BY <1>1 DEF StockInv, Reserves
<1>17. Stocked(new)
  <2>1. Units(j.viewer) = In(j.mine)
    <3>1. Units(j.viewer) <= In(j.mine) /\ In(j.mine) <= Units(j.viewer) + 0
      BY <1>1, <1>16 DEF Stocked, InCast, LetIn
    <3> QED BY <1>3, <3>1, InNat, UnitsNat
  <2>2. Units(j.viewer) \in Nat BY <1>3, UnitsNat
  <2>3. new.pc = "drop" => new.drop BY <1>13, <1>14 DEF Goes
  <2> QED BY <1>10, <1>12, <1>14, <1>15, <2>1, <2>2, <2>3 DEF Stocked
<1>18. Respects(w) BY <1>1, <1>3, LocksRespects DEF Lockable
<1> QED BY <1>1, <1>6, <1>15, <1>17, <1>18, QuietStocked

LEMMA DropStocked ==
    ASSUME FishingAssumption, CastInv, StockInv, NEW w \in Workers, Drop(w)
    PROVE  StockInv'
<1> DEFINE j == job[w]
<1>1. j.pc = "drop" /\ UNCHANGED data BY DEF Drop
<1>2. /\ j \in Job /\ j.mine \in Row /\ j.viewer \in Viewers
      /\ j.victim # None => j.victim \in Viewers
  BY <1>1, InHand DEF Holds, InCast, LetIn, Decided
<1>3. stock \in Nat /\ Stocked(j) /\ ~Reserves(j) BY <1>1, Numbers DEF StockInv, Reserves
<1>4. j.drop /\ In(j.mine) = Units(j.viewer)
  <2>1. Units(j.viewer) <= In(j.mine) /\ In(j.mine) <= Units(j.viewer) + 0
    BY <1>1, <1>3 DEF Stocked, InCast, LetIn, Decided
  <2>2. j.drop BY <1>1, <1>3 DEF Stocked
  <2> QED BY <1>2, <2>1, <2>2, InNat, UnitsNat
<1>5. CASE Fails(w) BY <1>5, FailsStocked
<1>6. ASSUME Locks(w, Stock),
             job' = [job EXCEPT ![w] = [j EXCEPT !.pc = "commit", !.drop = FALSE]]
      PROVE  StockInv'
  <2> DEFINE new == [j EXCEPT !.pc = "commit", !.drop = FALSE]
  <2>1. /\ new \in Job /\ new.pc = "commit" /\ new.viewer = j.viewer /\ new.victim = j.victim
        /\ new.his = j.his /\ new.mine = j.mine /\ ~new.drop
    BY <1>2 DEF Job
  <2>2. job' = [job EXCEPT ![w] = new] /\ Respects(w) BY <1>6, LocksRespects DEF Lockable
  <2> HIDE DEF new
  <2>3. ~Reserves(new) BY <2>1 DEF Reserves
  <2> QED BY <1>1, <1>3, <2>1, <2>2, <2>3, SameStocked DEF InCast, LetIn, Decided
<1>7. ASSUME Locks(w, Stock), stock > 0, NEW mine \in Row,
             In(mine) = In(j.mine) \/ In(mine) = In(j.mine) + 1,
             job' = [job EXCEPT ![w] = [j EXCEPT !.pc = "commit", !.left = stock - 1, !.mine = mine]]
      PROVE  StockInv'
  <2> DEFINE new == [j EXCEPT !.pc = "commit", !.left = stock - 1, !.mine = mine]
  <2>1. /\ new.pc = "commit" /\ new.viewer = j.viewer /\ new.victim = j.victim
        /\ new.his = j.his /\ new.mine = mine /\ new.left = stock - 1 /\ new.drop = j.drop
    BY <1>2 DEF Job
  <2>2. job' = [job EXCEPT ![w] = new] /\ Respects(w) /\ holder'[Stock] = w
    BY <1>7, LocksRespects DEF Lockable
  <2> HIDE DEF new
  <2>3. Reserves(new) BY <1>4, <2>1 DEF Reserves
  <2>4. Units(j.viewer) \in Nat BY <1>2, UnitsNat
  <2>5. new.victim # None => In(new.his) = Units(new.victim)
    BY <1>1, <1>3, <2>1 DEF Stocked, Decided
  <2>6. Stocked(new) BY <1>4, <1>7, <2>1, <2>3, <2>4, <2>5 DEF Stocked
  <2> QED BY <1>1, <2>2, <2>6, QuietStocked
<1> DEFINE bagged == [j.mine EXCEPT !.bag = j.mine.bag + 1]
           parked == [j.mine EXCEPT !.parked = j.mine.parked + 1]
           mine == IF j.mine.bag < Slots THEN bagged ELSE parked
<1>8. j.mine.bag \in Nat /\ j.mine.parked \in Nat BY <1>2, InNat
<1>9. /\ bagged \in Row /\ bagged.bag = j.mine.bag + 1 /\ bagged.parked = j.mine.parked
      /\ parked \in Row /\ parked.bag = j.mine.bag /\ parked.parked = j.mine.parked + 1
  BY <1>2 DEF Row
<1>10. \/ Fails(w)
       \/ Locks(w, Stock) /\ job' = [job EXCEPT ![w] = [j EXCEPT !.pc = "commit", !.drop = FALSE]]
       \/ Locks(w, Stock) /\ stock > 0
             /\ job' = [job EXCEPT ![w] = [j EXCEPT !.pc = "commit", !.left = stock - 1, !.mine = mine]]
       \/ Locks(w, Stock) /\ stock > 0
             /\ job' = [job EXCEPT ![w] = [j EXCEPT !.pc = "commit", !.left = stock - 1]]
  BY <1>3 DEF Drop, Reservable
<1> HIDE DEF bagged, parked
<1>11. mine \in Row /\ In(mine) = In(j.mine) + 1 BY <1>8, <1>9 DEF In
<1> HIDE DEF mine
<1>12. CASE Locks(w, Stock) /\ stock > 0
              /\ job' = [job EXCEPT ![w] = [j EXCEPT !.pc = "commit", !.left = stock - 1]]
  <2> DEFINE short == [j EXCEPT !.pc = "commit", !.left = stock - 1]
             new == [short EXCEPT !.mine = j.mine]
  <2>1. short \in Job /\ short.mine = j.mine
    <3>1. stock - 1 \in Nat BY <1>3, <1>12
    <3> QED BY <1>2, <3>1 DEF Job
  <2>2. job' = [job EXCEPT ![w] = short] BY <1>12
  <2> HIDE DEF short
  <2>3. new = short BY <2>1 DEF Job
  <2>4. job' = [job EXCEPT ![w] = new] BY <2>2, <2>3
  <2> QED BY <1>2, <1>7, <1>12, <2>4 DEF short
<1> QED BY <1>5, <1>6, <1>7, <1>10, <1>11, <1>12

LEMMA RulesetStocked ==
    ASSUME FishingAssumption, CastInv, StockInv, NEW w \in Workers,
           MissRuleset(w) \/ InsertRuleset(w)
    PROVE  StockInv'
<1> DEFINE j == job[w]
           new(pc) == [j EXCEPT !.pc = pc]
<1>1. PICK pc \in {"insert", "commit"} :
         /\ j.pc \in {"commit", "insert"}
         /\ \/ Fails(w)
            \/ /\ job' = [job EXCEPT ![w] = new(pc)] /\ UNCHANGED data
               /\ Locks(w, Ruleset) \/ UNCHANGED holder
  BY DEF MissRuleset, InsertRuleset
<1>2. /\ new(pc) \in Job /\ new(pc).pc = pc /\ new(pc).viewer = j.viewer /\ new(pc).victim = j.victim
      /\ new(pc).his = j.his /\ new(pc).drop = j.drop /\ new(pc).left = j.left
      /\ new(pc).mine = j.mine
  BY InHand DEF Job
<1> HIDE DEF new
<1>3. CASE Fails(w) BY <1>3, FailsStocked
<1>4. CASE /\ job' = [job EXCEPT ![w] = new(pc)] /\ UNCHANGED data
           /\ Locks(w, Ruleset) \/ UNCHANGED holder
  <2>1. Respects(w) /\ (holder[Stock] = w => holder'[Stock] = w)
    BY <1>4, LocksRespects, SameRespects DEF Lockable
  <2>2. Reserves(new(pc)) <=> Reserves(j) BY <1>1, <1>2 DEF Reserves
  <2> QED BY <1>1, <1>2, <1>4, <2>1, <2>2, SameStocked DEF InCast, LetIn, Decided
<1> QED BY <1>1, <1>3, <1>4

\* A worker whose cast is over has written rows, and no unit of them.
LEMMA WrittenStocked ==
    ASSUME FishingAssumption, CastInv, StockInv, NEW w \in Workers, NEW new, new.pc \notin InCast,
           job' = [job EXCEPT ![w] = new], Respects(w),
           \A v \in Viewers : Units(v)' = Units(v), UNCHANGED stock
    PROVE  StockInv'
<1>1. job'[w] = new /\ \A u \in Workers : u # w => job'[u] = job[u] BY DEF CastInv, TypeOK
<1>2. Stocked(job[w])' /\ ~Reserves(job[w])'
  BY <1>1 DEF Stocked, Reserves, InCast, LetIn, Decided
<1>3. \A u \in Workers : Stocked(job[u])' /\ (Reserves(job[u])' => holder'[Stock] = u)
  BY <1>1, <1>2, OthersStocked
<1>4. IsFiniteSet(HandedOut)' /\ NeverOversold' BY HandedOutSame DEF StockInv, NeverOversold
<1> QED BY <1>3, <1>4 DEF StockInv, Reserves

LEMMA EndStocked ==
    ASSUME FishingAssumption, CastInv, StockInv, NEW w \in Workers, job' = [job EXCEPT ![w] = Idle],
           Respects(w), UNCHANGED <<users, stock>>
    PROVE  StockInv'
<1>1. \A v \in Viewers : Units(v)' = Units(v) BY DEF Units
<1>2. Idle.pc \notin InCast BY DEF Idle, InCast, LetIn, Decided
<1> HIDE DEF Idle
<1> QED BY <1>1, <1>2, WrittenStocked

LEMMA RejectStocked ==
    ASSUME FishingAssumption, NoneApart, CastInv, StockInv, NEW w \in Workers, NEW d \in Cooldowns,
           Reject(w, d)
    PROVE  StockInv'
<1> DEFINE j == job[w]
           v == j.viewer
<1>1. CASE Fails(w) BY <1>1, FailsStocked
<1>2. CASE /\ users' = [users EXCEPT ![v] = j.mine] /\ job' = [job EXCEPT ![w] = Idle]
           /\ holder' = Released(w) /\ UNCHANGED stock
  <2>1. j.pc = "check" /\ Stocked(j) BY DEF Reject, StockInv
  <2>2. v \in Viewers /\ j.mine \in Row /\ j.mine # None
    BY <2>1, InHand DEF Holds, InCast, LetIn, Decided, NoneApart
  <2>3. In(j.mine) = Units(v)
    <3>1. ~Reserves(j) BY <2>1 DEF Reserves
    <3>2. Units(v) <= In(j.mine) /\ In(j.mine) <= Units(v) + 0
      BY <2>1, <3>1 DEF Stocked, InCast
    <3> QED BY <2>2, <3>2, InNat, UnitsNat
  <2>4. users \in [Viewers -> Row \union {None}] BY DEF CastInv, TypeOK
  <2>5. \A u \in Viewers : Units(u)' = Units(u)
    <3>1. \A u \in Viewers : Units(u)' = IF users'[u] = None THEN 0 ELSE In(users'[u])
      BY DEF Units, In
    <3>2. \A u \in Viewers : users'[u] = IF u = v THEN j.mine ELSE users[u] BY <1>2, <2>2, <2>4
    <3> QED BY <2>2, <2>3, <3>1, <3>2 DEF Units, In
  <2>6. Idle.pc \notin InCast BY DEF Idle, InCast, LetIn, Decided
  <2>7. Respects(w) BY <1>2, ReleasedRespects
  <2> QED BY <1>2, <2>5, <2>6, <2>7, WrittenStocked
<1> QED BY <1>1, <1>2 DEF Reject

\* An item that was used up changes the mass alone.
LEMMA UsedUpStocked ==
    ASSUME FishingAssumption, NoneApart, CastInv, StockInv, NEW w \in Workers, UsedUp(w)
    PROVE  StockInv'
<1> DEFINE j == job[w]
           v == j.viewer
<1>1. j.pc = "held" /\ job' = [job EXCEPT ![w] = Idle] /\ holder' = Released(w) /\ UNCHANGED stock
  BY DEF UsedUp
<1>2. PICK d \in Deltas \ {0} :
         users' = IF Floored(j.mine.mass, d) = j.mine.mass THEN users
                  ELSE [users EXCEPT ![v] = [users[v] EXCEPT !.mass = Floored(j.mine.mass, d)]]
  BY DEF UsedUp
<1>3. v \in Viewers /\ j.mine \in Row /\ users[v] \in Row /\ users[v] # None
  BY <1>1, InHand DEF Holds, CastInv, TypeOK
<1>4. users \in [Viewers -> Row \union {None}] BY DEF CastInv, TypeOK
<1>5. Floored(j.mine.mass, d) \in Nat BY <1>3, FlooredNat DEF Row, FishingAssumption
<1> DEFINE mass == Floored(j.mine.mass, d)
           row == [users[v] EXCEPT !.mass = mass]
<1> HIDE DEF mass
<1>6. /\ row \in Row /\ row.bag = users[v].bag /\ row.parked = users[v].parked /\ row # None
  BY <1>3, <1>5 DEF Row, mass, NoneApart
<1> HIDE DEF row
<1>7. users' = users \/ users' = [users EXCEPT ![v] = row] BY <1>2 DEF mass, row
<1>8. \A u \in Viewers : Units(u)' = Units(u)
  <2>1. \A u \in Viewers : Units(u)' = IF users'[u] = None THEN 0 ELSE In(users'[u]) BY DEF Units, In
  <2>2. \A u \in Viewers : users'[u] = users[u] \/ (u = v /\ users'[u] = row) BY <1>3, <1>4, <1>7
  <2> QED BY <1>3, <1>6, <2>1, <2>2 DEF Units, In
<1>9. Idle.pc \notin InCast BY DEF Idle, InCast, LetIn, Decided
<1>10. Respects(w) BY <1>1, ReleasedRespects
<1> QED BY <1>1, <1>8, <1>9, <1>10, WrittenStocked

\* A committed drop takes the unit it reserved, and gives the viewer one at most.
LEMMA CommitStocked ==
    ASSUME FishingAssumption, NoneApart, CastInv, StockInv, NEW w \in Workers, Commit(w)
    PROVE  StockInv'
<1> DEFINE j == job[w]
           h == j.victim
           new == IF j.wait > 0 THEN [j EXCEPT !.pc = "after"] ELSE Idle
<1>1. CASE Fails(w) BY <1>1, FailsStocked
<1>2. CASE Writes(w) /\ job' = [job EXCEPT ![w] = new] /\ holder' = Released(w)
  <2>1. j.pc = "commit" /\ Stocked(j) /\ (Reserves(j) => holder[Stock] = w)
    BY DEF Commit, StockInv
  <2>0. PICK v \in Viewers : v = j.viewer
    BY <2>1, InHand DEF InCast, LetIn, Decided
  <2>2. /\ j \in Job /\ j.mine \in Row /\ j.mine # None /\ v \in Viewers /\ holder[v] = w
        /\ h # None => /\ h \in Viewers /\ h # v /\ j.his \in Row /\ j.his # None /\ holder[h] = w
    BY <2>1, <2>0, InHand DEF Holds, InCast, LetIn, Decided, NoneApart
  <2>3. users \in [Viewers -> Row \union {None}] BY DEF CastInv, TypeOK
  <2>4. \A u \in Viewers : Units(u)' = IF users'[u] = None THEN 0 ELSE In(users'[u])
    BY DEF Units, In
  <2>5. /\ users'[v] = j.mine /\ (h # None => users'[h] = j.his)
        /\ \A u \in Viewers : u # v /\ u # h => users'[u] = users[u]
    <3>1. CASE h = None
      <4>1. users' = [users EXCEPT ![v] = j.mine] BY <1>2, <2>0, <3>1 DEF Writes
      <4> QED BY <2>2, <2>3, <3>1, <4>1
    <3>2. CASE h # None
      <4>1. users' = [[users EXCEPT ![v] = j.mine] EXCEPT ![h] = j.his] BY <1>2, <2>0, <3>2 DEF Writes
      <4> QED BY <2>2, <2>3, <3>2, <4>1
    <3> QED BY <3>1, <3>2
  <2>6. \A u \in Viewers : u # v => Units(u)' = Units(u)
    <3>1. \A u \in Viewers : u # v /\ u # h => Units(u)' = Units(u) BY <2>4, <2>5 DEF Units, In
    <3>2. ASSUME NEW u \in Viewers, u = h PROVE Units(u)' = Units(u)
      <4>1. h # None BY <3>2 DEF FishingAssumption
      <4>2. In(j.his) = Units(u) BY <2>1, <3>2, <4>1 DEF Stocked, Decided
      <4>3. users'[u] = j.his /\ j.his # None BY <2>2, <2>5, <3>2, <4>1
      <4> QED BY <2>4, <4>2, <4>3
    <3> QED BY <3>1, <3>2
  <2> DEFINE k == IF Reserves(j) THEN 1 ELSE 0
  <2>7. Units(v)' = In(j.mine) /\ Units(v) \in Nat /\ In(j.mine) \in Nat
    BY <2>2, <2>4, <2>5, InNat, UnitsNat
  <2>8. k \in {0, 1} /\ Units(v)' <= Units(v) + k
    BY <2>1, <2>7, <2>0 DEF Stocked, InCast, LetIn, Decided
  <2>9. stock' = stock - k
    <3>1. stock \in Nat BY Numbers
    <3>2. CASE j.drop
      <4>1. Reserves(j) BY <2>1, <3>2 DEF Reserves
      <4>2. stock' = j.left BY <1>2, <2>0, <3>2 DEF Writes
      <4> QED BY <2>1, <4>1, <4>2 DEF Stocked
    <3>3. CASE ~j.drop
      <4>1. ~Reserves(j) BY <3>3 DEF Reserves
      <4>2. stock' = stock BY <1>2, <3>3 DEF Writes
      <4> QED BY <3>1, <4>1, <4>2
    <3> QED BY <3>2, <3>3
  <2>10. holder[Stock] # w => stock' = stock
    <3>1. stock \in Nat BY Numbers
    <3> QED BY <2>1, <2>9, <3>1
  <2> HIDE DEF k
  <2>11. IsFiniteSet(HandedOut)' /\ Cardinality(HandedOut)' <= Cardinality(HandedOut) + k
    BY <2>2, <2>6, <2>7, <2>8, HandedOutGrows
  <2>12. NeverOversold'
    <3>1. stock \in Nat /\ Stock0 \in Nat BY Numbers DEF FishingAssumption
    <3>2. Cardinality(HandedOut) \in Nat /\ Cardinality(HandedOut)' \in Nat
      BY <2>11, FS_CardinalityType DEF StockInv
    <3>3. stock + Cardinality(HandedOut) <= Stock0 BY DEF StockInv, NeverOversold
    <3>4. stock' + Cardinality(HandedOut)' <= Stock0 BY <2>8, <2>9, <2>11, <3>1, <3>2, <3>3
    <3> QED BY <3>4 DEF NeverOversold
  <2>13. \A u \in Viewers : holder[u] # w => Units(u)' = Units(u) BY <2>2, <2>6
  <2>14. Respects(w) BY <1>2, ReleasedRespects
  <2>15. new.pc \in {"idle", "after"} BY <2>2 DEF Job, Idle
  <2> HIDE DEF new
  <2>16. job'[w] = new /\ \A u \in Workers : u # w => job'[u] = job[u] BY <1>2 DEF CastInv, TypeOK
  <2>17. Stocked(job[w])' /\ ~Reserves(job[w])'
    BY <2>15, <2>16 DEF Stocked, Reserves, InCast, LetIn, Decided
  <2>18. \A u \in Workers : Stocked(job[u])' /\ (Reserves(job[u])' => holder'[Stock] = u)
    BY <2>10, <2>13, <2>14, <2>16, <2>17, OthersStocked
  <2> QED BY <2>11, <2>12, <2>18 DEF StockInv, Reserves
<1> QED BY <1>1, <1>2 DEF Commit

LEMMA StillStocked ==
    ASSUME StockInv, UNCHANGED <<users, stock, job, holder>>
    PROVE  StockInv'
<1>1. \A v \in Viewers : Units(v)' = Units(v) BY DEF Units
<1>2. HandedOut' = HandedOut BY <1>1, HandedOutSame
<1>3. IsFiniteSet(HandedOut)' /\ NeverOversold' BY <1>2 DEF StockInv, NeverOversold
<1>4. \A w \in Workers : Stocked(job[w])' /\ (Reserves(job[w])' => holder'[Stock] = w)
  BY DEF StockInv, Stocked, Reserves, Units, In
<1> QED BY <1>3, <1>4 DEF StockInv, Reserves

LEMMA InitStocked ==
    ASSUME FishingAssumption, NoneApart, Init
    PROVE  StockInv
<1>1. \A w \in Workers : job[w] = Idle BY DEF Init
<1>2. \A w \in Workers : Stocked(job[w]) /\ ~Reserves(job[w])
  BY <1>1 DEF Idle, Stocked, Reserves, InCast, LetIn, Decided
<1>3. \A v \in Viewers : Units(v) = 0
  <2> SUFFICES ASSUME NEW v \in Viewers PROVE Units(v) = 0 OBVIOUS
  <2>1. users[v] \in {None} \union {[NewRow EXCEPT !.mass = m] : m \in Earlier} BY DEF Init
  <2>2. users[v] = None \/ (users[v].bag = 0 /\ users[v].parked = 0) BY <2>1 DEF NewRow
  <2> QED BY <2>2 DEF Units
<1>4. HandedOut = {} BY <1>3 DEF HandedOut
<1>5. stock = Stock0 /\ Stock0 \in Nat BY DEF Init, FishingAssumption
<1>6. NeverOversold /\ IsFiniteSet(HandedOut) BY <1>4, <1>5, FS_EmptySet DEF NeverOversold
<1> QED BY <1>2, <1>6 DEF StockInv

LEMMA NextStocked ==
    ASSUME FishingAssumption, NoneApart, CastInv, StockInv, [Next]_vars
    PROVE  StockInv'
<1>1. ASSUME NEW w \in Workers, Works(w) PROVE StockInv'
  <2>1. CASE Replay(w) BY <2>1, EndStocked, ReleasedRespects DEF Replay, data
  <2>2. ASSUME NEW d \in Cooldowns, Reject(w, d) PROVE StockInv' BY <2>2, RejectStocked
  <2>3. ASSUME NEW d \in Cooldowns, LetThrough(w, d) PROVE StockInv' BY <2>3, LetThroughStocked
  <2>4. CASE Catch(w) BY <2>4, CatchStocked
  <2>5. CASE PickVictim(w) BY <2>5, PickVictimStocked
  <2>6. CASE MissRuleset(w) BY <2>6, RulesetStocked
  <2>7. CASE Commit(w) BY <2>7, CommitStocked
  <2>8. CASE SetCooldown(w) BY <2>8, EndStocked, SameRespects DEF SetCooldown, data
  <2>9. CASE UsedUp(w) BY <2>9, UsedUpStocked
  <2>10. CASE Abort(w) BY <2>10, FailsStocked DEF Abort
  <2> QED BY <1>1, <2>1, <2>2, <2>3, <2>4, <2>5, <2>6, <2>7, <2>8, <2>9, <2>10 DEF Works
<1>2. ASSUME NEW w \in Workers, Waits(w) PROVE StockInv'
  <2>1. CASE LockOwn(w) BY <2>1, LockOwnStocked
  <2>2. CASE Rob(w) BY <2>2, RobStocked
  <2>3. CASE Drop(w) BY <2>3, DropStocked
  <2>4. CASE InsertRuleset(w) BY <2>4, RulesetStocked
  <2>5. CASE RecordFailed(w) BY <2>5, EndStocked, SameRespects DEF RecordFailed
  <2>6. CASE LockUsed(w) BY <2>6, LockUsedStocked
  <2> QED BY <1>2, <2>1, <2>2, <2>3, <2>4, <2>5, <2>6 DEF Waits
<1>3. ASSUME NEW w \in Workers, Crash(w) PROVE StockInv'
  BY <1>3, EndStocked, ReleasedRespects DEF Crash, data
<1>4. ASSUME NEW w \in Workers, NEW r \in Requests, Call(w, r) PROVE StockInv' BY <1>4, CallStocked
<1>5. ASSUME NEW w \in Workers, NEW v \in Viewers, UseItem(w, v) PROVE StockInv'
  BY <1>5, UseItemStocked
<1>6. CASE (\E v \in Viewers : RedisLoses(v)) \/ Tick BY <1>6, StillStocked DEF RedisLoses, Tick, data
<1>7. CASE UNCHANGED vars BY <1>7, StillStocked DEF vars, data
<1> QED BY <1>1, <1>2, <1>3, <1>4, <1>5, <1>6, <1>7 DEF Next

-----------------------------------------------------------------------------
(* The theorems *)

\* Every variable of a channel's casts keeps its type: no stock below zero, no
\* negative mass, no lock held by nobody known.
THEOREM CastsTypeCorrect ==
    ASSUME FishingAssumption, NoneApart, Finite
    PROVE  Spec => []TypeOK
<1>1. CastInv => TypeOK BY DEF CastInv
<1> QED BY <1>1, CastInvHolds, PTL

\* A viewer's fish are the casts the ledger holds as processed, for any number of
\* requests that are retried, delivered twice, aborted or cut off by crashes.
THEOREM FishAreCasts ==
    ASSUME FishingAssumption, NoneApart, Finite
    PROVE  Spec => []EveryFishHasItsRow
<1>1. CastInv => EveryFishHasItsRow BY DEF CastInv
<1> QED BY <1>1, CastInvHolds, PTL

\* Redis makes a viewer wait only for a cast that is in the ledger, whatever was
\* rolled back and whatever Redis lost.
THEOREM CooldownsHaveCasts ==
    ASSUME FishingAssumption, NoneApart, Finite
    PROVE  Spec => []NoCooldownWithoutCast
<1>1. CastInv => NoCooldownWithoutCast BY DEF CastInv
<1> QED BY <1>1, CastInvHolds, PTL

\* A viewer is let through to a cast that has a cooldown only after the ones of
\* all its earlier casts, for any number of workers that serve it at once.
THEOREM CooldownsAreHeld ==
    ASSUME FishingAssumption, NoneApart, Finite
    PROVE  Spec => CooldownHeld
<1>1. CastInv /\ [Next]_vars => CooldownHeldStep BY CooldownHeldSafe
<1> QED BY <1>1, CastInvHolds, PTL DEF Spec, CooldownHeld

\* The mass of a viewer is what its casts, and the robberies of others, reported
\* to have moved, as long as no item that grants mass is used meanwhile (such a
\* use writes what it read before its lock).
THEOREM MassIsAccounted ==
    ASSUME FishingAssumption, NoneApart, Finite, MaxUses = 0
    PROVE  Spec => []MassAccounted
<1>1. Init => MassInv
  <2> SUFFICES ASSUME Init PROVE MassInv OBVIOUS
  <2>1. \A w \in Workers : Balanced(job[w]) BY IdleBalanced DEF Init
  <2>2. MassAccounted BY DEF Init, MassAccounted
  <2> QED BY <2>1, <2>2 DEF MassInv
<1>2. CastInv /\ MassInv /\ [Next]_vars => MassInv' BY NextBalanced
<1>3. MassInv => MassAccounted BY DEF MassInv
<1> QED BY <1>1, <1>2, <1>3, CastInvHolds, PTL DEF Spec

\* The units of a limited item that viewers have came out of its stock, for any number
\* of casts that drop it at once, are aborted or crash: a reservation is made and
\* committed under the lock of the stock's row, and items used meanwhile give none.
THEOREM StockIsNeverOversold ==
    ASSUME FishingAssumption, NoneApart, Finite
    PROVE  Spec => []NeverOversold
<1>1. Init => StockInv BY InitStocked
<1>2. CastInv /\ StockInv /\ [Next]_vars => StockInv' BY NextStocked
<1>3. StockInv => NeverOversold BY DEF StockInv
<1> QED BY <1>1, <1>2, <1>3, CastInvHolds, PTL DEF Spec

=============================================================================
