--------------------------- MODULE LocationsProofs ---------------------------
(***************************************************************************)
(* What administrators do, for any number of them, of the attempts their   *)
(* requests are sent in, and of rows.  Of locations and events: a request  *)
(* is applied once however often it is sent, an edit commits only against  *)
(* the version its author saw, an event is pointed only at a location that *)
(* is there, and none is active before its review.  The argument: while a  *)
(* handler holds the channel's row nobody else commits there, and the      *)
(* older API, which does not take that lock, waits for the rows the        *)
(* handler works on; so what it has read is still true of them when it     *)
(* commits.  Then, as instances that share the requests, of a channel's    *)
(* configuration, of the bindings of servers, of players' modifiers, and   *)
(* of items and their stock.                                               *)
(***************************************************************************)
EXTENDS Locations, SequenceTheorems, FiniteSetTheorems, TLAPS

NoneApart ==
    /\ None \notin PoolRow /\ None \notin EventRow /\ None \notin Copy
    /\ Answer("ok", "ok") # None

\* No operation has been applied twice, and what was applied is recorded.
Once ==
    /\ \A i, j \in 1 .. Len(applied) : applied[i] = applied[j] => i = j
    /\ \A i \in 1 .. Len(applied) : Recorded(applied[i])

\* What a handler has read since it locked the channel's row still holds where its
\* operation relies on it.
Holds(h) ==
    LET own == handler[h].copy
        op == Op(h) IN
    /\ handler[h].pc # "free" => handler[h].key \in Keys
    /\ handler[h].pc = "loaded" =>
         /\ locked = h /\ own # None
         /\ "place" \in DOMAIN op => own.pools[op.place] = pools[op.place]
         /\ "event" \in DOMAIN op => own.events[op.event] = events[op.event]
         /\ \A l \in Places : Exists(own.pools, l) => Exists(pools, l)

LocInv ==
    /\ TypeOK
    /\ Once
    /\ ActiveIsReviewed
    /\ \A h \in Handlers : Holds(h)

Assumptions == RequestAssumption /\ LocationAssumption /\ PayloadAssumption /\ NoneApart

-----------------------------------------------------------------------------
(* One handler at a time *)

LEMMA HandlerTyped ==
    ASSUME LocInv, NEW h \in Handlers
    PROVE  /\ handler[h] \in [pc : {"free", "asked", "loaded"}, key : Keys \union {None},
                              copy : Copy \union {None}]
           /\ handler[h].pc # "free" => handler[h].key \in Keys /\ Op(h) = OpOf[handler[h].key]
           /\ Holds(h)
BY DEF LocInv, TypeOK, Holds, Op

\* Nobody else has loaded anything while a handler holds the row.
LEMMA Alone ==
    ASSUME LocInv, NEW h \in Handlers, handler[h].pc = "loaded", NEW u \in Handlers, u # h
    PROVE  handler[u].pc # "loaded"
BY DEF LocInv, Holds

LEMMA FreeTyped ==
    /\ Free \in [pc : {"free", "asked", "loaded"}, key : Keys \union {None}, copy : Copy \union {None}]
    /\ Free.pc = "free"
BY DEF Free

\* The handler that commits or refuses is done, and everybody else is still waiting.
LEMMA DoneHolds ==
    ASSUME LocInv, NEW h \in Handlers, handler[h].pc = "loaded",
           handler' = [handler EXCEPT ![h] = Free]
    PROVE  /\ \A u \in Handlers : Holds(u)'
           /\ handler' \in [Handlers -> [pc : {"free", "asked", "loaded"}, key : Keys \union {None},
                                         copy : Copy \union {None}]]
<1>1. /\ handler'[h] = Free /\ \A u \in Handlers : u # h => handler'[u] = handler[u]
      /\ handler' \in [Handlers -> [pc : {"free", "asked", "loaded"}, key : Keys \union {None},
                                    copy : Copy \union {None}]]
  BY FreeTyped DEF LocInv, TypeOK
<1>2. \A u \in Handlers : u # h => handler[u].pc # "loaded" BY Alone
<1>3. ASSUME NEW u \in Handlers PROVE Holds(u)'
  <2>1. CASE u = h BY <1>1, <2>1, FreeTyped DEF Holds
  <2>2. CASE u # h BY <1>1, <1>2, <2>2, HandlerTyped DEF Holds
  <2> QED BY <2>1, <2>2
<1> QED BY <1>1, <1>3

\* What a commit adds to the requests that were applied.
LEMMA CommitOnce ==
    ASSUME Assumptions, LocInv, NEW h \in Handlers, handler[h].pc = "loaded", Commit(h, "ok")
    PROVE  /\ Once' /\ record' \in [Keys -> {Answer("ok", "ok"), None}]
           /\ applied' \in Seq(Keys) /\ UNCHANGED sent
           /\ handler' = [handler EXCEPT ![h] = Free]
<1> DEFINE k == handler[h].key
<1>1. k \in Keys BY HandlerTyped
<1>2. /\ record[k] = None /\ record' = [record EXCEPT ![k] = Answer("ok", "ok")]
      /\ applied' = Append(applied, k) /\ UNCHANGED sent
      /\ handler' = [handler EXCEPT ![h] = Free]
  BY DEF Commit, Clashes
<1>3. applied \in Seq(Keys) /\ record \in [Keys -> {Answer("ok", "ok"), None}] BY DEF LocInv, TypeOK
<1> HIDE DEF k
<1>4. /\ record'[k] # None /\ \A q \in Keys : q # k => record'[q] = record[q]
      /\ record' \in [Keys -> {Answer("ok", "ok"), None}]
  BY <1>1, <1>2, <1>3 DEF Assumptions, NoneApart
<1>5. /\ applied' \in Seq(Keys) /\ Len(applied') = Len(applied) + 1 /\ Len(applied) \in Nat
      /\ \A i \in 1 .. Len(applied) : applied'[i] = applied[i] /\ applied[i] \in Keys
      /\ applied'[Len(applied) + 1] = k
  BY <1>1, <1>2, <1>3
<1>6. \A i \in 1 .. Len(applied) : record[applied[i]] # None /\ applied[i] # k
  BY <1>2 DEF LocInv, Once, Recorded
<1>7. \A i \in 1 .. Len(applied') : i \in 1 .. Len(applied) \/ i = Len(applied) + 1 BY <1>5
<1>8. \A i, j \in 1 .. Len(applied') : applied'[i] = applied'[j] => i = j
  BY <1>5, <1>6, <1>7 DEF LocInv, Once
<1>9. \A i \in 1 .. Len(applied') : record'[applied'[i]] # None
  BY <1>4, <1>5, <1>6, <1>7
<1> QED BY <1>2, <1>4, <1>5, <1>8, <1>9 DEF Once, Recorded

\* A refusal leaves everything but the handler and the answers.
LEMMA RefuseOnce ==
    ASSUME LocInv, NEW h \in Handlers, NEW why, Refuse(h, why)
    PROVE  UNCHANGED <<record, sent, applied>> /\ handler' = [handler EXCEPT ![h] = Free]
BY DEF Refuse

\* An operation that succeeds only when what it leaves is in order.
LEMMA ConcludeSafe ==
    ASSUME Assumptions, LocInv, NEW h \in Handlers, handler[h].pc = "loaded",
           NEW why, NEW newPools, NEW newEvents, Conclude(h, why, newPools, newEvents),
           why = "ok" => /\ newPools \in Pools /\ newEvents \in EventTable
                         /\ \A e \in Events : newEvents[e] # None /\ newEvents[e].active
                                               => ~ newEvents[e].review
    PROVE  LocInv'
<1>1. locked' = None /\ UNCHANGED <<at, chosen, old, travels>> BY DEF Conclude
<1>2. /\ Once' /\ record' \in [Keys -> {Answer("ok", "ok"), None}]
      /\ applied' \in Seq(Keys) /\ UNCHANGED sent
      /\ handler' = [handler EXCEPT ![h] = Free]
      /\ pools' \in Pools /\ events' \in EventTable /\ ActiveIsReviewed'
  <2>1. CASE why = "ok" /\ Commit(h, why) /\ pools' = newPools /\ events' = newEvents
    BY <2>1, CommitOnce DEF ActiveIsReviewed, Exists
  <2>2. CASE (\E x : Refuse(h, x)) /\ UNCHANGED <<pools, events>>
    BY <2>2, RefuseOnce DEF LocInv, TypeOK, Once, Recorded, ActiveIsReviewed, Exists
  <2> QED BY <2>1, <2>2 DEF Conclude, Clash
<1>3. \A u \in Handlers : Holds(u)' BY <1>2, DoneHolds
<1>4. TypeOK' BY <1>1, <1>2, DoneHolds DEF LocInv, TypeOK
<1> QED BY <1>2, <1>3, <1>4 DEF LocInv

\* What the handler has read.
LEMMA ReadTyped ==
    ASSUME Assumptions, LocInv, NEW h \in Handlers, handler[h].pc = "loaded"
    PROVE  /\ handler[h].key \in Keys /\ Op(h) = OpOf[handler[h].key]
           /\ locked = h /\ handler[h].copy \in Copy
           /\ handler[h].copy.pools \in Pools /\ handler[h].copy.events \in EventTable
<1>1. /\ handler[h].key \in Keys /\ Op(h) = OpOf[handler[h].key]
      /\ locked = h /\ handler[h].copy # None
  BY HandlerTyped DEF Holds
<1>2. handler[h].copy \in Copy BY <1>1, HandlerTyped
<1> QED BY <1>1, <1>2 DEF Copy

LEMMA Rows ==
    ASSUME LocInv
    PROVE  /\ pools \in Pools /\ events \in EventTable
           /\ \A e \in Events : events[e] # None /\ events[e].active => ~ events[e].review
BY DEF LocInv, TypeOK, ActiveIsReviewed, Exists

\* A pool of the copy, or a new one.
LEMMA PoolTyped ==
    ASSUME Assumptions, LocInv, NEW h \in Handlers, handler[h].pc = "loaded", Op(h).place \in Places
    PROVE  Pool(h) \in PoolRow /\ NewPool \in PoolRow
<1>1. NewPool \in PoolRow BY DEF NewPool, NoRewards, PoolRow, Offers
<1>2. handler[h].copy.pools \in Pools BY ReadTyped
<1> QED BY <1>1, <1>2 DEF Pool, Exists, Pools

\* The row an edit of a pool leaves.
LEMMA EditPoolSafe ==
    ASSUME Assumptions, LocInv, NEW h \in Handlers, handler[h].pc = "loaded",
           Op(h).place \in Places, NEW why, NEW new \in PoolRow, EditPool(h, why, new)
    PROVE  LocInv'
<1> DEFINE row == [new EXCEPT !.version = new.version + 1]
           result == [pools EXCEPT ![Op(h).place] = row]
           said == CASE ~ Exists(handler[h].copy.pools, Op(h).place) -> "missing"
                     [] Exists(handler[h].copy.pools, Op(h).place)
                        /\ Stale(handler[h].copy.pools[Op(h).place], h) -> "conflict"
                     [] OTHER -> why
<1>1. row \in PoolRow BY DEF PoolRow
<1>2. Conclude(h, said, result, events) BY DEF EditPool
<1> HIDE DEF row, said
<1>3. result \in Pools BY <1>1, Rows DEF Pools
<1> HIDE DEF result
<1> QED BY <1>2, <1>3, Rows, ConcludeSafe

LEMMA PoolEditsSafe ==
    ASSUME Assumptions, LocInv, NEW h \in Handlers,
           \/ PatchLocation(h) \/ CreateReward(h) \/ PatchReward(h) \/ DeleteReward(h)
           \/ ImportRewards(h)
    PROVE  LocInv'
<1> DEFINE op == Op(h)
           pool == Pool(h)
<1>1. /\ handler[h].pc = "loaded"
      /\ op.kind \in PoolEdits
  BY DEF PatchLocation, CreateReward, PatchReward, DeleteReward, ImportRewards, Serves, PoolEdits
<1>2. handler[h].key \in Keys /\ op = OpOf[handler[h].key] BY <1>1, ReadTyped
<1>3. op.place \in Places BY <1>1, <1>2 DEF Assumptions, PayloadAssumption
<1>4. pool \in PoolRow BY <1>1, <1>3, PoolTyped
<1>5. ASSUME NEW rewards \in Offers PROVE [pool EXCEPT !.rewards = rewards] \in PoolRow
  BY <1>4 DEF PoolRow
<1>6. ASSUME NEW reward, NEW content \in Contents \union {None}
      PROVE  [pool EXCEPT !.rewards[reward] = content] \in PoolRow
  BY <1>4 DEF PoolRow, Offers
<1>7. CASE PatchLocation(h)
  <2>1. op.level \in Nat BY <1>2, <1>7 DEF PatchLocation, Serves, Assumptions, PayloadAssumption
  <2>2. [pool EXCEPT !.level = op.level] \in PoolRow BY <1>4, <2>1 DEF PoolRow
  <2>3. EditPool(h, "ok", [pool EXCEPT !.level = op.level]) BY <1>7 DEF PatchLocation
  <2> QED BY <1>1, <1>3, <2>2, <2>3, EditPoolSafe
<1>8. CASE CreateReward(h) \/ PatchReward(h)
  <2>1. op.content \in Contents
    BY <1>2, <1>8 DEF CreateReward, PatchReward, Serves, Assumptions, PayloadAssumption
  <2>2. \E why : EditPool(h, why, [pool EXCEPT !.rewards[op.reward] = op.content])
    BY <1>8 DEF CreateReward, PatchReward
  <2> QED BY <1>1, <1>3, <1>6, <2>1, <2>2, EditPoolSafe
<1>9. CASE DeleteReward(h)
  <2>1. \E why : EditPool(h, why, [pool EXCEPT !.rewards[op.reward] = None])
    BY <1>9 DEF DeleteReward
  <2> QED BY <1>1, <1>3, <1>6, <2>1, EditPoolSafe
<1>10. CASE ImportRewards(h)
  <2> DEFINE kept == IF op.replace THEN NoRewards ELSE pool.rewards
             all == [r \in Rewards |-> IF op.rewards[r] # None THEN op.rewards[r] ELSE kept[r]]
  <2>1. op.rewards \in Offers BY <1>2, <1>10 DEF ImportRewards, Serves, Assumptions, PayloadAssumption
  <2>2. kept \in Offers BY <1>4 DEF NoRewards, Offers, PoolRow
  <2>3. all \in Offers BY <2>1, <2>2 DEF Offers
  <2>4. \E why : EditPool(h, why, [pool EXCEPT !.rewards = all]) BY <1>10 DEF ImportRewards
  <2> QED BY <1>1, <1>3, <1>5, <2>3, <2>4, EditPoolSafe
<1> QED BY <1>7, <1>8, <1>9, <1>10

LEMMA PlacesSafe ==
    ASSUME Assumptions, LocInv, NEW h \in Handlers, CreateLocation(h) \/ DeleteLocation(h)
    PROVE  LocInv'
<1> DEFINE op == Op(h)
<1>1. handler[h].pc = "loaded" /\ op.kind \in {"create_location", "delete_location"}
  BY DEF CreateLocation, DeleteLocation, Serves
<1>2. handler[h].key \in Keys /\ op = OpOf[handler[h].key] BY <1>1, ReadTyped
<1>3. op.place \in Places BY <1>1, <1>2 DEF Assumptions, PayloadAssumption
<1>4. CASE CreateLocation(h)
  <2> DEFINE row == [NewPool EXCEPT !.level = op.level]
             result == [pools EXCEPT ![op.place] = row]
  <2>1. op.level \in Nat BY <1>2, <1>4 DEF CreateLocation, Serves, Assumptions, PayloadAssumption
  <2>2. row \in PoolRow BY <1>1, <1>3, <2>1, PoolTyped DEF PoolRow
  <2>3. \E why : Conclude(h, why, result, events) BY <1>4 DEF CreateLocation
  <2> HIDE DEF row
  <2>4. result \in Pools BY <2>2, Rows DEF Pools
  <2> HIDE DEF result
  <2> QED BY <1>1, <2>3, <2>4, Rows, ConcludeSafe
<1>5. CASE DeleteLocation(h)
  <2> DEFINE result == [pools EXCEPT ![op.place] = None]
  <2>1. \E why : Conclude(h, why, result, events) BY <1>5 DEF DeleteLocation
  <2>2. result \in Pools BY Rows DEF Pools
  <2> HIDE DEF result
  <2> QED BY <1>1, <2>1, <2>2, Rows, ConcludeSafe
<1> QED BY <1>4, <1>5

-----------------------------------------------------------------------------
(* Events *)

\* One more or one other row, that is not active before its review.
LEMMA EventPut ==
    ASSUME LocInv, NEW e \in Events, NEW row \in EventRow \union {None},
           row # None /\ row.active => ~ row.review
    PROVE  LET table == [events EXCEPT ![e] = row] IN
           /\ table \in EventTable
           /\ \A f \in Events : table[f] # None /\ table[f].active => ~ table[f].review
<1> DEFINE table == [events EXCEPT ![e] = row]
<1>1. events \in [Events -> EventRow \union {None}] BY Rows DEF EventTable
<1>2. table \in EventTable BY <1>1 DEF EventTable
<1>3. table[e] = row /\ \A f \in Events : f # e => table[f] = events[f] BY <1>1
<1> HIDE DEF table
<1>4. \A f \in Events : table[f] # None /\ table[f].active => ~ table[f].review
  BY <1>3, Rows
<1> QED BY <1>2, <1>4 DEF table

\* The event the handler works on is the one in the table.
LEMMA OwnEvent ==
    ASSUME Assumptions, LocInv, NEW h \in Handlers, handler[h].pc = "loaded",
           Op(h).kind \in EventEdits \union {"create_event"}
    PROVE  /\ Op(h).event \in Events /\ Event(h) = events[Op(h).event]
           /\ Event(h) \in EventRow \union {None}
           /\ Event(h) # None /\ Event(h).active => ~ Event(h).review
<1>1. handler[h].key \in Keys /\ Op(h) = OpOf[handler[h].key] BY ReadTyped
<1>2. "event" \in DOMAIN Op(h) /\ Op(h).event \in Events
  BY <1>1 DEF Assumptions, PayloadAssumption
<1>3. Event(h) = events[Op(h).event] BY <1>2, HandlerTyped DEF Holds, Event
<1> QED BY <1>2, <1>3, Rows DEF EventTable

LEMMA CreateEventSafe ==
    ASSUME Assumptions, LocInv, NEW h \in Handlers, CreateEvent(h)
    PROVE  LocInv'
<1> DEFINE op == Op(h)
           why == IF Overridable(handler[h].copy.pools, op.override) THEN "ok" ELSE "missing"
           row == [version |-> 1, override |-> op.override, active |-> FALSE, review |-> FALSE]
           result == [events EXCEPT ![op.event] = row]
<1>1. handler[h].pc = "loaded" /\ op.kind = "create_event" /\ Conclude(h, why, pools, result)
  BY DEF CreateEvent, Serves
<1>2. op.event \in Events BY <1>1, OwnEvent
<1>3. why = "ok" => op.override \in Places \union {None} BY DEF Overridable
<1>4. ASSUME why = "ok"
      PROVE  /\ result \in EventTable
             /\ \A f \in Events : result[f] # None /\ result[f].active => ~ result[f].review
  <2>1. row \in EventRow /\ ~ row.active BY <1>3, <1>4 DEF EventRow
  <2> HIDE DEF row
  <2> QED BY <1>2, <2>1, EventPut
<1> HIDE DEF why, result
<1> QED BY <1>1, <1>4, Rows, ConcludeSafe

\* An edit of an event leaves one row in another state.
LEMMA EditEventSafe ==
    ASSUME Assumptions, LocInv, NEW h \in Handlers, handler[h].pc = "loaded",
           Op(h).kind \in EventEdits, NEW why, NEW new, EditEvent(h, why, new),
           why = "ok" /\ Event(h) # None =>
             /\ new \in EventRow \union {None}
             /\ new # None /\ new.active => ~ new.review
    PROVE  LocInv'
<1> DEFINE e == Op(h).event
           seen == handler[h].copy.events
           said == CASE ~ Exists(seen, e) -> "missing"
                     [] Exists(seen, e) /\ Stale(seen[e], h) -> "conflict"
                     [] OTHER -> why
           result == [events EXCEPT ![e] = new]
<1>1. Conclude(h, said, pools, result) BY DEF EditEvent
<1>2. e \in Events /\ Event(h) = seen[e] BY OwnEvent DEF Event
<1>3. said = "ok" => why = "ok" /\ Event(h) # None BY <1>2 DEF Exists
<1>4. ASSUME said = "ok"
      PROVE  /\ result \in EventTable
             /\ \A f \in Events : result[f] # None /\ result[f].active => ~ result[f].review
  BY <1>2, <1>3, <1>4, EventPut
<1> HIDE DEF said, result
<1> QED BY <1>1, <1>4, Rows, ConcludeSafe

LEMMA PatchEventSafe ==
    ASSUME Assumptions, LocInv, NEW h \in Handlers, PatchEvent(h)
    PROVE  LocInv'
<1> DEFINE op == Op(h)
           event == Event(h)
           why == IF Overridable(handler[h].copy.pools, op.override) THEN "ok" ELSE "missing"
           row == [event EXCEPT !.version = event.version + 1, !.override = op.override,
                                !.review = event.review /\ ~ op.modifiers]
           new == IF event = None THEN None ELSE row
<1>1. handler[h].pc = "loaded" /\ op.kind = "patch_event" /\ EditEvent(h, why, new)
  BY DEF PatchEvent, Serves
<1>2. op.kind \in EventEdits BY <1>1 DEF EventEdits
<1>3. event \in EventRow \union {None} /\ (event # None /\ event.active => ~ event.review)
  BY <1>1, <1>2, OwnEvent
<1>4. op.modifiers \in BOOLEAN BY <1>1, ReadTyped DEF Assumptions, PayloadAssumption
<1>5. ASSUME why = "ok", event # None PROVE row \in EventRow /\ (row.active => ~ row.review)
  <2>1. op.override \in Places \union {None} BY <1>5 DEF Overridable
  <2>2. event \in EventRow BY <1>3, <1>5
  <2> DEFINE first == [event EXCEPT !.version = event.version + 1]
             second == [first EXCEPT !.override = op.override]
             reviewed == event.review /\ ~ op.modifiers
             third == [second EXCEPT !.review = reviewed]
  <2>3. first \in EventRow /\ first.active = event.active BY <2>2 DEF EventRow
  <2> HIDE DEF first
  <2>4. second \in EventRow /\ second.active = event.active BY <2>1, <2>3 DEF EventRow
  <2>5. reviewed \in BOOLEAN /\ (reviewed => event.review) OBVIOUS
  <2> HIDE DEF second, reviewed
  <2>6. third \in EventRow /\ third.active = event.active /\ third.review = reviewed
    BY <2>4, <2>5 DEF EventRow
  <2>7. row = third BY DEF third, second, first, reviewed
  <2> QED BY <1>3, <1>5, <2>5, <2>6, <2>7
<1> HIDE DEF row, why
<1>6. why = "ok" /\ event # None =>
        new \in EventRow \union {None} /\ (new # None /\ new.active => ~ new.review)
  BY <1>5
<1> HIDE DEF new
<1> QED BY <1>1, <1>2, <1>6, EditEventSafe

LEMMA DeleteEventSafe ==
    ASSUME Assumptions, LocInv, NEW h \in Handlers, DeleteEvent(h)
    PROVE  LocInv'
<1>1. handler[h].pc = "loaded" /\ Op(h).kind \in EventEdits /\ EditEvent(h, "ok", None)
  BY DEF DeleteEvent, Serves, EventEdits
<1> QED BY <1>1, EditEventSafe

\* Everything but one event is made inactive.
LEMMA OnlyActiveTyped ==
    ASSUME NEW table \in EventTable, NEW e
    PROVE  /\ OnlyActive(table, e) \in EventTable
           /\ \A f \in Events : OnlyActive(table, e)[f] # None =>
                /\ table[f] # None /\ OnlyActive(table, e)[f].active = (f = e)
                /\ OnlyActive(table, e)[f].review = table[f].review
                /\ OnlyActive(table, e)[f].override = table[f].override
<1> DEFINE result == OnlyActive(table, e)
           row(f) == [table[f] EXCEPT !.active = (f = e)]
<1>1. \A f \in Events : result[f] = IF table[f] # None THEN row(f) ELSE None
  BY DEF OnlyActive, Exists
<1>2. ASSUME NEW f \in Events, table[f] # None
      PROVE  /\ row(f) \in EventRow /\ row(f).active = (f = e) /\ row(f).review = table[f].review
             /\ row(f).override = table[f].override
  <2>1. table[f] \in EventRow BY <1>2 DEF EventTable
  <2>2. (f = e) \in BOOLEAN OBVIOUS
  <2> QED BY <2>1, <2>2 DEF EventRow
<1>3. \A f \in Events : result[f] \in EventRow \union {None} BY <1>1, <1>2
<1>4. result \in EventTable BY <1>3 DEF EventTable, OnlyActive
<1>5. \A f \in Events : result[f] # None =>
        /\ table[f] # None /\ result[f].active = (f = e)
        /\ result[f].review = table[f].review /\ result[f].override = table[f].override
  BY <1>1, <1>2
<1> QED BY <1>4, <1>5

\* An event that is switched on or off has another version.
LEMMA Switched ==
    ASSUME NEW event \in EventRow, NEW on \in BOOLEAN
    PROVE  LET row == [event EXCEPT !.active = on, !.version = event.version + 1] IN
           /\ row \in EventRow /\ row.active = on /\ row.review = event.review
           /\ row.override = event.override
<1> DEFINE first == [event EXCEPT !.active = on]
           row == [first EXCEPT !.version = event.version + 1]
<1>1. /\ first \in EventRow /\ first.active = on /\ first.review = event.review
      /\ first.override = event.override /\ event.version \in Nat
  BY DEF EventRow
<1> HIDE DEF first
<1>2. row \in EventRow /\ row.active = on /\ row.review = first.review /\ row.override = first.override
  BY <1>1 DEF EventRow
<1> QED BY <1>1, <1>2 DEF first

LEMMA StartEventSafe ==
    ASSUME Assumptions, LocInv, NEW h \in Handlers, StartEvent(h)
    PROVE  LocInv'
<1> DEFINE e == Op(h).event
           event == Event(h)
           seen == handler[h].copy.events
           why == CASE ~ Exists(seen, e) -> "missing"
                    [] Exists(seen, e) /\ NeedsReview(seen[e]) -> "review"
                    [] Exists(seen, e) /\ ~ NeedsReview(seen[e]) /\ Stale(seen[e], h) -> "conflict"
                    [] OTHER -> "ok"
           row == [event EXCEPT !.active = TRUE, !.version = event.version + 1]
           others == OnlyActive(events, e)
           result == [others EXCEPT ![e] = row]
           new == IF event = None THEN events ELSE result
<1>1. handler[h].pc = "loaded" /\ Op(h).kind \in EventEdits /\ Conclude(h, why, pools, new)
  BY DEF StartEvent, Serves, EventEdits
<1>2. e \in Events /\ event = seen[e] /\ event \in EventRow \union {None} BY <1>1, OwnEvent DEF Event
<1>3. why = "ok" => event # None /\ ~ event.review BY <1>2 DEF Exists, NeedsReview
<1> HIDE DEF why
<1>4. ASSUME why = "ok"
      PROVE  /\ new \in EventTable
             /\ \A f \in Events : new[f] # None /\ new[f].active => ~ new[f].review
  <2>1. event \in EventRow /\ ~ event.review BY <1>2, <1>3, <1>4
  <2>2. row \in EventRow /\ row.review = event.review BY <2>1, Switched
  <2> HIDE DEF row
  <2>3. /\ others \in EventTable
        /\ \A f \in Events : others[f] # None => others[f].active = (f = e)
    BY Rows, OnlyActiveTyped
  <2> HIDE DEF others
  <2>4. result \in EventTable BY <2>2, <2>3 DEF EventTable
  <2>5. result[e] = row /\ \A f \in Events : f # e => result[f] = others[f]
    BY <1>2, <2>3 DEF EventTable
  <2> HIDE DEF result
  <2>6. \A f \in Events : result[f] # None /\ result[f].active => ~ result[f].review
    BY <2>1, <2>2, <2>3, <2>5
  <2> QED BY <1>3, <1>4, <2>4, <2>6
<1> HIDE DEF new
<1> QED BY <1>1, <1>4, Rows, ConcludeSafe

LEMMA StopEventSafe ==
    ASSUME Assumptions, LocInv, NEW h \in Handlers, StopEvent(h)
    PROVE  LocInv'
<1> DEFINE row(f) == [events[f] EXCEPT !.active = FALSE, !.version = events[f].version + 1]
           result == [f \in Events |->
                        IF Exists(events, f) /\ events[f].active THEN row(f) ELSE events[f]]
<1>1. handler[h].pc = "loaded" /\ Conclude(h, "ok", pools, result) BY DEF StopEvent, Serves
<1>2. \A f \in Events : events[f] \in EventRow \union {None} BY Rows DEF EventTable
<1>3. ASSUME NEW f \in Events, events[f] # None PROVE row(f) \in EventRow /\ ~ row(f).active
  <2>1. events[f] \in EventRow BY <1>2, <1>3
  <2> QED BY <2>1, Switched
<1> HIDE DEF row
<1>4. \A f \in Events : result[f] \in EventRow \union {None} BY <1>2, <1>3 DEF Exists
<1>5. result \in EventTable BY <1>4 DEF EventTable
<1>6. \A f \in Events : result[f] # None /\ result[f].active => ~ result[f].review
  BY <1>3, Rows DEF Exists
<1> HIDE DEF result
<1> QED BY <1>1, <1>5, <1>6, Rows, ConcludeSafe

-----------------------------------------------------------------------------
(* Requests on their way *)

\* The row is locked and everything is read.
LEMMA AuthorizeSafe ==
    ASSUME Assumptions, LocInv, NEW h \in Handlers, Authorize(h)
    PROVE  LocInv'
<1> DEFINE own == [pools |-> pools, events |-> events, at |-> at]
           new == [handler[h] EXCEPT !.pc = "loaded", !.copy = own]
<1>1. /\ handler[h].pc = "asked" /\ locked = None /\ locked' = h
      /\ handler' = [handler EXCEPT ![h] = new]
      /\ UNCHANGED <<record, sent, applied, pools, events, at, chosen, old, travels>>
  BY DEF Authorize, FreeRow, LoadCopy
<1>2. own \in Copy BY DEF Copy, LocInv, TypeOK
<1>3. own.pools = pools /\ own.events = events /\ own # None
  BY <1>2 DEF Assumptions, NoneApart
<1> HIDE DEF own
<1>4. /\ new \in [pc : {"free", "asked", "loaded"}, key : Keys \union {None}, copy : Copy \union {None}]
      /\ new.pc = "loaded" /\ new.copy = own /\ new.key = handler[h].key /\ handler[h].key \in Keys
  BY <1>1, <1>2, HandlerTyped
<1> HIDE DEF new
<1>5. /\ handler'[h] = new /\ \A u \in Handlers : u # h => handler'[u] = handler[u]
      /\ handler' \in [Handlers -> [pc : {"free", "asked", "loaded"}, key : Keys \union {None},
                                    copy : Copy \union {None}]]
  BY <1>1, <1>4 DEF LocInv, TypeOK
<1>6. \A u \in Handlers : handler[u].pc # "loaded"
  BY <1>1 DEF LocInv, Holds, Assumptions, LocationAssumption
<1>7. ASSUME NEW u \in Handlers PROVE Holds(u)'
  <2>1. CASE u = h BY <1>1, <1>3, <1>4, <1>5, <2>1 DEF Holds, Exists
  <2>2. CASE u # h BY <1>5, <1>6, <2>2, HandlerTyped DEF Holds
  <2> QED BY <2>1, <2>2
<1>8. TypeOK' BY <1>1, <1>5 DEF LocInv, TypeOK
<1>9. Once' /\ ActiveIsReviewed' BY <1>1 DEF LocInv, Once, Recorded, ActiveIsReviewed
<1> QED BY <1>7, <1>8, <1>9 DEF LocInv

LEMMA ReceiveSafe ==
    ASSUME Assumptions, LocInv, NEW h \in Handlers, NEW k \in Keys,
           Receive(h, k), UNCHANGED worldVars
    PROVE  LocInv'
<1> DEFINE new == [Free EXCEPT !.pc = "asked", !.key = k]
<1>1. /\ handler[h].pc = "free" /\ sent[k] < Attempts /\ sent' = [sent EXCEPT ![k] = sent[k] + 1]
      /\ handler' = handler \/ handler' = [handler EXCEPT ![h] = new]
      /\ UNCHANGED <<record, applied, pools, events, at, chosen, locked, old, travels>>
  BY DEF Receive, worldVars
<1>2. /\ new \in [pc : {"free", "asked", "loaded"}, key : Keys \union {None}, copy : Copy \union {None}]
      /\ new.pc = "asked" /\ new.key = k
  BY DEF Free
<1> HIDE DEF new
<1>3. sent' \in [Keys -> 0 .. Attempts]
  <2>1. sent \in [Keys -> 0 .. Attempts] /\ Attempts \in Nat
    BY DEF LocInv, TypeOK, Assumptions, RequestAssumption
  <2>2. sent[k] + 1 \in 0 .. Attempts BY <1>1, <2>1
  <2> QED BY <1>1, <2>1, <2>2
<1>4. /\ handler'[h] = handler[h] \/ handler'[h] = new
      /\ \A u \in Handlers : u # h => handler'[u] = handler[u]
      /\ handler' \in [Handlers -> [pc : {"free", "asked", "loaded"}, key : Keys \union {None},
                                    copy : Copy \union {None}]]
  <2>1. handler \in [Handlers -> [pc : {"free", "asked", "loaded"}, key : Keys \union {None},
                                   copy : Copy \union {None}]]
    BY DEF LocInv, TypeOK
  <2>2. handler' = handler \/ handler' = [handler EXCEPT ![h] = new] BY <1>1
  <2> QED BY <1>2, <2>1, <2>2
<1>5. ASSUME NEW u \in Handlers PROVE Holds(u)'
  <2>1. CASE u = h BY <1>1, <1>2, <1>4, <2>1 DEF Holds
  <2>2. CASE u # h
    <3>1. handler'[u] = handler[u] /\ Holds(u) BY <1>4, <2>2, HandlerTyped
    <3> QED BY <1>1, <3>1 DEF Holds, Op
  <2> QED BY <2>1, <2>2
<1>6. TypeOK' BY <1>1, <1>3, <1>4 DEF LocInv, TypeOK
<1>7. Once' /\ ActiveIsReviewed' BY <1>1 DEF LocInv, Once, Recorded, ActiveIsReviewed
<1> QED BY <1>5, <1>6, <1>7 DEF LocInv

LEMMA EngineStopsSafe ==
    ASSUME Assumptions, LocInv, EngineStops
    PROVE  LocInv'
<1>1. /\ handler' = [h \in Handlers |-> Free] /\ locked' = None
      /\ chosen' = [v \in Viewers |-> None]
      /\ UNCHANGED <<record, sent, applied, pools, events, at, old, travels>>
  BY DEF EngineStops, Crash
<1>2. TypeOK' BY <1>1, FreeTyped DEF LocInv, TypeOK
<1>3. \A h \in Handlers : Holds(h)' BY <1>1, FreeTyped DEF Holds
<1>4. Once' /\ ActiveIsReviewed' BY <1>1 DEF LocInv, Once, Recorded, ActiveIsReviewed
<1> QED BY <1>2, <1>3, <1>4 DEF LocInv

-----------------------------------------------------------------------------
(* The older API *)

\* A call of the older API leaves what the handlers go by as they have read it.
LEMMA OldCallSafe ==
    ASSUME Assumptions, LocInv, OldCall, pools' \in Pools, events' \in EventTable,
           \A e \in Events : events'[e] # None /\ events'[e].active => ~ events'[e].review,
           \A l \in Places : Exists(pools, l) => Exists(pools', l),
           \A h \in Handlers : handler[h].pc = "loaded" =>
               /\ "place" \in DOMAIN Op(h) => pools'[Op(h).place] = pools[Op(h).place]
               /\ "event" \in DOMAIN Op(h) => events'[Op(h).event] = events[Op(h).event]
    PROVE  LocInv'
<1>1. /\ old' \in 0 .. MaxOld
      /\ UNCHANGED <<record, handler, sent, applied, at, chosen, locked, travels>>
  BY DEF OldCall, requestVars, LocInv, TypeOK, Assumptions, LocationAssumption
<1>2. TypeOK' BY <1>1 DEF LocInv, TypeOK
<1>3. Once' BY <1>1 DEF LocInv, Once, Recorded
<1>4. ActiveIsReviewed' BY DEF ActiveIsReviewed, Exists
<1>5. ASSUME NEW h \in Handlers PROVE Holds(h)'
  <2>1. Holds(h) BY DEF LocInv
  <2>2. /\ handler'[h] = handler[h] /\ locked' = locked
        /\ handler[h].pc = "loaded" =>
             /\ "place" \in DOMAIN Op(h) => pools'[Op(h).place] = pools[Op(h).place]
             /\ "event" \in DOMAIN Op(h) => events'[Op(h).event] = events[Op(h).event]
    BY <1>1
  <2> QED BY <2>1, <2>2 DEF Holds, Op, Exists
<1> QED BY <1>2, <1>3, <1>4, <1>5 DEF LocInv

LEMMA UpdateRewardsSafe ==
    ASSUME Assumptions, LocInv, NEW l \in Places, NEW new \in OldPools, UpdateRewards(l, new)
    PROVE  LocInv'
<1> DEFINE row == [version |-> IF Exists(pools, l) THEN pools[l].version ELSE 1,
                   rewards |-> new.rewards, level |-> new.level]
<1>1. ~ HoldsPlace(l) /\ pools' = [pools EXCEPT ![l] = row] /\ events' = events /\ OldCall
  BY DEF UpdateRewards
<1>2. row \in PoolRow
  <2>1. new.rewards \in Offers /\ new.level \in Nat BY DEF Assumptions, PayloadAssumption
  <2>2. Exists(pools, l) => pools[l].version \in Nat BY Rows DEF Pools, PoolRow, Exists
  <2> QED BY <2>1, <2>2 DEF PoolRow
<1>3. row # None BY <1>2 DEF Assumptions, NoneApart
<1> HIDE DEF row
<1>4. /\ pools' \in Pools /\ pools'[l] = row
      /\ \A m \in Places : m # l => pools'[m] = pools[m]
  BY <1>1, <1>2, Rows DEF Pools
<1>5. \A m \in Places : Exists(pools, m) => Exists(pools', m) BY <1>3, <1>4 DEF Exists
<1>6. ASSUME NEW h \in Handlers, handler[h].pc = "loaded", "place" \in DOMAIN Op(h)
      PROVE  pools'[Op(h).place] = pools[Op(h).place]
  <2>1. handler[h].key \in Keys /\ Op(h) = OpOf[handler[h].key] BY <1>6, ReadTyped
  <2>2. Op(h).place \in Places BY <1>6, <2>1 DEF Assumptions, PayloadAssumption
  <2>3. Op(h).place # l BY <1>1, <1>6 DEF HoldsPlace
  <2> QED BY <1>4, <2>2, <2>3
<1> QED BY <1>1, <1>4, <1>5, <1>6, Rows, OldCallSafe

\* Events that are not the one a handler works on.
LEMMA OtherEvents ==
    ASSUME Assumptions, LocInv, NEW h \in Handlers, handler[h].pc = "loaded",
           "event" \in DOMAIN Op(h)
    PROVE  Op(h).event \in Events /\ HoldsEvent(Op(h).event)
<1>1. handler[h].key \in Keys /\ Op(h) = OpOf[handler[h].key] BY ReadTyped
<1>2. Op(h).event \in Events BY <1>1 DEF Assumptions, PayloadAssumption
<1> QED BY <1>2 DEF HoldsEvent

LEMMA SaveEventSafe ==
    ASSUME Assumptions, LocInv, NEW e \in Events, NEW new \in OldEvents, SaveEvent(e, new)
    PROVE  LocInv'
<1> DEFINE row == IF Exists(events, e) THEN [events[e] EXCEPT !.override = new.override]
                  ELSE [version |-> 1, override |-> new.override, active |-> FALSE, review |-> FALSE]
           saved == [events EXCEPT ![e] = row]
<1>1. /\ ~ HoldsEvent(e) /\ Overridable(pools, new.override)
      /\ new.active => ~ NeedsReview(saved[e]) /\ \A f \in Events : ~ HoldsEvent(f)
      /\ events' = (IF new.active THEN Activated(saved, e) ELSE saved)
      /\ pools' = pools /\ OldCall
  BY DEF SaveEvent
<1>2. row \in EventRow /\ (row.active => ~ row.review)
  <2>1. new.override \in Places \union {None} BY <1>1 DEF Overridable
  <2>2. CASE Exists(events, e)
    <3>1. events[e] \in EventRow /\ (events[e].active => ~ events[e].review)
      BY <2>2, Rows DEF EventTable, Exists
    <3> QED BY <2>1, <2>2, <3>1 DEF EventRow
  <2>3. CASE ~ Exists(events, e) BY <2>1, <2>3 DEF EventRow
  <2> QED BY <2>2, <2>3
<1> HIDE DEF row
<1>3. /\ saved \in EventTable /\ saved[e] = row
      /\ \A f \in Events : f # e => saved[f] = events[f]
      /\ \A f \in Events : saved[f] # None /\ saved[f].active => ~ saved[f].review
  BY <1>2, Rows, EventPut DEF EventTable
<1> HIDE DEF saved
<1>4. CASE ~ new.active
  <2>1. events' = saved BY <1>1, <1>4
  <2>2. ASSUME NEW h \in Handlers, handler[h].pc = "loaded", "event" \in DOMAIN Op(h)
        PROVE  events'[Op(h).event] = events[Op(h).event]
    <3>1. Op(h).event \in Events /\ Op(h).event # e BY <1>1, <2>2, OtherEvents
    <3> QED BY <1>3, <2>1, <3>1
  <2> QED BY <1>1, <1>3, <2>1, <2>2, Rows, OldCallSafe
<1>5. CASE new.active
  <2>1. events' = OnlyActive(saved, e) /\ ~ row.review BY <1>1, <1>3, <1>5 DEF Activated, NeedsReview
  <2>2. events' \in EventTable BY <1>3, <2>1, OnlyActiveTyped
  <2>3. \A f \in Events : events'[f] # None /\ events'[f].active => ~ events'[f].review
    <3>1. SUFFICES ASSUME NEW f \in Events, events'[f] # None, events'[f].active
                   PROVE  ~ events'[f].review
      OBVIOUS
    <3>2. events'[f].active = (f = e) /\ events'[f].review = saved[f].review
      BY <1>3, <2>1, <3>1, OnlyActiveTyped
    <3>3. f = e BY <3>1, <3>2
    <3> QED BY <1>3, <2>1, <3>2, <3>3
  <2>4. \A h \in Handlers : handler[h].pc = "loaded" => ~ ("event" \in DOMAIN Op(h))
    BY <1>1, <1>5, OtherEvents
  <2> QED BY <1>1, <2>2, <2>3, <2>4, Rows, OldCallSafe
<1> QED BY <1>4, <1>5

LEMMA ToggleEventSafe ==
    ASSUME Assumptions, LocInv, NEW e \in Events, ToggleEvent(e)
    PROVE  LocInv'
<1>1. /\ Exists(events, e) /\ \A f \in Events : ~ HoldsEvent(f)
      /\ events' = (IF events[e].active THEN OnlyActive(events, None) ELSE Activated(events, e))
      /\ pools' = pools /\ OldCall
  BY DEF ToggleEvent
<1>2. /\ events' \in EventTable
      /\ \A f \in Events : events'[f] # None /\ events'[f].active => ~ events'[f].review
  <2>1. CASE events' = OnlyActive(events, None)
    <3>1. \A f \in Events : (f = None) = FALSE BY DEF Assumptions, LocationAssumption
    <3>2. \A f \in Events : events'[f] # None => events'[f].active = (f = None)
      BY <2>1, Rows, OnlyActiveTyped
    <3>3. \A f \in Events : events'[f] # None => events'[f].active = FALSE BY <3>1, <3>2
    <3>4. events' \in EventTable BY <2>1, Rows, OnlyActiveTyped
    <3> QED BY <3>3, <3>4
  <2>2. CASE events' = events BY <2>2, Rows
  <2>3. CASE events' = OnlyActive(events, e) /\ ~ events[e].review
    <3>1. events \in EventTable BY Rows
    <3>2. events' \in EventTable BY <2>3, <3>1, OnlyActiveTyped
    <3>3. ASSUME NEW f \in Events, events'[f] # None, events'[f].active
          PROVE  ~ events'[f].review
      <4>1. events'[f].active = (f = e) /\ events'[f].review = events[f].review
        BY <2>3, <3>1, <3>3, OnlyActiveTyped
      <4>2. f = e BY <3>3, <4>1
      <4> QED BY <2>3, <4>1, <4>2
    <3> QED BY <3>2, <3>3
  <2> QED BY <1>1, <2>1, <2>2, <2>3 DEF Activated, NeedsReview
<1>3. \A h \in Handlers : handler[h].pc = "loaded" => ~ ("event" \in DOMAIN Op(h))
  BY <1>1, OtherEvents
<1> QED BY <1>1, <1>2, <1>3, Rows, OldCallSafe

LEMMA RemoveEventSafe ==
    ASSUME Assumptions, LocInv, NEW e \in Events, RemoveEvent(e)
    PROVE  LocInv'
<1>1. /\ ~ HoldsEvent(e) /\ events' = [events EXCEPT ![e] = None]
      /\ pools' = pools /\ OldCall
  BY DEF RemoveEvent
<1>2. /\ events' \in EventTable
      /\ \A f \in Events : events'[f] # None /\ events'[f].active => ~ events'[f].review
  BY <1>1, EventPut
<1>3. ASSUME NEW h \in Handlers, handler[h].pc = "loaded", "event" \in DOMAIN Op(h)
      PROVE  events'[Op(h).event] = events[Op(h).event]
  <2>1. Op(h).event \in Events /\ Op(h).event # e BY <1>1, <1>3, OtherEvents
  <2> QED BY <1>1, <2>1, Rows DEF EventTable
<1> QED BY <1>1, <1>2, <1>3, Rows, OldCallSafe

-----------------------------------------------------------------------------
(* Travel *)

LEMMA TravelSafe ==
    ASSUME Assumptions, LocInv, NEW v \in Viewers,
           Arrive(v) \/ \E l \in Places : ChooseLocation(v, l)
    PROVE  LocInv'
<1>1. /\ UNCHANGED <<record, handler, sent, applied, pools, events, locked, old>>
      /\ at' \in [Viewers -> Places] /\ chosen' \in [Viewers -> Places \union {None}]
      /\ travels' \in 0 .. MaxTravels
  <2>1. CASE Arrive(v)
    <3>1. chosen[v] \in Places BY <2>1 DEF Arrive, LocInv, TypeOK
    <3> QED BY <2>1, <3>1 DEF Arrive, requestVars, LocInv, TypeOK
  <2>2. ASSUME NEW l \in Places, ChooseLocation(v, l)
        PROVE  /\ UNCHANGED <<record, handler, sent, applied, pools, events, locked, old>>
               /\ at' \in [Viewers -> Places] /\ chosen' \in [Viewers -> Places \union {None}]
               /\ travels' \in 0 .. MaxTravels
    BY <2>2 DEF ChooseLocation, requestVars, LocInv, TypeOK, Assumptions, LocationAssumption
  <2> QED BY <2>1, <2>2
<1>2. TypeOK' BY <1>1 DEF LocInv, TypeOK
<1>3. Once' /\ ActiveIsReviewed' BY <1>1 DEF LocInv, Once, Recorded, ActiveIsReviewed
<1>4. \A h \in Handlers : Holds(h)' BY <1>1 DEF LocInv, Holds, Op
<1> QED BY <1>2, <1>3, <1>4 DEF LocInv

-----------------------------------------------------------------------------
(* The invariant *)

LEMMA LocInit ==
    ASSUME Assumptions, Init
    PROVE  LocInv
<1>1. /\ record = [k \in Keys |-> None] /\ handler = [h \in Handlers |-> Free]
      /\ sent = [k \in Keys |-> 0] /\ applied = <<>>
  BY DEF Init, RequestInit
<1>2. NewPool \in PoolRow BY DEF NewPool, NoRewards, PoolRow, Offers
<1>3. pools \in Pools BY <1>2 DEF Init, Pools
<1>4. events \in EventTable /\ \A e \in Events : events[e] # None => ~ events[e].active
  <2> DEFINE row == [version |-> 1, override |-> None, active |-> FALSE, review |-> TRUE]
  <2>1. row \in EventRow /\ ~ row.active BY DEF EventRow
  <2>2. PICK migrated \in SUBSET Events :
          events = [e \in Events |-> IF e \in migrated THEN row ELSE None]
    BY DEF Init
  <2> HIDE DEF row
  <2> QED BY <2>1, <2>2 DEF EventTable
<1>5. /\ at \in [Viewers -> Places] /\ chosen \in [Viewers -> Places \union {None}]
      /\ locked = None /\ old \in 0 .. MaxOld /\ travels \in 0 .. MaxTravels
      /\ Attempts \in Nat
  BY DEF Init, Assumptions, LocationAssumption, RequestAssumption
<1>6. TypeOK BY <1>1, <1>3, <1>4, <1>5, FreeTyped DEF TypeOK
<1>7. Once BY <1>1 DEF Once
<1>8. ActiveIsReviewed BY <1>4 DEF ActiveIsReviewed, Exists
<1>9. \A h \in Handlers : Holds(h) BY <1>1, FreeTyped DEF Holds
<1> QED BY <1>6, <1>7, <1>8, <1>9 DEF LocInv

LEMMA LocStutter ==
    ASSUME LocInv, UNCHANGED vars
    PROVE  LocInv'
<1>1. UNCHANGED <<record, handler, sent, applied, pools, events, at, chosen, locked, old, travels>>
  BY DEF vars, requestVars, worldVars
<1>2. TypeOK' BY <1>1 DEF LocInv, TypeOK
<1>3. Once' /\ ActiveIsReviewed' BY <1>1 DEF LocInv, Once, Recorded, ActiveIsReviewed, Exists
<1>4. \A h \in Handlers : Holds(h)' BY <1>1 DEF LocInv, Holds, Op, Exists
<1> QED BY <1>2, <1>3, <1>4 DEF LocInv

LEMMA LocStep ==
    ASSUME Assumptions, LocInv, [Next]_vars
    PROVE  LocInv'
<1>1. ASSUME NEW h \in Handlers, NEW k \in Keys, Receive(h, k), UNCHANGED worldVars PROVE LocInv'
  BY <1>1, ReceiveSafe
<1>2. ASSUME NEW h \in Handlers, Serve(h) PROVE LocInv'
  BY <1>2, AuthorizeSafe, PlacesSafe, PoolEditsSafe, CreateEventSafe, PatchEventSafe,
     DeleteEventSafe, StartEventSafe, StopEventSafe DEF Serve
<1>3. CASE OldApi
  BY <1>3, UpdateRewardsSafe, SaveEventSafe, ToggleEventSafe, RemoveEventSafe DEF OldApi
<1>4. ASSUME NEW v \in Viewers, Arrive(v) \/ \E l \in Places : ChooseLocation(v, l) PROVE LocInv'
  BY <1>4, TravelSafe
<1>5. CASE EngineStops BY <1>5, EngineStopsSafe
<1>6. CASE UNCHANGED vars BY <1>6, LocStutter
<1> QED BY <1>1, <1>2, <1>3, <1>4, <1>5, <1>6 DEF Next

LEMMA LocInvHolds == Assumptions /\ Spec => []LocInv
<1>1. Assumptions /\ Init => LocInv BY LocInit
<1>2. Assumptions /\ LocInv /\ [Next]_vars => LocInv' BY LocStep
<1>3. SUFFICES ASSUME Assumptions PROVE Spec => []LocInv OBVIOUS
<1> QED BY <1>1, <1>2, <1>3, PTL DEF Spec

-----------------------------------------------------------------------------
(* What administrators and viewers rely on *)

\* The state of the locations, of the events and of the requests for them keeps its
\* shape: counters stay within their bounds and rows are whole.
THEOREM LocationsTypeCorrect == Assumptions /\ Spec => []TypeOK
<1>1. LocInv => TypeOK BY DEF LocInv
<1> QED BY <1>1, LocInvHolds, PTL

\* A request is applied once however often the gateway sends it and whichever of
\* its attempts overlap (IdempotencyService.execute).
THEOREM RequestsAreAppliedOnce == Assumptions /\ Spec => []AppliedOnce
<1>1. LocInv => AppliedOnce BY DEF LocInv, Once, AppliedOnce
<1> QED BY <1>1, LocInvHolds, PTL

\* A migrated event is active only after a review, whichever of the ways to
\* activate an event is taken (start_event, set_active_fishing_event).
THEOREM ActiveEventsAreReviewed == Assumptions /\ Spec => []ActiveIsReviewed
<1>1. LocInv => ActiveIsReviewed BY DEF LocInv
<1> QED BY <1>1, LocInvHolds, PTL

-----------------------------------------------------------------------------
(* Versions *)

\* A request is recorded only when its operation succeeds.
LEMMA RecordedBy ==
    ASSUME Assumptions, LocInv, NEW h \in Handlers, handler[h].pc = "loaded",
           NEW why, NEW newPools, NEW newEvents, Conclude(h, why, newPools, newEvents),
           NEW k \in Keys, record[k] = None, record'[k] # None
    PROVE  why = "ok" /\ k = handler[h].key /\ OpOf[k] = Op(h)
<1>1. why = "ok" /\ Commit(h, why) BY RefuseOnce DEF Conclude, Clash
<1>2. record' = [record EXCEPT ![handler[h].key] = Answer("ok", why)] BY <1>1 DEF Commit
<1>3. record \in [Keys -> {Answer("ok", "ok"), None}] BY DEF LocInv, TypeOK
<1> QED BY <1>1, <1>2, <1>3 DEF Op

LEMMA PoolEditSaw ==
    ASSUME Assumptions, LocInv, NEW h \in Handlers, handler[h].pc = "loaded",
           Op(h).kind \in PoolEdits, NEW why, NEW new, EditPool(h, why, new),
           NEW k \in Keys, record[k] = None, record'[k] # None
    PROVE  LET op == OpOf[k]
               row == IF "place" \in DOMAIN op THEN pools[op.place] ELSE events[op.event]
           IN  row # None /\ row.version = op.expected
<1> DEFINE seen == handler[h].copy.pools
           l == Op(h).place
           said == CASE ~ Exists(seen, l) -> "missing"
                     [] Exists(seen, l) /\ Stale(seen[l], h) -> "conflict"
                     [] OTHER -> why
<1>1. \E newPools : Conclude(h, said, newPools, events) BY DEF EditPool
<1>2. said = "ok" => Exists(seen, l) /\ ~ Stale(seen[l], h) OBVIOUS
<1> HIDE DEF said
<1>3. said = "ok" /\ k = handler[h].key /\ OpOf[k] = Op(h) BY <1>1, RecordedBy
<1>4. "place" \in DOMAIN Op(h) BY <1>3 DEF Assumptions, PayloadAssumption
<1>5. seen[l] = pools[l] BY <1>4, HandlerTyped DEF Holds
<1> QED BY <1>2, <1>3, <1>4, <1>5 DEF Exists, Stale

LEMMA EventEditSaw ==
    ASSUME Assumptions, LocInv, NEW h \in Handlers, handler[h].pc = "loaded",
           Op(h).kind \in EventEdits, NEW why, NEW newEvents,
           why = "ok" => /\ handler[h].copy.events[Op(h).event] # None
                         /\ ~ Stale(handler[h].copy.events[Op(h).event], h),
           Conclude(h, why, pools, newEvents),
           NEW k \in Keys, record[k] = None, record'[k] # None
    PROVE  LET op == OpOf[k]
               row == IF "place" \in DOMAIN op THEN pools[op.place] ELSE events[op.event]
           IN  row # None /\ row.version = op.expected
<1>1. why = "ok" /\ k = handler[h].key /\ OpOf[k] = Op(h) BY RecordedBy
<1>2. "event" \in DOMAIN Op(h) /\ ~ ("place" \in DOMAIN Op(h))
  BY <1>1 DEF Assumptions, PayloadAssumption, EventEdits, PoolEdits
<1>3. handler[h].copy.events[Op(h).event] = events[Op(h).event] BY <1>2, HandlerTyped DEF Holds
<1> QED BY <1>1, <1>2, <1>3 DEF Stale

LEMMA ServeSaw ==
    ASSUME Assumptions, LocInv, NEW h \in Handlers, Serve(h)
    PROVE  EditsWhatItsAuthorSawStep
<1> SUFFICES ASSUME NEW k \in Keys, record[k] = None, record'[k] # None,
                    "expected" \in DOMAIN OpOf[k]
             PROVE  LET op == OpOf[k]
                        row == IF "place" \in DOMAIN op THEN pools[op.place] ELSE events[op.event]
                    IN  row # None /\ row.version = op.expected
  BY DEF EditsWhatItsAuthorSawStep
<1>1. OpOf[k].kind \in PoolEdits \union EventEdits BY DEF Assumptions, PayloadAssumption
<1>2. CASE Authorize(h) BY <1>2 DEF Authorize, LoadCopy
<1>3. CASE CreateLocation(h) \/ DeleteLocation(h) \/ CreateEvent(h) \/ StopEvent(h)
  <2>1. /\ handler[h].pc = "loaded"
        /\ Op(h).kind \in {"create_location", "delete_location", "create_event", "stop_event"}
        /\ \E why, newPools, newEvents : Conclude(h, why, newPools, newEvents)
    BY <1>3 DEF CreateLocation, DeleteLocation, CreateEvent, StopEvent, Serves
  <2>2. OpOf[k] = Op(h) BY <2>1, RecordedBy
  <2> QED BY <1>1, <2>1, <2>2 DEF PoolEdits, EventEdits
<1>4. CASE PatchLocation(h) \/ CreateReward(h) \/ PatchReward(h) \/ DeleteReward(h) \/ ImportRewards(h)
  <2>1. /\ handler[h].pc = "loaded" /\ Op(h).kind \in PoolEdits
        /\ \E why, new : EditPool(h, why, new)
    BY <1>4 DEF PatchLocation, CreateReward, PatchReward, DeleteReward, ImportRewards, Serves, PoolEdits
  <2> QED BY <2>1, PoolEditSaw
<1>5. CASE PatchEvent(h) \/ DeleteEvent(h)
  <2>1. /\ handler[h].pc = "loaded" /\ Op(h).kind \in EventEdits
        /\ \E why, new : EditEvent(h, why, new)
    BY <1>5 DEF PatchEvent, DeleteEvent, Serves, EventEdits
  <2>2. PICK why, new : EditEvent(h, why, new) BY <2>1
  <2> DEFINE seen == handler[h].copy.events
             e == Op(h).event
             said == CASE ~ Exists(seen, e) -> "missing"
                       [] Exists(seen, e) /\ Stale(seen[e], h) -> "conflict"
                       [] OTHER -> why
  <2>3. \E newEvents : Conclude(h, said, pools, newEvents) BY <2>2 DEF EditEvent
  <2>4. said = "ok" => seen[e] # None /\ ~ Stale(seen[e], h) BY DEF Exists
  <2> HIDE DEF said
  <2> QED BY <2>1, <2>3, <2>4, EventEditSaw
<1>6. CASE StartEvent(h)
  <2> DEFINE seen == handler[h].copy.events
             e == Op(h).event
             said == CASE ~ Exists(seen, e) -> "missing"
                       [] Exists(seen, e) /\ NeedsReview(seen[e]) -> "review"
                       [] Exists(seen, e) /\ ~ NeedsReview(seen[e]) /\ Stale(seen[e], h) -> "conflict"
                       [] OTHER -> "ok"
  <2>1. /\ handler[h].pc = "loaded" /\ Op(h).kind \in EventEdits
        /\ \E newEvents : Conclude(h, said, pools, newEvents)
    BY <1>6 DEF StartEvent, Serves, EventEdits
  <2>2. said = "ok" => seen[e] # None /\ ~ Stale(seen[e], h) BY DEF Exists
  <2> HIDE DEF said
  <2> QED BY <2>1, <2>2, EventEditSaw
<1> QED BY <1>2, <1>3, <1>4, <1>5, <1>6 DEF Serve

LEMMA LocStepSaw ==
    ASSUME Assumptions, LocInv, [Next]_vars
    PROVE  EditsWhatItsAuthorSawStep
<1>1. CASE \E h \in Handlers : Serve(h) BY <1>1, ServeSaw
<1>2. CASE UNCHANGED record BY <1>2 DEF EditsWhatItsAuthorSawStep
<1>3. [Next]_vars => (\E h \in Handlers : Serve(h)) \/ UNCHANGED record
  <2>1. OldApi => UNCHANGED record
    BY DEF OldApi, UpdateRewards, SaveEvent, ToggleEvent, RemoveEvent, OldCall, requestVars
  <2>2. EngineStops => UNCHANGED record BY DEF EngineStops, Crash
  <2>3. (\E v \in Viewers : Arrive(v) \/ \E l \in Places : ChooseLocation(v, l)) => UNCHANGED record
    BY DEF Arrive, ChooseLocation, requestVars
  <2>4. (\E h \in Handlers, k \in Keys : Receive(h, k)) => UNCHANGED record BY DEF Receive
  <2>5. UNCHANGED vars => UNCHANGED record BY DEF vars, requestVars
  <2> QED BY <2>1, <2>2, <2>3, <2>4, <2>5 DEF Next
<1> QED BY <1>1, <1>2, <1>3

\* An edit of a location or of an event commits only against the version its author
\* saw, however many administrators edit at a time (_check_version under the
\* channel's row lock).
THEOREM AuthorsSawWhatTheyEdit == Assumptions /\ Spec => EditsWhatItsAuthorSaw
<1>1. Assumptions /\ LocInv /\ [Next]_vars => EditsWhatItsAuthorSawStep BY LocStepSaw
<1>2. SUFFICES ASSUME Assumptions PROVE Spec => EditsWhatItsAuthorSaw OBVIOUS
<1>3. Spec => [][EditsWhatItsAuthorSawStep]_vars BY <1>1, <1>2, LocInvHolds, PTL DEF Spec
<1> QED BY <1>3 DEF EditsWhatItsAuthorSaw

-----------------------------------------------------------------------------
(* Where events send everybody *)

\* A table in which no event sends anybody anywhere else.
Keeps(table) ==
    \A e \in Events : table[e] # None => events[e] # None /\ table[e].override = events[e].override

LEMMA KeptOverrides ==
    ASSUME Keeps(events')
    PROVE  OverrideExistsWhenSetStep
BY DEF Keeps, OverrideExistsWhenSetStep

\* One event gets an override that is there, the others keep theirs.
LEMMA OneOverride ==
    ASSUME LocInv, NEW e \in Events, NEW row, events' = [events EXCEPT ![e] = row],
           row # None => \/ events[e] # None /\ row.override = events[e].override
                         \/ Overridable(pools', row.override)
    PROVE  OverrideExistsWhenSetStep
<1>1. events'[e] = row /\ \A f \in Events : f # e => events'[f] = events[f]
  BY Rows DEF EventTable
<1> QED BY <1>1 DEF OverrideExistsWhenSetStep

\* What an operation leaves, and what it leaves when it is refused.
LEMMA Concluded ==
    ASSUME NEW h, NEW why, NEW newPools, NEW newEvents, Conclude(h, why, newPools, newEvents)
    PROVE  (why = "ok" /\ pools' = newPools /\ events' = newEvents) \/ UNCHANGED <<pools, events>>
BY DEF Conclude

LEMMA SameEventsKept ==
    ASSUME events' = events
    PROVE  OverrideExistsWhenSetStep
BY KeptOverrides DEF Keeps

\* What the handler found there is still there.
LEMMA OverridableStill ==
    ASSUME LocInv, NEW h \in Handlers, handler[h].pc = "loaded", NEW l,
           Overridable(handler[h].copy.pools, l)
    PROVE  Overridable(pools, l)
BY HandlerTyped DEF Holds, Overridable

LEMMA ServeOverrides ==
    ASSUME Assumptions, LocInv, NEW h \in Handlers, Serve(h)
    PROVE  OverrideExistsWhenSetStep
<1>1. CASE Authorize(h) BY <1>1, SameEventsKept DEF Authorize
<1>2. CASE \/ CreateLocation(h) \/ DeleteLocation(h) \/ PatchLocation(h) \/ CreateReward(h)
           \/ PatchReward(h) \/ DeleteReward(h) \/ ImportRewards(h)
  <2>1. \E why, newPools : Conclude(h, why, newPools, events)
    BY <1>2 DEF CreateLocation, DeleteLocation, PatchLocation, CreateReward, PatchReward,
                DeleteReward, ImportRewards, EditPool
  <2> QED BY <2>1, Concluded, SameEventsKept
<1>3. CASE CreateEvent(h)
  <2> DEFINE op == Op(h)
             why == IF Overridable(handler[h].copy.pools, op.override) THEN "ok" ELSE "missing"
             row == [version |-> 1, override |-> op.override, active |-> FALSE, review |-> FALSE]
             result == [events EXCEPT ![op.event] = row]
  <2>1. handler[h].pc = "loaded" /\ op.kind = "create_event" /\ Conclude(h, why, pools, result)
    BY <1>3 DEF CreateEvent, Serves
  <2>2. op.event \in Events BY <2>1, OwnEvent
  <2>3. why = "ok" => Overridable(pools, row.override) BY <2>1, OverridableStill
  <2> HIDE DEF why, row
  <2>4. CASE why = "ok" /\ pools' = pools /\ events' = result
    <3>1. Overridable(pools', row.override) BY <2>3, <2>4
    <3> QED BY <2>2, <2>4, <3>1, OneOverride
  <2>5. (why = "ok" /\ pools' = pools /\ events' = result) \/ UNCHANGED <<pools, events>>
    BY <2>1, Concluded
  <2> QED BY <2>4, <2>5, SameEventsKept
<1>4. CASE PatchEvent(h)
  <2> DEFINE op == Op(h)
             event == Event(h)
             seen == handler[h].copy.events
             row == [event EXCEPT !.version = event.version + 1, !.override = op.override,
                                  !.review = event.review /\ ~ op.modifiers]
             why == IF Overridable(handler[h].copy.pools, op.override) THEN "ok" ELSE "missing"
             said == CASE ~ Exists(seen, op.event) -> "missing"
                       [] Exists(seen, op.event) /\ Stale(seen[op.event], h) -> "conflict"
                       [] OTHER -> why
             new == IF event = None THEN None ELSE row
             result == [events EXCEPT ![op.event] = new]
  <2>1. /\ handler[h].pc = "loaded" /\ op.kind \in EventEdits
        /\ Conclude(h, said, pools, result)
    BY <1>4 DEF PatchEvent, EditEvent, Serves, EventEdits
  <2>2. op.event \in Events /\ event = seen[op.event] /\ event \in EventRow \union {None}
    BY <2>1, OwnEvent DEF Event
  <2>3. said = "ok" => why = "ok" /\ event # None BY <2>2 DEF Exists
  <2>4. why = "ok" => Overridable(pools, op.override) BY <2>1, OverridableStill
  <2>5. event \in EventRow => row.override = op.override BY DEF EventRow
  <2> HIDE DEF said, why, row
  <2>6. CASE said = "ok" /\ pools' = pools /\ events' = result
    <3>1. new = row /\ Overridable(pools', row.override) BY <2>2, <2>3, <2>4, <2>5, <2>6
    <3> HIDE DEF new
    <3> QED BY <2>2, <2>6, <3>1, OneOverride
  <2>7. (said = "ok" /\ pools' = pools /\ events' = result) \/ UNCHANGED <<pools, events>>
    BY <2>1, Concluded
  <2> QED BY <2>6, <2>7, SameEventsKept
<1>5. CASE DeleteEvent(h)
  <2> DEFINE result == [events EXCEPT ![Op(h).event] = None]
  <2>1. /\ handler[h].pc = "loaded" /\ Op(h).kind \in EventEdits
        /\ \E why : Conclude(h, why, pools, result)
    BY <1>5 DEF DeleteEvent, EditEvent, Serves, EventEdits
  <2>2. Op(h).event \in Events BY <2>1, OwnEvent
  <2>3. events' = result \/ events' = events BY <2>1, Concluded
  <2> QED BY <2>2, <2>3, OneOverride, SameEventsKept
<1>6. CASE StartEvent(h)
  <2> DEFINE e == Op(h).event
             event == Event(h)
             row == [event EXCEPT !.active = TRUE, !.version = event.version + 1]
             others == OnlyActive(events, e)
             result == [others EXCEPT ![e] = row]
             new == IF event = None THEN events ELSE result
  <2>1. /\ handler[h].pc = "loaded" /\ Op(h).kind \in EventEdits
        /\ \E why : Conclude(h, why, pools, new)
    BY <1>6 DEF StartEvent, Serves, EventEdits
  <2>2. e \in Events /\ event = events[e] /\ event \in EventRow \union {None} BY <2>1, OwnEvent
  <2>3. CASE event = None
    <3>1. new = events BY <2>3
    <3> QED BY <2>1, <3>1, Concluded, SameEventsKept
  <2>4. CASE event # None
    <3>1. new = result BY <2>4
    <3>2. row.override = event.override BY <2>2, <2>4, Switched
    <3>3. /\ others \in EventTable
          /\ \A f \in Events : others[f] # None =>
                events[f] # None /\ others[f].override = events[f].override
      BY Rows, OnlyActiveTyped
    <3> HIDE DEF row, others
    <3>4. result[e] = row /\ \A f \in Events : f # e => result[f] = others[f]
      BY <2>2, <3>3 DEF EventTable
    <3> HIDE DEF result
    <3>5. Keeps(result) BY <2>2, <2>4, <3>2, <3>3, <3>4 DEF Keeps
    <3>6. events' = result \/ events' = events BY <2>1, <3>1, Concluded
    <3> QED BY <3>5, <3>6, KeptOverrides, SameEventsKept
  <2> QED BY <2>3, <2>4
<1>7. CASE StopEvent(h)
  <2> DEFINE row(f) == [events[f] EXCEPT !.active = FALSE, !.version = events[f].version + 1]
             result == [f \in Events |->
                          IF Exists(events, f) /\ events[f].active THEN row(f) ELSE events[f]]
  <2>1. events' = result \/ events' = events BY <1>7, Concluded DEF StopEvent
  <2>2. ASSUME NEW f \in Events, events[f] # None PROVE row(f).override = events[f].override
    <3>1. events[f] \in EventRow BY <2>2, Rows DEF EventTable
    <3> QED BY <3>1, Switched
  <2> HIDE DEF row
  <2>3. Keeps(result) BY <2>2 DEF Keeps, Exists
  <2> HIDE DEF result
  <2> QED BY <2>1, <2>3, KeptOverrides, SameEventsKept
<1> QED BY <1>1, <1>2, <1>3, <1>4, <1>5, <1>6, <1>7 DEF Serve

LEMMA OldOverrides ==
    ASSUME Assumptions, LocInv, OldApi
    PROVE  OverrideExistsWhenSetStep
<1>1. ASSUME NEW l \in Places, NEW new \in OldPools, UpdateRewards(l, new)
      PROVE  OverrideExistsWhenSetStep
  BY <1>1, SameEventsKept DEF UpdateRewards
<1>2. ASSUME NEW e \in Events, NEW new \in OldEvents, SaveEvent(e, new)
      PROVE  OverrideExistsWhenSetStep
  <2> DEFINE row == IF Exists(events, e) THEN [events[e] EXCEPT !.override = new.override]
                    ELSE [version |-> 1, override |-> new.override, active |-> FALSE, review |-> FALSE]
             saved == [events EXCEPT ![e] = row]
  <2>1. /\ Overridable(pools', new.override)
        /\ events' = saved \/ events' = OnlyActive(saved, e)
    BY <1>2 DEF SaveEvent, Activated
  <2>2. row \in EventRow /\ row.override = new.override
    <3>1. new.override \in Places \union {None} BY <2>1 DEF Overridable
    <3>2. CASE Exists(events, e)
      <4>1. events[e] \in EventRow BY <3>2, Rows DEF EventTable, Exists
      <4> QED BY <3>1, <3>2, <4>1 DEF EventRow
    <3>3. CASE ~ Exists(events, e) BY <3>1, <3>3 DEF EventRow
    <3> QED BY <3>2, <3>3
  <2> HIDE DEF row
  <2>3. CASE events' = saved BY <2>1, <2>2, <2>3, OneOverride
  <2>4. CASE events' = OnlyActive(saved, e)
    <3>1. /\ saved \in EventTable /\ saved[e] = row
          /\ \A f \in Events : f # e => saved[f] = events[f]
      BY <2>2, Rows DEF EventTable
    <3> HIDE DEF saved
    <3>2. \A f \in Events : events'[f] # None =>
             saved[f] # None /\ events'[f].override = saved[f].override
      BY <2>4, <3>1, OnlyActiveTyped
    <3> QED BY <2>1, <2>2, <3>1, <3>2 DEF OverrideExistsWhenSetStep
  <2> QED BY <2>1, <2>3, <2>4
<1>3. ASSUME NEW e \in Events, ToggleEvent(e)
      PROVE  OverrideExistsWhenSetStep
  <2>1. events' = events \/ \E f : events' = OnlyActive(events, f)
    BY <1>3 DEF ToggleEvent, Activated
  <2>2. ASSUME NEW f, events' = OnlyActive(events, f) PROVE Keeps(events')
    BY <2>2, Rows, OnlyActiveTyped DEF Keeps
  <2> QED BY <2>1, <2>2, KeptOverrides, SameEventsKept
<1>4. ASSUME NEW e \in Events, RemoveEvent(e)
      PROVE  OverrideExistsWhenSetStep
  BY <1>4, OneOverride DEF RemoveEvent
<1> QED BY <1>1, <1>2, <1>3, <1>4 DEF OldApi

LEMMA LocStepOverrides ==
    ASSUME Assumptions, LocInv, [Next]_vars
    PROVE  OverrideExistsWhenSetStep
<1>1. CASE \E h \in Handlers : Serve(h) BY <1>1, ServeOverrides
<1>2. CASE OldApi BY <1>2, OldOverrides
<1>3. CASE UNCHANGED events BY <1>3, SameEventsKept
<1>4. [Next]_vars => (\E h \in Handlers : Serve(h)) \/ OldApi \/ UNCHANGED events
  <2>1. EngineStops => UNCHANGED events BY DEF EngineStops
  <2>2. (\E v \in Viewers : Arrive(v) \/ \E l \in Places : ChooseLocation(v, l)) => UNCHANGED events
    BY DEF Arrive, ChooseLocation
  <2>3. UNCHANGED vars \/ UNCHANGED worldVars => UNCHANGED events BY DEF vars, worldVars
  <2> QED BY <2>1, <2>2, <2>3 DEF Next
<1> QED BY <1>1, <1>2, <1>3, <1>4

\* An event is pointed only at a location that is there when it is saved
\* (_validate_event_location), by an administrator in Discord or through the older
\* API.
THEOREM OverridesExistWhenSet == Assumptions /\ Spec => OverrideExistsWhenSet
<1>1. Assumptions /\ LocInv /\ [Next]_vars => OverrideExistsWhenSetStep BY LocStepOverrides
<1>2. SUFFICES ASSUME Assumptions PROVE Spec => OverrideExistsWhenSet OBVIOUS
<1>3. Spec => [][OverrideExistsWhenSetStep]_vars BY <1>1, <1>2, LocInvHolds, PTL DEF Spec
<1> QED BY <1>3 DEF OverrideExistsWhenSet

-----------------------------------------------------------------------------
(* How many locations there are *)

\* Discord is the only place where locations are made: update_rewards of the older
\* API makes a pool that is missing and counts nothing.
OnlyDiscordMakesPools == OldPools = {}

\* The limit leaves room for the default location, and locations can be counted.
RoomForDefault == MaxPlaces >= 1 /\ IsFiniteSet(Places)

There(table) == {l \in Places : Exists(table, l)}

\* What a handler counts is what there is.
FitInv ==
    /\ LocInv
    /\ LocationsFit
    /\ \A h \in Handlers : handler[h].pc = "loaded" => handler[h].copy.pools = pools

\* A table with no more locations than there are, or with one more when there was
\* room for it.
Fits(table) ==
    \/ There(table) \subseteq There(pools)
    \/ /\ Cardinality(There(pools)) < MaxPlaces
       /\ \E l \in Places : There(table) \subseteq There(pools) \union {l}

LEMMA FitsCounts ==
    ASSUME Assumptions, RoomForDefault, LocationsFit, NEW table, Fits(table)
    PROVE  Cardinality(There(table)) <= MaxPlaces
<1>1. /\ IsFiniteSet(There(pools)) /\ Cardinality(There(pools)) \in Nat /\ MaxPlaces \in Nat
      /\ IsFiniteSet(There(table)) /\ Cardinality(There(table)) \in Nat
  <2>1. IsFiniteSet(Places) /\ There(pools) \subseteq Places /\ There(table) \subseteq Places
    BY DEF RoomForDefault, There
  <2>2. IsFiniteSet(There(pools)) /\ IsFiniteSet(There(table)) BY <2>1, FS_Subset
  <2> QED BY <2>2, FS_CardinalityType DEF Assumptions, LocationAssumption
<1>2. CASE There(table) \subseteq There(pools)
  <2>1. Cardinality(There(table)) <= Cardinality(There(pools)) BY <1>1, <1>2, FS_Subset
  <2>2. Cardinality(There(pools)) <= MaxPlaces BY DEF LocationsFit, There
  <2> QED BY <1>1, <2>1, <2>2
<1>3. ASSUME NEW l \in Places, Cardinality(There(pools)) < MaxPlaces,
             There(table) \subseteq There(pools) \union {l}
      PROVE  Cardinality(There(table)) <= MaxPlaces
  <2>1. /\ IsFiniteSet(There(pools) \union {l})
        /\ \/ Cardinality(There(pools) \union {l}) = Cardinality(There(pools))
           \/ Cardinality(There(pools) \union {l}) = Cardinality(There(pools)) + 1
    BY <1>1, FS_AddElement
  <2>2. Cardinality(There(table)) <= Cardinality(There(pools) \union {l})
    BY <1>3, <2>1, FS_Subset
  <2> QED BY <1>1, <1>3, <2>1, <2>2
<1> QED BY <1>2, <1>3 DEF Fits

\* An operation that succeeds only when what it leaves fits.
LEMMA ConcludeFits ==
    ASSUME Assumptions, RoomForDefault, FitInv, NEW h \in Handlers, handler[h].pc = "loaded",
           NEW why, NEW newPools, NEW newEvents, Conclude(h, why, newPools, newEvents),
           why = "ok" => Fits(newPools), LocInv'
    PROVE  FitInv'
<1>1. Cardinality(There(pools')) <= MaxPlaces
  <2>1. CASE pools' = pools BY <2>1 DEF FitInv, LocationsFit, There
  <2>2. CASE why = "ok" /\ pools' = newPools BY <2>2, FitsCounts DEF FitInv
  <2> QED BY <2>1, <2>2 DEF Conclude
<1>2. handler' = [handler EXCEPT ![h] = Free] BY DEF Conclude, Commit, Clash, Refuse
<1>3. \A u \in Handlers : handler'[u].pc # "loaded"
  BY <1>2, FreeTyped, Alone DEF FitInv, LocInv, TypeOK
<1> QED BY <1>1, <1>3 DEF FitInv, LocationsFit, There

\* An edit of a pool makes no location: the pool was there.
LEMMA EditPoolFits ==
    ASSUME Assumptions, RoomForDefault, FitInv, NEW h \in Handlers, handler[h].pc = "loaded",
           Op(h).place \in Places, NEW why, NEW new, EditPool(h, why, new), LocInv'
    PROVE  FitInv'
<1> DEFINE l == Op(h).place
           row == [new EXCEPT !.version = new.version + 1]
           result == [pools EXCEPT ![l] = row]
           seen == handler[h].copy.pools
           said == CASE ~ Exists(seen, l) -> "missing"
                     [] Exists(seen, l) /\ Stale(seen[l], h) -> "conflict"
                     [] OTHER -> why
<1>1. Conclude(h, said, result, events) BY DEF EditPool
<1>2. said = "ok" => Exists(seen, l) OBVIOUS
<1>3. seen = pools BY DEF FitInv
<1> HIDE DEF said, row
<1>4. \A x \in Places : x # l => result[x] = pools[x] BY Rows DEF FitInv, Pools
<1> HIDE DEF result
<1>5. said = "ok" => Fits(result) BY <1>2, <1>3, <1>4 DEF Fits, There, Exists
<1> QED BY <1>1, <1>5, ConcludeFits

LEMMA ServeFits ==
    ASSUME Assumptions, RoomForDefault, FitInv, NEW h \in Handlers, Serve(h)
    PROVE  FitInv'
<1> DEFINE op == Op(h)
<1>0. LocInv /\ LocInv' BY LocStep DEF FitInv, Next
<1>1. CASE Authorize(h)
  <2> DEFINE own == [pools |-> pools, events |-> events, at |-> at]
             new == [handler[h] EXCEPT !.pc = "loaded", !.copy = own]
  <2>1. handler' = [handler EXCEPT ![h] = new] /\ UNCHANGED pools /\ own.pools = pools
    BY <1>1 DEF Authorize, LoadCopy
  <2>2. new.copy = own BY HandlerTyped, <1>0
  <2> HIDE DEF own, new
  <2>3. \A u \in Handlers : handler'[u].pc = "loaded" => handler'[u].copy.pools = pools'
    BY <1>0, <2>1, <2>2 DEF FitInv, LocInv, TypeOK
  <2> QED BY <1>0, <2>1, <2>3 DEF FitInv, LocationsFit, Exists
<1>2. CASE PatchLocation(h) \/ CreateReward(h) \/ PatchReward(h) \/ DeleteReward(h) \/ ImportRewards(h)
  <2>1. /\ handler[h].pc = "loaded" /\ op.kind \in PoolEdits
        /\ \E why, new : EditPool(h, why, new)
    BY <1>2 DEF PatchLocation, CreateReward, PatchReward, DeleteReward, ImportRewards, Serves, PoolEdits
  <2>2. op.place \in Places
    BY <1>0, <2>1, ReadTyped DEF Assumptions, PayloadAssumption
  <2> QED BY <1>0, <2>1, <2>2, EditPoolFits
<1>3. CASE CreateLocation(h)
  <2> DEFINE seen == handler[h].copy.pools
             l == op.place
             row == [NewPool EXCEPT !.level = op.level]
             result == [pools EXCEPT ![l] = row]
             why == CASE Full(seen) -> "full"
                      [] ~ Full(seen) /\ Exists(seen, l) -> "exists"
                      [] ~ Full(seen) /\ ~ Exists(seen, l) /\ Exists(pools, l) -> "failed"
                      [] OTHER -> "ok"
  <2>1. /\ handler[h].pc = "loaded" /\ op.kind = "create_location"
        /\ Conclude(h, why, result, events)
    BY <1>3 DEF CreateLocation, Serves
  <2>2. why = "ok" => ~ Full(seen) OBVIOUS
  <2>3. seen = pools BY <2>1 DEF FitInv
  <2>4. l \in Places BY <1>0, <2>1, ReadTyped DEF Assumptions, PayloadAssumption
  <2>5. ~ Full(pools) => Cardinality(There(pools)) < MaxPlaces
    <3>1. IsFiniteSet(There(pools)) BY FS_Subset DEF RoomForDefault, There
    <3>2. Cardinality(There(pools)) \in Nat /\ MaxPlaces \in Nat
      BY <3>1, FS_CardinalityType DEF Assumptions, LocationAssumption
    <3> QED BY <3>2 DEF Full, There
  <2> HIDE DEF why, row
  <2>6. \A x \in Places : x # l => result[x] = pools[x] BY <1>0, Rows DEF Pools
  <2> HIDE DEF result
  <2>7. There(result) \subseteq There(pools) \union {l} BY <2>6 DEF There, Exists
  <2>8. why = "ok" => Fits(result) BY <2>2, <2>3, <2>4, <2>5, <2>7 DEF Fits
  <2> QED BY <1>0, <2>1, <2>8, ConcludeFits
<1>4. CASE DeleteLocation(h)
  <2> DEFINE result == [pools EXCEPT ![op.place] = None]
  <2>1. handler[h].pc = "loaded" /\ \E why : Conclude(h, why, result, events)
    BY <1>4 DEF DeleteLocation, Serves
  <2>2. \A x \in Places : result[x] = pools[x] \/ result[x] = None BY <1>0, Rows DEF Pools
  <2> HIDE DEF result
  <2>3. Fits(result) BY <2>2 DEF Fits, There, Exists
  <2> QED BY <1>0, <2>1, <2>3, ConcludeFits
<1>5. CASE CreateEvent(h) \/ PatchEvent(h) \/ DeleteEvent(h) \/ StartEvent(h) \/ StopEvent(h)
  <2>1. /\ handler[h].pc = "loaded"
        /\ \E why, newEvents : Conclude(h, why, pools, newEvents)
    BY <1>5 DEF CreateEvent, PatchEvent, DeleteEvent, StartEvent, StopEvent, EditEvent, Serves
  <2>2. Fits(pools) BY DEF Fits
  <2> QED BY <1>0, <2>1, <2>2, ConcludeFits
<1> QED BY <1>1, <1>2, <1>3, <1>4, <1>5 DEF Serve

\* Nothing else makes or deletes a location, and nobody else has counted them.
LEMMA OthersFit ==
    ASSUME Assumptions, OnlyDiscordMakesPools, FitInv,
           \/ \E h \in Handlers, k \in Keys : Receive(h, k) /\ UNCHANGED worldVars
           \/ OldApi
           \/ \E v \in Viewers : Arrive(v) \/ \E l \in Places : ChooseLocation(v, l)
           \/ EngineStops \/ UNCHANGED vars
    PROVE  FitInv'
<1>0. LocInv /\ LocInv' BY LocStep DEF FitInv, Next
<1>1. UNCHANGED pools
  BY DEF OldApi, OnlyDiscordMakesPools, SaveEvent, ToggleEvent, RemoveEvent, Arrive,
         ChooseLocation, EngineStops, vars, worldVars
<1>2. \A u \in Handlers : handler'[u].pc = "loaded" => handler'[u] = handler[u]
  <2>1. CASE \E h \in Handlers, k \in Keys : Receive(h, k) /\ UNCHANGED worldVars
    <3>1. PICK h \in Handlers, k \in Keys : Receive(h, k) BY <2>1
    <3> DEFINE new == [Free EXCEPT !.pc = "asked", !.key = k]
    <3>2. handler' = handler \/ handler' = [handler EXCEPT ![h] = new] BY <3>1 DEF Receive
    <3>3. new.pc = "asked" BY DEF Free
    <3> HIDE DEF new
    <3> QED BY <1>0, <3>2, <3>3 DEF LocInv, TypeOK
  <2>2. CASE EngineStops BY <2>2, FreeTyped DEF EngineStops, Crash
  <2>3. CASE UNCHANGED handler BY <2>3
  <2>4. OldApi => UNCHANGED handler
    BY DEF OldApi, UpdateRewards, SaveEvent, ToggleEvent, RemoveEvent, OldCall, requestVars
  <2>5. (\E v \in Viewers : Arrive(v) \/ \E l \in Places : ChooseLocation(v, l)) => UNCHANGED handler
    BY DEF Arrive, ChooseLocation, requestVars
  <2>6. UNCHANGED vars => UNCHANGED handler BY DEF vars, requestVars
  <2> QED BY <2>1, <2>2, <2>3, <2>4, <2>5, <2>6
<1> QED BY <1>0, <1>1, <1>2 DEF FitInv, LocationsFit, Exists

\* A channel never has more locations than an administrator may make
\* (create_location counts them under the channel's row lock), unless the older
\* API, which does not count, makes some.
THEOREM LocationsStayWithinLimit ==
    ASSUME Assumptions, OnlyDiscordMakesPools, RoomForDefault
    PROVE  Spec => []LocationsFit
<1>1. Init => FitInv
  <2> SUFFICES ASSUME Init PROVE FitInv OBVIOUS
  <2>1. There(pools) = {Default}
    <3>1. \A l \in Places : pools[l] = IF l = Default THEN NewPool ELSE None BY DEF Init
    <3>2. NewPool # None
      BY DEF Assumptions, NoneApart, NewPool, NoRewards, PoolRow, Offers
    <3> QED BY <3>1, <3>2 DEF There, Exists, Assumptions, LocationAssumption
  <2>2. Cardinality(There(pools)) = 1 BY <2>1, FS_Singleton
  <2>3. LocationsFit
    BY <2>2 DEF LocationsFit, There, RoomForDefault, Assumptions, LocationAssumption
  <2>4. \A h \in Handlers : handler[h].pc # "loaded" BY DEF Init, RequestInit, Free
  <2> QED BY <2>3, <2>4, LocInit DEF FitInv
<1>2. FitInv /\ [Next]_vars => FitInv' BY ServeFits, OthersFit DEF Next
<1>3. FitInv => LocationsFit BY DEF FitInv
<1> QED BY <1>1, <1>2, <1>3, PTL DEF Spec

-----------------------------------------------------------------------------
(* The configuration of a channel *)

CONSTANTS Params, Messages, Sections, Valid(_), MaxCooldowns
VARIABLES config, cooldown

Config == INSTANCE ChannelConfig WITH row <- config, chat <- cooldown

Makes(f) == DOMAIN f = Params /\ Valid(f)

\* GameConfig takes no overrides at all, those it takes less a section's, for no
\* condition relates two sections, and with them any cooldown the chat may set. A
\* request names a section there is.
ConfigAssumed ==
    /\ Valid([p \in Params |-> None])
    /\ \A f : \A s \in DOMAIN Sections :
         Makes(f) => Valid([p \in Params |-> IF p \in Sections[s] THEN None ELSE f[p]])
    /\ \A f : \A v \in {1, 2} : Makes(f) => Valid([f EXCEPT ![Config!Cooldown] = v])
    /\ \A k \in Keys : OpOf[k].kind = "reset" => OpOf[k].section \in DOMAIN Sections

ConfigRow(c) == DOMAIN c = {"version", "params", "messages"}

\* The rows that were read, by administrators and by the chat, are rows.
Copies ==
    /\ ConfigRow(config)
    /\ DOMAIN handler = Handlers
    /\ \A h \in Handlers :
         /\ DOMAIN handler[h] = {"pc", "key", "copy"}
         /\ handler[h].pc = "loaded" => ConfigRow(handler[h].copy)
    /\ DOMAIN cooldown = {"pc", "value", "copy", "count"}
    /\ cooldown.pc = "loaded" => ConfigRow(cooldown.copy) /\ cooldown.value \in {1, 2}

ValidCopies ==
    /\ Makes(config.params)
    /\ \A h \in Handlers : handler[h].pc # "free" => handler[h].key \in Keys
    /\ \A h \in Handlers : handler[h].pc = "loaded" => Makes(handler[h].copy.params)
    /\ cooldown.pc = "loaded" => Makes(cooldown.copy.params)

ConfigInv == Copies /\ ValidCopies

\* A request that ends leaves a row it has read, or one GameConfig takes.
LEMMA EditEnds ==
    ASSUME ConfigInv, NEW h \in Handlers, NEW kind, NEW ok, NEW params, NEW messages,
           Config!Edit(h, kind, ok, params, messages), ok => Makes(params)
    PROVE  ConfigInv'
<1> DEFINE was == handler[h].copy
           same == was.params = params /\ was.messages = messages
           new == [version |-> was.version + 1, params |-> params, messages |-> messages]
<1>1. handler' = [handler EXCEPT ![h] = Config!Free] /\ cooldown' = cooldown
  BY DEF Config!Edit, Config!Commit, Config!Refuse, Config!Clash
<1>2. \/ config' = config
      \/ ok /\ Config!Write(was, new)
  BY DEF Config!Edit
<1> HIDE DEF same
<1>3. ConfigRow(config') /\ Makes(config'.params)
  <2>1. CASE config' = config BY <2>1 DEF ConfigInv, Copies, ValidCopies
  <2>2. CASE ok /\ Config!Write(was, new)
    <3>1. config'.params \in {config.params, params} /\ ConfigRow(config')
      BY <2>2 DEF Config!Write, ConfigRow
    <3> QED BY <2>2, <3>1 DEF ConfigInv, ValidCopies
  <2> QED BY <1>2, <2>1, <2>2
<1>4. Config!Free.pc = "free" /\ DOMAIN Config!Free = {"pc", "key", "copy"} BY DEF Config!Free
<1> QED BY <1>1, <1>3, <1>4 DEF ConfigInv, Copies, ValidCopies

LEMMA ConfigStep == ConfigAssumed /\ ConfigInv /\ [Config!Next]_(Config!vars) => ConfigInv'
<1> SUFFICES ASSUME ConfigAssumed, ConfigInv, [Config!Next]_(Config!vars) PROVE ConfigInv' OBVIOUS
<1>1. ASSUME NEW h \in Handlers, NEW k \in Keys, Config!Receive(h, k), UNCHANGED <<config, cooldown>>
      PROVE  ConfigInv'
  <2> DEFINE new == [Config!Free EXCEPT !.pc = "asked", !.key = k]
  <2>1. handler' = handler \/ handler' = [handler EXCEPT ![h] = new] BY <1>1 DEF Config!Receive
  <2>2. new.pc = "asked" /\ new.key = k /\ DOMAIN new = {"pc", "key", "copy"} BY DEF Config!Free
  <2> HIDE DEF new
  <2> QED BY <1>1, <2>1, <2>2 DEF ConfigInv, Copies, ValidCopies
<1>2. ASSUME NEW h \in Handlers, Config!Load(h) PROVE ConfigInv'
  <2> DEFINE new == [handler[h] EXCEPT !.pc = "loaded", !.copy = config]
  <2>1. handler' = [handler EXCEPT ![h] = new] /\ UNCHANGED <<config, cooldown>>
        /\ handler[h].pc = "asked"
    BY <1>2 DEF Config!Load, Config!LoadCopy
  <2>2. DOMAIN handler[h] = {"pc", "key", "copy"} BY DEF ConfigInv, Copies
  <2>3. new.copy = config /\ new.key = handler[h].key /\ DOMAIN new = {"pc", "key", "copy"} BY <2>2
  <2> HIDE DEF new
  <2> QED BY <2>1, <2>3 DEF ConfigInv, Copies, ValidCopies
<1>3. ASSUME NEW h \in Handlers, Config!PatchConfig(h) PROVE ConfigInv'
  <2> DEFINE merged == Config!Merged(handler[h].copy.params, Config!Op(h).changes)
  <2>1. Config!Edit(h, "patch", merged.ok, merged.params, handler[h].copy.messages)
    BY <1>3 DEF Config!PatchConfig
  <2>2. merged.ok = Valid(merged.params) /\ DOMAIN merged.params = Params BY DEF Config!Merged
  <2> HIDE DEF merged
  <2> QED BY <2>1, <2>2, EditEnds DEF Makes
<1>4. ASSUME NEW h \in Handlers, Config!ResetConfig(h) PROVE ConfigInv'
  <2> DEFINE params == [p \in Params |-> IF p \in Sections[Config!Op(h).section] THEN None
                                         ELSE handler[h].copy.params[p]]
  <2>1. Config!Edit(h, "reset", TRUE, params, handler[h].copy.messages)
    BY <1>4 DEF Config!ResetConfig
  <2>2. handler[h].pc = "loaded" /\ Config!Op(h).kind = "reset"
    BY <2>1 DEF Config!Edit, Config!Serves
  <2>3. Makes(handler[h].copy.params) /\ Config!Op(h).section \in DOMAIN Sections
    BY <2>2 DEF ConfigInv, ValidCopies, ConfigAssumed, Config!Op
  <2>4. Makes(params) BY <2>3 DEF ConfigAssumed, Makes
  <2> HIDE DEF params
  <2> QED BY <2>1, <2>4, EditEnds
<1>5. ASSUME NEW h \in Handlers, Config!PatchMessage(h) PROVE ConfigInv'
  <2> DEFINE messages == [handler[h].copy.messages EXCEPT ![Config!Op(h).message] = Config!Op(h).template]
  <2>1. Config!Edit(h, "message", TRUE, handler[h].copy.params, messages)
    BY <1>5 DEF Config!PatchMessage
  <2>2. handler[h].pc = "loaded" BY <2>1 DEF Config!Edit, Config!Serves
  <2>3. Makes(handler[h].copy.params) BY <2>2 DEF ConfigInv, ValidCopies
  <2> HIDE DEF messages
  <2> QED BY <2>1, <2>3, EditEnds
<1>6. ASSUME NEW v \in {1, 2}, Config!AskCooldown(v) PROVE ConfigInv'
  <2>1. /\ cooldown' = [pc |-> "loaded", value |-> v, copy |-> config, count |-> cooldown.count + 1]
        /\ UNCHANGED <<handler, config>>
    BY <1>6 DEF Config!AskCooldown, Config!requestVars
  <2> QED BY <2>1 DEF ConfigInv, Copies, ValidCopies
<1>7. CASE Config!SetCooldown
  <2> DEFINE was == cooldown.copy
             v == cooldown.value
             new == [was EXCEPT !.params[Config!Cooldown] = v, !.version = config.version]
  <2>1. Config!Write(was, new) /\ cooldown.pc = "loaded" /\ handler' = handler
        /\ cooldown' = [cooldown EXCEPT !.pc = "idle", !.value = None, !.copy = None]
    BY <1>7 DEF Config!SetCooldown, Config!requestVars
  <2>2. ConfigRow(was) /\ Makes(was.params) /\ v \in {1, 2}
    BY <2>1 DEF ConfigInv, Copies, ValidCopies
  <2> HIDE DEF was, v
  <2>3. new.params = [was.params EXCEPT ![Config!Cooldown] = v] BY <2>2 DEF ConfigRow
  <2>4. Makes(new.params)
    <3> DEFINE f == was.params
    <3>1. Makes(f) /\ v \in {1, 2} BY <2>2
    <3> HIDE DEF f
    <3>2. Valid([f EXCEPT ![Config!Cooldown] = v]) BY <3>1 DEF ConfigAssumed
    <3>3. DOMAIN [f EXCEPT ![Config!Cooldown] = v] = Params BY <3>1 DEF Makes
    <3>4. new.params = [f EXCEPT ![Config!Cooldown] = v] BY <2>3 DEF f
    <3> HIDE DEF new
    <3> QED BY <3>2, <3>3, <3>4 DEF Makes
  <2> HIDE DEF new
  <2>5. config'.params \in {config.params, new.params} /\ ConfigRow(config')
    BY <2>1 DEF Config!Write, ConfigRow
  <2>6. Makes(config'.params) BY <2>4, <2>5 DEF ConfigInv, ValidCopies
  <2>7. DOMAIN cooldown' = {"pc", "value", "copy", "count"} /\ cooldown'.pc = "idle"
    BY <2>1 DEF ConfigInv, Copies
  <2> QED BY <2>1, <2>5, <2>6, <2>7 DEF ConfigInv, Copies, ValidCopies
<1>8. CASE Config!Crash /\ UNCHANGED <<config, cooldown>>
  BY <1>8 DEF Config!Crash, Config!Free, ConfigInv, Copies, ValidCopies
<1>9. CASE UNCHANGED Config!vars
  BY <1>9 DEF Config!vars, Config!requestVars, ConfigInv, Copies, ValidCopies
<1> QED BY <1>1, <1>2, <1>3, <1>4, <1>5, <1>6, <1>7, <1>8, <1>9 DEF Config!Next, Config!Serve

LEMMA ConfigInit == ConfigAssumed /\ Config!Init => ConfigInv
BY DEF ConfigAssumed, Config!Init, Config!RequestInit, Config!Free, ConfigInv, Copies, ConfigRow,
       ValidCopies, Makes

\* The overrides of a channel always make a configuration, whichever copies of them
\* were merged and written over each other (patch_config, reset_config,
\* set_fishing_cooldown).
THEOREM StoredConfigsAreValid ==
    ASSUME ConfigAssumed PROVE Config!Spec => []Config!StoredConfigValid
<1>1. ConfigInv => Config!StoredConfigValid BY DEF ConfigInv, ValidCopies, Makes, Config!StoredConfigValid
<1> QED BY <1>1, ConfigInit, ConfigStep, PTL DEF Config!Spec

\* The requests that have read the configuration and not committed yet are one.
OneEditAtATime ==
    \A h, u \in Handlers : handler[h].pc = "loaded" /\ handler[u].pc = "loaded" => h = u

FreshCopies ==
    /\ Copies /\ DOMAIN record = Keys
    /\ \A h \in Handlers : handler[h].pc = "loaded" => handler[h].copy.version = config.version

\* What does not change the version of the configuration ages no copy.
LEMMA VersionKept ==
    ASSUME FreshCopies, Copies', UNCHANGED record, config'.version = config.version,
           \A h \in Handlers : handler'[h].pc = "loaded" =>
               handler'[h] = handler[h] \/ handler'[h].copy = config
    PROVE  FreshCopies'
BY DEF FreshCopies

LEMMA FreshStep ==
    ASSUME ConfigAssumed, FreshCopies, ConfigInv, OneEditAtATime, [Config!Next]_(Config!vars)
    PROVE  FreshCopies' /\ Config!EditsWhatItsAuthorSawStep
<1>0. Copies' BY ConfigStep DEF ConfigInv
<1>1. ASSUME NEW h \in Handlers, NEW k \in Keys, Config!Receive(h, k), UNCHANGED <<config, cooldown>>
      PROVE  FreshCopies' /\ UNCHANGED record
  <2> DEFINE new == [Config!Free EXCEPT !.pc = "asked", !.key = k]
  <2>1. (handler' = handler \/ handler' = [handler EXCEPT ![h] = new]) /\ UNCHANGED record
    BY <1>1 DEF Config!Receive
  <2>2. new.pc = "asked" BY DEF Config!Free
  <2> HIDE DEF new
  <2>3. \A u \in Handlers : handler'[u].pc = "loaded" => handler'[u] = handler[u]
    BY <2>1, <2>2 DEF FreshCopies, Copies
  <2> QED BY <1>0, <1>1, <2>1, <2>3, VersionKept
<1>2. ASSUME NEW h \in Handlers, Config!Load(h) PROVE FreshCopies' /\ UNCHANGED record
  <2> DEFINE new == [handler[h] EXCEPT !.pc = "loaded", !.copy = config]
  <2>1. handler' = [handler EXCEPT ![h] = new] /\ UNCHANGED <<record, config>>
    BY <1>2 DEF Config!Load, Config!LoadCopy
  <2>2. new.copy = config BY DEF FreshCopies, Copies
  <2> HIDE DEF new
  <2>3. \A u \in Handlers : handler'[u] = handler[u] \/ handler'[u].copy = config
    BY <2>1, <2>2 DEF FreshCopies, Copies
  <2> QED BY <1>0, <2>1, <2>3, VersionKept
<1>3. ASSUME NEW h \in Handlers, NEW kind, NEW ok, NEW params, NEW messages,
             Config!Edit(h, kind, ok, params, messages)
      PROVE  FreshCopies' /\ Config!EditsWhatItsAuthorSawStep
  <2>1. /\ handler' = [handler EXCEPT ![h] = Config!Free] /\ handler[h].pc = "loaded"
        /\ \/ record' = record
           \/ /\ handler[h].copy.version = Config!Op(h).expected
              /\ \E x : record' = [record EXCEPT ![handler[h].key] = x]
    BY <1>3 DEF Config!Edit, Config!Serves, Config!Commit, Config!Refuse, Config!Clash
  <2>2. Config!Free.pc = "free" BY DEF Config!Free
  <2>3. \A u \in Handlers : handler'[u].pc # "loaded"
    BY <2>1, <2>2 DEF FreshCopies, Copies, OneEditAtATime
  <2>4. FreshCopies' BY <1>0, <2>1, <2>3 DEF FreshCopies
  <2>5. ASSUME NEW k \in Keys, record[k] = None, record'[k] # None
        PROVE  config.version = OpOf[k].expected
    <3>1. k = handler[h].key /\ handler[h].copy.version = Config!Op(h).expected
      BY <2>1, <2>5 DEF FreshCopies
    <3> QED BY <2>1, <3>1 DEF FreshCopies, Config!Op
  <2> QED BY <2>4, <2>5 DEF Config!EditsWhatItsAuthorSawStep
<1>4. ASSUME NEW v \in {1, 2}, Config!AskCooldown(v) PROVE FreshCopies' /\ UNCHANGED record
  BY <1>0, <1>4, VersionKept DEF Config!AskCooldown, Config!requestVars
<1>5. CASE Config!SetCooldown
  <2>1. /\ Config!Write(cooldown.copy, [cooldown.copy EXCEPT !.params[Config!Cooldown] = cooldown.value,
                                                              !.version = config.version])
        /\ cooldown.pc = "loaded" /\ UNCHANGED <<handler, record>>
    BY <1>5 DEF Config!SetCooldown, Config!requestVars
  <2>2. ConfigRow(cooldown.copy) BY <2>1 DEF FreshCopies, Copies
  <2>3. config'.version = config.version BY <2>1, <2>2 DEF Config!Write, ConfigRow
  <2> QED BY <1>0, <2>1, <2>3, VersionKept DEF Config!EditsWhatItsAuthorSawStep
<1>6. CASE Config!Crash /\ UNCHANGED <<config, cooldown>>
  BY <1>0, <1>6, VersionKept DEF Config!Crash, Config!Free, Config!EditsWhatItsAuthorSawStep
<1>7. CASE UNCHANGED Config!vars
  BY <1>0, <1>7, VersionKept
  DEF Config!vars, Config!requestVars, Config!EditsWhatItsAuthorSawStep
<1>8. UNCHANGED record => Config!EditsWhatItsAuthorSawStep BY DEF Config!EditsWhatItsAuthorSawStep
<1> QED BY <1>1, <1>2, <1>3, <1>4, <1>5, <1>6, <1>7, <1>8
     DEF Config!Next, Config!Serve, Config!PatchConfig, Config!ResetConfig, Config!PatchMessage

\* An edit of the configuration commits only against the version its author saw
\* (_check_version), if no two edits overlap between the read of the channel and the
\* commit; the chat's cooldown command may overlap with any.
THEOREM ConfigEditsSawIfAlone ==
    ASSUME ConfigAssumed
    PROVE  Config!Spec /\ []OneEditAtATime => Config!EditsWhatItsAuthorSaw
<1>1. Config!Init => FreshCopies
  BY ConfigInit DEF ConfigInv, FreshCopies, Config!Init, Config!RequestInit, Config!Free
<1> QED BY <1>1, ConfigInit, ConfigStep, FreshStep, PTL DEF Config!Spec, Config!EditsWhatItsAuthorSaw

-----------------------------------------------------------------------------
(* Who administers what *)

CONSTANTS Users, Guilds, Accounts, MaxStarts, RateLimit
VARIABLES link, oauth, returning, rate, starting, bound, channels, enabled, boundRow, starts

Bindings == INSTANCE GuildBinding WITH locked <- boundRow

\* A channel or server is not None, and a request names its user and its server.
BindingsAssumed ==
    /\ Bindings!BindingAssumption
    /\ None \notin Accounts \union Guilds \union Users
    /\ \A k \in Keys :
         /\ OpOf[k].kind \in {"bind", "unbind"} => OpOf[k].guild \in Guilds
         /\ OpOf[k].kind \in {"bind", "unlink"} => OpOf[k].user \in Users

BindCopy == [new : Accounts, old : Accounts \union {None}, on : SUBSET Accounts, made : BOOLEAN]

BindRow == [pc : {"free", "asked", "found", "loaded"}, key : Keys \union {None},
            copy : {None} \union BindCopy]

\* What a handler that is busy is at, and what it has read: the channel a server
\* goes to or leaves, the channel it had, and which of them have the bot.
Busy(h) ==
    /\ handler[h].pc # "free" => handler[h].key \in Keys
    /\ handler[h].pc \in {"found", "loaded"} => handler[h].copy \in BindCopy

RequestsTyped == handler \in [Handlers -> BindRow] /\ \A h \in Handlers : Busy(h)

BindInv ==
    /\ Bindings!TypeOK
    /\ RequestsTyped
    /\ Bindings!OneUserPerAccount
    /\ Bindings!OneGuildPerChannel

LEMMA BindFree == Bindings!Free \in BindRow /\ Bindings!Free.pc = "free"
BY DEF Bindings!Free, BindRow

LEMMA BindEnds ==
    ASSUME NEW h \in Handlers, RequestsTyped,
           \E x : Bindings!Commit(h, x) \/ Bindings!Refuse(h, x) \/ Bindings!Clash(h)
    PROVE  handler' = [handler EXCEPT ![h] = Bindings!Free] /\ RequestsTyped'
<1>1. handler' = [handler EXCEPT ![h] = Bindings!Free]
  BY DEF Bindings!Commit, Bindings!Refuse, Bindings!Clash
<1> QED BY <1>1, BindFree DEF RequestsTyped, Busy

LEMMA BindLoads ==
    ASSUME NEW h \in Handlers, RequestsTyped, handler[h].pc # "free",
           NEW x \in BindCopy, Bindings!LoadCopy(h, x) \/ Bindings!Find(h, x)
    PROVE  RequestsTyped'
<1>1. PICK p \in {"found", "loaded"} :
        handler' = [handler EXCEPT ![h] = [handler[h] EXCEPT !.pc = p, !.copy = x]]
  BY DEF Bindings!LoadCopy, Bindings!Find
<1> DEFINE new == [handler[h] EXCEPT !.pc = p, !.copy = x]
<1>2. handler[h] \in BindRow /\ handler[h].key \in Keys BY DEF RequestsTyped, Busy
<1>3. new \in BindRow /\ new.key \in Keys /\ new.copy = x
  BY <1>2 DEF BindRow
<1>4. handler' = [handler EXCEPT ![h] = new] BY <1>1
<1> HIDE DEF new
<1> QED BY <1>3, <1>4 DEF RequestsTyped, Busy

LEMMA BindFound ==
    ASSUME BindInv, NEW x \in Accounts
    PROVE  Bindings!Found(x) \in BindCopy
<1>1. enabled \subseteq Accounts BY DEF BindInv, Bindings!TypeOK
<1>2. {x} \intersect enabled \in SUBSET Accounts /\ (x \in channels) \in BOOLEAN BY <1>1
<1> QED BY <1>2 DEF Bindings!Found, BindCopy

LEMMA BindReceives ==
    ASSUME NEW h \in Handlers, NEW k \in Keys, RequestsTyped, Bindings!Receive(h, k)
    PROVE  RequestsTyped'
<1> DEFINE new == [Bindings!Free EXCEPT !.pc = "asked", !.key = k]
<1>1. handler' = handler \/ handler' = [handler EXCEPT ![h] = new] BY DEF Bindings!Receive
<1>2. new \in BindRow /\ new.key \in Keys /\ new.pc = "asked" BY DEF Bindings!Free, BindRow
<1> HIDE DEF new
<1> QED BY <1>1, <1>2 DEF RequestsTyped, Busy

LEMMA LinkingBinds ==
    ASSUME BindingsAssumed, BindInv, NEW u \in Users, Bindings!Linking(u),
           UNCHANGED <<requestVars, Bindings!bindVars>>
    PROVE  BindInv'
<1>0. UNCHANGED <<handler, bound, channels, enabled, boundRow>>
  BY DEF requestVars, Bindings!bindVars
<1>1. RequestsTyped' BY <1>0 DEF BindInv, RequestsTyped, Busy
<1>2. Bindings!OneGuildPerChannel' BY <1>0 DEF BindInv, Bindings!OneGuildPerChannel
<1>3. Bindings!TypeOK' /\ Bindings!OneUserPerAccount'
  <2>0. rate[u] \in [count : Nat, expires : BOOLEAN] /\ rate[u].count + 1 \in Nat
    BY DEF BindInv, Bindings!TypeOK
  <2>1. CASE Bindings!Start(u) \/ Bindings!StateExpires(u)
    <3> DEFINE row == rate'[u]
    <3>1. link' = link /\ returning' = returning
      BY <2>1 DEF Bindings!Start, Bindings!StateExpires, Bindings!CountStart,
           Bindings!FinishStart, Bindings!AbandonStart, Bindings!RateExpires
    <3>2. oauth' \subseteq Users /\ starting' \subseteq Users
      BY <2>1 DEF BindInv, Bindings!TypeOK, Bindings!Start, Bindings!StateExpires, Bindings!CountStart,
           Bindings!FinishStart, Bindings!AbandonStart, Bindings!RateExpires
    <3>3. rate' \in [Users -> [count : Nat, expires : BOOLEAN]]
      <4>1. CASE Bindings!CountStart(u)
        <5>1. rate' = [rate EXCEPT ![u].count = rate[u].count + 1]
          BY <4>1 DEF Bindings!CountStart
        <5> QED BY <5>1, <2>0 DEF BindInv, Bindings!TypeOK
      <4>2. CASE Bindings!FinishStart(u)
        <5>1. PICK x \in BOOLEAN : rate' = [rate EXCEPT ![u].expires = x]
          BY <4>2, <2>0 DEF Bindings!FinishStart
        <5> QED BY <5>1, <2>0 DEF BindInv, Bindings!TypeOK
      <4>3. CASE Bindings!RateExpires(u)
        BY <4>3, <2>0 DEF BindInv, Bindings!TypeOK, Bindings!RateExpires
      <4>4. CASE Bindings!AbandonStart(u) \/ Bindings!StateExpires(u)
        BY <4>4 DEF BindInv, Bindings!TypeOK, Bindings!AbandonStart, Bindings!StateExpires
      <4> QED BY <2>1, <4>1, <4>2, <4>3, <4>4 DEF Bindings!Start
    <3> QED BY <1>0, <3>1, <3>2, <3>3 DEF BindInv, Bindings!TypeOK, Bindings!OneUserPerAccount
  <2>2. CASE \E a \in Accounts : Bindings!Return(u, a)
    BY <1>0, <2>2 DEF BindInv, Bindings!TypeOK, Bindings!OneUserPerAccount, Bindings!Return
  <2>3. ASSUME NEW a \in Accounts, Bindings!PersistLink(u, a)
        PROVE  Bindings!TypeOK' /\ Bindings!OneUserPerAccount'
    <3>1. \/ link' = link
          \/ link' = [link EXCEPT ![u] = a] /\ \A v \in Users \ {u} : link[v] # a
      BY <2>3 DEF Bindings!PersistLink, Bindings!Conflicting
    <3>2. UNCHANGED <<oauth, rate, starting>> /\ returning' \subseteq returning
      BY <2>3 DEF Bindings!PersistLink
    <3>3. Bindings!TypeOK' BY <1>0, <3>1, <3>2 DEF BindInv, Bindings!TypeOK
    <3>4. Bindings!OneUserPerAccount'
      BY <3>1 DEF BindInv, Bindings!TypeOK, Bindings!OneUserPerAccount
    <3> QED BY <3>3, <3>4
  <2> QED BY <2>1, <2>2, <2>3 DEF Bindings!Linking
<1> QED BY <1>0, <1>1, <1>2, <1>3 DEF BindInv

LEMMA ServeBinds ==
    ASSUME BindingsAssumed, BindInv, NEW h \in Handlers,
           \/ Bindings!Unlink(h) \/ Bindings!BindFind(h) \/ Bindings!BindRead(h) \/ Bindings!Bind(h)
           \/ Bindings!UnbindRead(h) \/ Bindings!Unbind(h)
    PROVE  BindInv'
<1> DEFINE g == Bindings!Op(h).guild
           u == Bindings!Op(h).user
           c == handler[h].copy
<1>0. RequestsTyped /\ Busy(h) BY DEF BindInv, RequestsTyped
<1>1. /\ Bindings!BindRead(h) \/ Bindings!UnbindRead(h) \/ Bindings!Bind(h) \/ Bindings!Unbind(h)
         => g \in Guilds
      /\ Bindings!Unlink(h) \/ Bindings!BindFind(h) => u \in Users
  BY <1>0 DEF Bindings!Unlink, Bindings!BindFind, Bindings!BindRead, Bindings!UnbindRead, Bindings!Bind, Bindings!Unbind,
       Bindings!Serves, Bindings!Op, Busy, BindingsAssumed
<1> HIDE DEF g, u
<1>2. CASE Bindings!Unlink(h)
  <2>1. UNCHANGED <<oauth, returning, rate, starting, bound, channels, enabled, boundRow>>
    BY <1>2 DEF Bindings!Unlink, Bindings!bindVars
  <2>2. RequestsTyped' BY <1>0, <1>2, BindEnds DEF Bindings!Unlink
  <2>3. link' = link \/ link' = [link EXCEPT ![u] = None] BY <1>2 DEF Bindings!Unlink, u
  <2>4. Bindings!TypeOK' BY <1>1, <1>2, <2>1, <2>3 DEF BindInv, Bindings!TypeOK
  <2>5. Bindings!OneUserPerAccount'
    BY <1>1, <1>2, <2>3 DEF BindInv, Bindings!TypeOK, Bindings!OneUserPerAccount
  <2> QED BY <2>1, <2>2, <2>4, <2>5 DEF BindInv, Bindings!OneGuildPerChannel
<1>3. CASE Bindings!BindFind(h) \/ Bindings!BindRead(h) \/ Bindings!UnbindRead(h)
  <2>1. UNCHANGED <<link, oauth, returning, rate, starting, bound, channels, enabled>>
    BY <1>3 DEF Bindings!BindFind, Bindings!BindRead, Bindings!UnbindRead, Bindings!linkVars, Bindings!bindVars
  <2>2. handler[h].pc # "free"
    BY <1>3 DEF Bindings!BindFind, Bindings!BindRead, Bindings!UnbindRead, Bindings!Serves
  <2>4. RequestsTyped'
    <3>1. CASE Bindings!UnbindRead(h)
      <4>1. bound[g] \in Accounts \union {None} BY <1>1, <3>1 DEF BindInv, Bindings!TypeOK
      <4> QED BY <1>0, <2>2, <3>1, <4>1, BindEnds, BindLoads, BindFound DEF Bindings!UnbindRead, g
    <3>2. CASE Bindings!BindFind(h)
      <4>1. link[u] \in Accounts \union {None} BY <1>1, <3>2 DEF BindInv, Bindings!TypeOK
      <4> QED BY <1>0, <2>2, <3>2, <4>1, BindEnds, BindLoads, BindFound DEF Bindings!BindFind, u
    <3>3. CASE Bindings!BindRead(h)
      <4> DEFINE more == ({bound[g]} \ {c.new}) \intersect enabled
                 x == [c EXCEPT !.old = bound[g], !.on = c.on \union more]
      <4>1. c \in BindCopy BY <1>0, <3>3 DEF Bindings!BindRead, Bindings!Serves, Busy
      <4>2. bound[g] \in Accounts \union {None} /\ more \subseteq Accounts
        BY <1>1, <3>3 DEF BindInv, Bindings!TypeOK
      <4>3. x \in BindCopy BY <4>1, <4>2 DEF BindCopy
      <4>4. (\E y : Bindings!Refuse(h, y)) \/ Bindings!LoadCopy(h, x) BY <3>3 DEF Bindings!BindRead, g
      <4> HIDE DEF x
      <4> QED BY <1>0, <2>2, <4>3, <4>4, BindEnds, BindLoads
    <3> QED BY <1>3, <3>1, <3>2, <3>3
  <2>5. boundRow' \in [Accounts -> Handlers \union {None}]
    BY <1>3 DEF BindInv, Bindings!TypeOK, Bindings!BindFind, Bindings!BindRead, Bindings!UnbindRead,
         Bindings!bindVars
  <2> QED BY <2>1, <2>4, <2>5
       DEF BindInv, Bindings!TypeOK, Bindings!OneUserPerAccount, Bindings!OneGuildPerChannel
<1>4. CASE Bindings!Bind(h)
  <2>1. c.new \in Accounts BY <1>0, <1>4 DEF Bindings!Bind, Bindings!Serves, Busy, BindCopy
  <2>2. UNCHANGED <<link, oauth, returning, rate, starting>> BY <1>4 DEF Bindings!Bind, Bindings!linkVars
  <2>3. RequestsTyped' BY <1>0, <1>4, BindEnds DEF Bindings!Bind
  <2>4. \/ UNCHANGED <<bound, channels, enabled>>
        \/ /\ \/ bound' = bound
              \/ ~ Bindings!TakenElsewhere(g, c.new) /\ bound' = [bound EXCEPT ![g] = c.new]
           /\ channels' = channels \union {c.new}
           /\ enabled' \subseteq enabled \union {c.new}
    BY <1>4 DEF Bindings!Bind, g
  <2>5. boundRow' \in [Accounts -> Handlers \union {None}]
    BY <1>4 DEF BindInv, Bindings!TypeOK, Bindings!Bind, Bindings!Unlocked
  <2> HIDE DEF c
  <2>6. Bindings!TypeOK' BY <1>1, <1>4, <2>1, <2>2, <2>4, <2>5 DEF BindInv, Bindings!TypeOK
  <2>7. Bindings!OneGuildPerChannel'
    BY <1>1, <1>4, <2>1, <2>4
    DEF BindInv, Bindings!TypeOK, Bindings!OneGuildPerChannel, Bindings!TakenElsewhere
  <2> QED BY <2>2, <2>3, <2>6, <2>7 DEF BindInv, Bindings!OneUserPerAccount
<1>5. CASE Bindings!Unbind(h)
  <2>1. UNCHANGED <<link, oauth, returning, rate, starting, channels, boundRow>>
    BY <1>5 DEF Bindings!Unbind, Bindings!linkVars
  <2>2. RequestsTyped' BY <1>0, <1>5, BindEnds DEF Bindings!Unbind
  <2>3. /\ bound' = bound \/ bound' = [bound EXCEPT ![g] = None]
        /\ enabled' \subseteq enabled
    BY <1>5 DEF Bindings!Unbind, g
  <2>4. Bindings!TypeOK' BY <1>1, <1>5, <2>1, <2>3 DEF BindInv, Bindings!TypeOK
  <2>5. Bindings!OneGuildPerChannel'
    BY <1>1, <1>5, <2>3 DEF BindInv, Bindings!TypeOK, Bindings!OneGuildPerChannel
  <2> QED BY <2>1, <2>2, <2>4, <2>5 DEF BindInv, Bindings!OneUserPerAccount
<1> QED BY <1>2, <1>3, <1>4, <1>5

LEMMA BindInit == BindingsAssumed /\ Bindings!Init => BindInv
<1> SUFFICES ASSUME BindingsAssumed, Bindings!Init PROVE BindInv OBVIOUS
<1>1. RequestsTyped BY BindFree DEF Bindings!Init, Bindings!RequestInit, RequestsTyped, Busy
<1>2. Bindings!TypeOK BY DEF Bindings!Init, Bindings!TypeOK
<1> QED BY <1>1, <1>2
     DEF Bindings!Init, BindInv, Bindings!OneUserPerAccount, Bindings!OneGuildPerChannel

LEMMA BindStep == BindingsAssumed /\ BindInv /\ [Bindings!Next]_(Bindings!vars) => BindInv'
<1> SUFFICES ASSUME BindingsAssumed, BindInv, [Bindings!Next]_(Bindings!vars) PROVE BindInv' OBVIOUS
<1>1. ASSUME NEW h \in Handlers, NEW k \in Keys, Bindings!Receive(h, k),
             UNCHANGED <<Bindings!linkVars, Bindings!bindVars>>
      PROVE  BindInv'
  <2>1. RequestsTyped' BY <1>1, BindReceives DEF BindInv
  <2> QED BY <1>1, <2>1 DEF BindInv, Bindings!linkVars, Bindings!bindVars, Bindings!TypeOK,
           Bindings!OneUserPerAccount, Bindings!OneGuildPerChannel
<1>2. CASE Bindings!EngineStops
  <2>1. RequestsTyped' BY <1>2, BindFree DEF Bindings!EngineStops, Bindings!Crash, RequestsTyped, Busy
  <2>2. Bindings!TypeOK' BY <1>2 DEF BindInv, Bindings!TypeOK, Bindings!EngineStops
  <2> QED BY <1>2, <2>1, <2>2
       DEF BindInv, Bindings!EngineStops, Bindings!OneUserPerAccount, Bindings!OneGuildPerChannel
<1>3. CASE UNCHANGED Bindings!vars
  BY <1>3 DEF BindInv, RequestsTyped, Busy, Bindings!vars, Bindings!linkVars, Bindings!bindVars,
     Bindings!requestVars, Bindings!TypeOK, Bindings!OneUserPerAccount, Bindings!OneGuildPerChannel
<1> QED BY <1>1, <1>2, <1>3, ServeBinds, LinkingBinds DEF Bindings!Next, requestVars, Bindings!requestVars

\* Whatever requests and OAuth answers overlap, links and bindings have their types,
\* and the bot is wanted only in channels there are (discord_account_links,
\* discord_guild_bindings, channels.twitch_bot_enabled).
THEOREM BindingsTypeCorrect == ASSUME BindingsAssumed PROVE Bindings!Spec => []Bindings!TypeOK
<1>1. BindInv => Bindings!TypeOK BY DEF BindInv
<1> QED BY <1>1, BindInit, BindStep, PTL DEF Bindings!Spec

\* No two users have one account, whichever order their OAuth answers come back in
\* (_persist_link).
THEOREM AccountsHaveOneUser ==
    ASSUME BindingsAssumed PROVE Bindings!Spec => []Bindings!OneUserPerAccount
<1>1. BindInv => Bindings!OneUserPerAccount BY DEF BindInv
<1> QED BY <1>1, BindInit, BindStep, PTL DEF Bindings!Spec

\* A server is bound to a channel of its own, whichever requests overlap (bind_guild).
THEOREM ChannelsHaveOneServer ==
    ASSUME BindingsAssumed PROVE Bindings!Spec => []Bindings!OneGuildPerChannel
<1>1. BindInv => Bindings!OneGuildPerChannel BY DEF BindInv
<1> QED BY <1>1, BindInit, BindStep, PTL DEF Bindings!Spec

\* What a request has read of its server and of the channels it is about still holds.
Knows(h) ==
    LET c == handler[h].copy
        g == Bindings!Op(h).guild
    IN  /\ Bindings!Serves(h, "found", {"bind"}) => c.on = {c.new} \intersect enabled
        /\ Bindings!Serves(h, "loaded", {"bind"}) =>
             c.old = bound[g] /\ c.on = {c.new, c.old} \intersect enabled
        /\ Bindings!Serves(h, "loaded", {"unbind"}) =>
             c.new = bound[g] /\ c.on = {c.new} \intersect enabled

BotInv ==
    /\ BindInv
    /\ \A h \in Handlers : Knows(h)
    /\ Bindings!BotServesBoundChannels

Reading == {"found", "loaded"}

\* Who has not read anything knows what there is to know.
LEMMA KnowsWhenNotLoaded ==
    ASSUME \A h \in Handlers : handler'[h].pc \in Reading => handler'[h] = handler[h],
           \A h \in Handlers : Knows(h), UNCHANGED <<bound, enabled>>
    PROVE  \A h \in Handlers : Knows(h)'
BY DEF Knows, Bindings!Serves, Bindings!Op, Reading

\* What is done to other channels and to other servers' bindings is not what a request knows.
LEMMA KnowsWhenApart ==
    ASSUME BindingsAssumed, RequestsTyped, NEW u \in Handlers, Knows(u), handler'[u] = handler[u],
           NEW g, NEW T, \A a : a \notin T => (a \in enabled' <=> a \in enabled),
           \A f \in Guilds \ {g} : bound'[f] = bound[f], None \notin enabled, None \notin enabled',
           Bindings!Touches(u) # {} =>
             Bindings!Op(u).guild # g /\ T \intersect Bindings!Touches(u) = {}
    PROVE  Knows(u)'
<1> DEFINE c == handler[u].copy
           f == Bindings!Op(u).guild
<1>1. /\ handler[u].pc \in Reading => c.new \in Accounts /\ c.new # None
      /\ handler[u].pc # "free" => handler[u].key \in Keys
  BY DEF RequestsTyped, Busy, Reading, BindCopy, BindingsAssumed
<1>2. handler[u].pc \in Reading => Bindings!Touches(u) = {c.new, c.old} \ {None}
  BY DEF Bindings!Touches, Reading
<1>3. handler[u].pc \in Reading /\ Bindings!Op(u).kind \in {"bind", "unbind"} => f \in Guilds
  BY <1>1 DEF BindingsAssumed, Bindings!Op, Reading
<1>4. Bindings!Op(u)' = Bindings!Op(u) BY DEF Bindings!Op
<1> HIDE DEF c, f
<1>5. handler[u].pc \in Reading /\ Bindings!Op(u).kind \in {"bind", "unbind"} =>
        /\ bound'[f] = bound[f]
        /\ {c.new} \intersect enabled' = {c.new} \intersect enabled
        /\ {c.new, c.old} \intersect enabled' = {c.new, c.old} \intersect enabled
  <2> SUFFICES ASSUME handler[u].pc \in Reading, Bindings!Op(u).kind \in {"bind", "unbind"}
               PROVE  /\ bound'[f] = bound[f]
                      /\ {c.new} \intersect enabled' = {c.new} \intersect enabled
                      /\ {c.new, c.old} \intersect enabled' = {c.new, c.old} \intersect enabled
    OBVIOUS
  <2>1. Bindings!Touches(u) # {} BY <1>1, <1>2
  <2>2. f # g /\ c.new \notin T /\ (c.old # None => c.old \notin T)
    BY <1>1, <1>2, <2>1 DEF f
  <2> QED BY <1>3, <2>2
<1> QED BY <1>4, <1>5 DEF Knows, Bindings!Serves, c, f, Reading

\* A request that goes on to read more leaves bindings and flags alone.
LEMMA KnowsWhenRead ==
    ASSUME RequestsTyped, NEW h \in Handlers, handler[h].pc # "free", UNCHANGED <<bound, enabled>>,
           \A u \in Handlers : Knows(u), NEW p \in Reading, NEW x \in BindCopy,
           handler' = [handler EXCEPT ![h] = [handler[h] EXCEPT !.pc = p, !.copy = x]],
           p = "found" => x.on = {x.new} \intersect enabled,
           p = "loaded" /\ Bindings!Op(h).kind = "bind" =>
             x.old = bound[Bindings!Op(h).guild] /\ x.on = {x.new, x.old} \intersect enabled,
           p = "loaded" /\ Bindings!Op(h).kind = "unbind" =>
             x.new = bound[Bindings!Op(h).guild] /\ x.on = {x.new} \intersect enabled
    PROVE  \A u \in Handlers : Knows(u)'
<1> DEFINE new == [handler[h] EXCEPT !.pc = p, !.copy = x]
<1>1. handler[h] \in BindRow BY DEF RequestsTyped
<1>2. new.key = handler[h].key /\ new.copy = x /\ new.pc = p BY <1>1 DEF BindRow
<1> HIDE DEF new
<1>3. handler'[h] = new /\ \A u \in Handlers \ {h} : handler'[u] = handler[u]
  BY DEF RequestsTyped, new
<1>4. Bindings!Op(h)' = Bindings!Op(h) BY <1>2, <1>3 DEF Bindings!Op
<1>5. Knows(h)' BY <1>2, <1>3, <1>4 DEF Knows, Bindings!Serves, Reading
<1>6. \A u \in Handlers \ {h} : Knows(u)'
  BY <1>3 DEF Knows, Bindings!Serves, Bindings!Op
<1> QED BY <1>5, <1>6

LEMMA ServeKnows ==
    ASSUME BindingsAssumed, BotInv, BindInv', Bindings!RequestsApart, NEW h \in Handlers,
           \/ Bindings!Unlink(h) \/ Bindings!BindFind(h) \/ Bindings!BindRead(h) \/ Bindings!Bind(h)
           \/ Bindings!UnbindRead(h) \/ Bindings!Unbind(h)
    PROVE  BotInv'
<1> DEFINE g == Bindings!Op(h).guild
           c == handler[h].copy
<1>0. /\ RequestsTyped /\ Busy(h) /\ Knows(h) /\ None \notin Accounts
      /\ bound \in [Guilds -> Accounts \union {None}]
      /\ enabled \subseteq Accounts /\ enabled' \subseteq Accounts
  BY DEF BotInv, BindInv, RequestsTyped, BindingsAssumed, Bindings!TypeOK
<1>1. Bindings!BindRead(h) \/ Bindings!UnbindRead(h) \/ Bindings!Bind(h) \/ Bindings!Unbind(h)
        => g \in Guilds
  BY <1>0 DEF Bindings!BindRead, Bindings!UnbindRead, Bindings!Bind, Bindings!Unbind,
       Bindings!Serves, Bindings!Op, Busy, BindingsAssumed
<1>2. Bindings!BindRead(h) \/ Bindings!Bind(h) \/ Bindings!Unbind(h) => c \in BindCopy
  BY <1>0 DEF Bindings!BindRead, Bindings!Bind, Bindings!Unbind, Bindings!Serves, Busy
<1>3. ASSUME UNCHANGED <<bound, enabled>>, handler' = [handler EXCEPT ![h] = Bindings!Free]
      PROVE  BotInv'
  <2>1. \A u \in Handlers : Knows(u)'
    BY <1>0, <1>3, BindFree, KnowsWhenNotLoaded DEF BotInv, RequestsTyped, Reading
  <2> QED BY <1>3, <2>1 DEF BotInv, Bindings!BotServesBoundChannels
<1>4. CASE Bindings!Unlink(h)
  <2>1. UNCHANGED <<bound, enabled>> BY <1>4 DEF Bindings!Unlink, Bindings!bindVars
  <2>2. handler' = [handler EXCEPT ![h] = Bindings!Free]
    BY <1>0, <1>4, BindEnds DEF Bindings!Unlink
  <2> QED BY <1>3, <2>1, <2>2
<1>5. CASE Bindings!BindFind(h) \/ Bindings!BindRead(h) \/ Bindings!UnbindRead(h)
  <2>1. UNCHANGED <<bound, enabled>> /\ handler[h].pc # "free"
    BY <1>5 DEF Bindings!BindFind, Bindings!BindRead, Bindings!UnbindRead, Bindings!bindVars,
         Bindings!Serves
  <2> SUFFICES ASSUME handler' # [handler EXCEPT ![h] = Bindings!Free]
               PROVE  \A u \in Handlers : Knows(u)'
    BY <1>3, <2>1 DEF BotInv, Bindings!BotServesBoundChannels
  <2>2. CASE Bindings!BindFind(h)
    <3> DEFINE a == link[Bindings!Op(h).user]
    <3>1. Bindings!Find(h, Bindings!Found(a)) /\ a # None
      BY <1>0, <2>2, BindEnds DEF Bindings!BindFind
    <3>2. a \in Accounts
      BY <2>2, <3>1, <1>0 DEF BotInv, BindInv, Bindings!TypeOK, Bindings!BindFind, Bindings!Serves,
           Busy, BindingsAssumed, Bindings!Op
    <3> HIDE DEF a
    <3>3. Bindings!Found(a) \in BindCopy BY <3>2, BindFound DEF BotInv
    <3>4. Bindings!Found(a).on = {a} \intersect enabled /\ Bindings!Found(a).new = a
      BY DEF Bindings!Found
    <3>5. handler' = [handler EXCEPT ![h] = [handler[h] EXCEPT !.pc = "found", !.copy = Bindings!Found(a)]]
      BY <3>1 DEF Bindings!Find
    <3> QED BY <1>0, <2>1, <3>3, <3>4, <3>5, KnowsWhenRead DEF BotInv, Reading
  <2>3. CASE Bindings!UnbindRead(h)
    <3> DEFINE a == bound[g]
    <3>1. Bindings!LoadCopy(h, Bindings!Found(a)) /\ a # None /\ Bindings!Op(h).kind = "unbind"
      BY <1>0, <2>3, BindEnds DEF Bindings!UnbindRead, Bindings!Serves
    <3>2. a \in Accounts BY <1>0, <1>1, <2>3, <3>1
    <3> HIDE DEF a
    <3>3. Bindings!Found(a) \in BindCopy BY <3>2, BindFound DEF BotInv
    <3>4. Bindings!Found(a).on = {a} \intersect enabled /\ Bindings!Found(a).new = a
      BY DEF Bindings!Found
    <3>5. handler' = [handler EXCEPT ![h] = [handler[h] EXCEPT !.pc = "loaded", !.copy = Bindings!Found(a)]]
      BY <3>1 DEF Bindings!LoadCopy
    <3>6. a = bound[Bindings!Op(h).guild] BY DEF a
    <3> QED BY <1>0, <2>1, <3>1, <3>3, <3>4, <3>5, <3>6, KnowsWhenRead DEF BotInv, Reading
  <2>4. CASE Bindings!BindRead(h)
    <3> DEFINE on == c.on \union (({bound[g]} \ {c.new}) \intersect enabled)
               x == [c EXCEPT !.old = bound[g], !.on = on]
    <3>1. Bindings!LoadCopy(h, x) /\ Bindings!Op(h).kind = "bind"
      BY <1>0, <2>4, BindEnds DEF Bindings!BindRead, Bindings!Serves
    <3>2. bound[g] \in Accounts \union {None} BY <1>0, <1>1, <2>4
    <3>3. c.on = {c.new} \intersect enabled
      BY <1>0, <2>4 DEF Knows, Bindings!BindRead, Bindings!Serves
    <3>4. on = {c.new, bound[g]} \intersect enabled BY <3>3
    <3>5. on \in SUBSET Accounts BY <1>0, <3>4
    <3>6. c \in BindCopy BY <1>2, <2>4
    <3>7. handler' = [handler EXCEPT ![h] = [handler[h] EXCEPT !.pc = "loaded", !.copy = x]]
      BY <3>1 DEF Bindings!LoadCopy
    <3> HIDE DEF on, c
    <3>8. x \in BindCopy /\ x.old = bound[g] /\ x.new = c.new /\ x.on = on
      BY <3>2, <3>5, <3>6 DEF BindCopy
    <3> HIDE DEF x
    <3>9. x.on = {x.new, x.old} \intersect enabled BY <3>4, <3>8
    <3> QED BY <1>0, <2>1, <3>1, <3>7, <3>8, <3>9, KnowsWhenRead DEF BotInv, Reading
  <2> QED BY <1>5, <2>2, <2>3, <2>4
<1>6. CASE Bindings!Bind(h) \/ Bindings!Unbind(h)
  <2> DEFINE T == Bindings!Touches(h)
  <2>1. handler' = [handler EXCEPT ![h] = Bindings!Free]
    BY <1>0, <1>6, BindEnds DEF Bindings!Bind, Bindings!Unbind
  <2>2. T = {c.new, c.old} \ {None} /\ c.new \in Accounts /\ c.on \subseteq {c.new, c.old}
    BY <1>0, <1>2, <1>6 DEF Bindings!Bind, Bindings!Unbind, Bindings!Serves, Bindings!Touches, BindCopy,
         Knows
  <2>3. \A f \in Guilds \ {g} : bound'[f] = bound[f]
    BY <1>0, <1>6 DEF Bindings!Bind, Bindings!Unbind
  <2>4. \A a : a \notin T => (a \in enabled' <=> a \in enabled)
    <3>1. CASE Bindings!Bind(h)
      BY <1>0, <2>2, <3>1 DEF Bindings!Bind, Bindings!Replaced
    <3>2. CASE Bindings!Unbind(h)
      BY <1>0, <2>2, <3>2 DEF Bindings!Unbind
    <3> QED BY <1>6, <3>1, <3>2
  <2>5. ASSUME NEW u \in Handlers PROVE Knows(u)'
    <3>1. CASE u = h
      <4>1. handler'[h].pc = "free" BY <1>0, <2>1, BindFree DEF RequestsTyped
      <4> QED BY <3>1, <4>1 DEF Knows, Bindings!Serves
    <3>2. CASE u # h
      <4>1. handler'[u] = handler[u] BY <1>0, <2>1, <3>2 DEF RequestsTyped
      <4>2. T # {} BY <1>0, <2>2
      <4>3. Bindings!Touches(u) # {} =>
              Bindings!Op(u).guild # g /\ T \intersect Bindings!Touches(u) = {}
        BY <3>2, <4>2 DEF Bindings!RequestsApart
      <4>4. Knows(u) /\ None \notin enabled /\ None \notin enabled' BY <1>0 DEF BotInv
      <4> HIDE DEF g, T
      <4> QED BY <1>0, <2>3, <2>4, <4>1, <4>3, <4>4, KnowsWhenApart
    <3> QED BY <3>1, <3>2
  <2>6. CASE UNCHANGED <<bound, enabled>> BY <1>3, <2>1, <2>6
  <2>7. \A a : a \in enabled <=> a # None /\ \E f \in Guilds : a = bound[f]
    BY DEF BotInv, Bindings!BotServesBoundChannels
  <2>8. g \in Guilds BY <1>1, <1>6
  <2>9. \A f \in Guilds : bound[f] # None /\ bound[f] = bound[g] => f = g
    BY <2>8 DEF BotInv, BindInv, Bindings!OneGuildPerChannel
  <2>10. CASE Bindings!Bind(h) /\ ~ UNCHANGED <<bound, enabled>>
    <3>1. c.old = bound[g] /\ c.on = {c.new, c.old} \intersect enabled
      BY <1>0, <2>10 DEF Bindings!Bind, Knows, Bindings!Serves
    <3>2. enabled' = (enabled \ (Bindings!Replaced(c.old, c.new) \intersect c.on)) \union ({c.new} \ c.on)
      BY <2>10 DEF Bindings!Bind
    <3>3. bound' = [bound EXCEPT ![g] = c.new]
      BY <1>0, <2>8, <2>10, <3>1 DEF Bindings!Bind
    <3> HIDE DEF c, g
    <3>4. enabled' = (enabled \ Bindings!Replaced(c.old, c.new)) \union {c.new}
      BY <3>1, <3>2 DEF Bindings!Replaced
    <3>5. \A a : a \in enabled' <=> a # None /\ \E f \in Guilds : a = bound'[f]
      BY <1>0, <2>2, <2>7, <2>8, <2>9, <3>1, <3>3, <3>4 DEF Bindings!Replaced
    <3> QED BY <2>5, <3>5 DEF BotInv, Bindings!BotServesBoundChannels
  <2>11. CASE Bindings!Unbind(h) /\ ~ UNCHANGED <<bound, enabled>>
    <3>1. bound' = [bound EXCEPT ![g] = None] /\ enabled' = enabled \ c.on
      BY <2>11 DEF Bindings!Unbind
    <3>2. c.new = bound[g] /\ c.on = {c.new} \intersect enabled
      BY <1>0, <2>11 DEF Bindings!Unbind, Knows, Bindings!Serves
    <3> HIDE DEF c, g
    <3>3. \A a : a \in enabled' <=> a # None /\ \E f \in Guilds : a = bound'[f]
      BY <1>0, <2>7, <2>8, <2>9, <3>1, <3>2
    <3> QED BY <2>5, <3>3 DEF BotInv, Bindings!BotServesBoundChannels
  <2> QED BY <1>6, <2>6, <2>10, <2>11
<1> QED BY <1>4, <1>5, <1>6

LEMMA BotStep ==
    BindingsAssumed /\ BotInv /\ Bindings!RequestsApart /\ [Bindings!Next]_(Bindings!vars) => BotInv'
<1> SUFFICES ASSUME BindingsAssumed, BotInv, Bindings!RequestsApart, [Bindings!Next]_(Bindings!vars)
             PROVE  BotInv'
  OBVIOUS
<1>0. BindInv' BY BindStep DEF BotInv
<1>1. CASE \E h \in Handlers, k \in Keys :
             Bindings!Receive(h, k) /\ UNCHANGED <<Bindings!linkVars, Bindings!bindVars>>
  <2>1. PICK h \in Handlers, k \in Keys :
             Bindings!Receive(h, k) /\ UNCHANGED <<Bindings!linkVars, Bindings!bindVars>> BY <1>1
  <2> DEFINE new == [Bindings!Free EXCEPT !.pc = "asked", !.key = k]
  <2>2. handler' = handler \/ handler' = [handler EXCEPT ![h] = new] BY <2>1 DEF Bindings!Receive
  <2>3. new.pc = "asked" BY DEF Bindings!Free
  <2> HIDE DEF new
  <2>4. UNCHANGED <<bound, enabled>> BY <2>1 DEF Bindings!bindVars
  <2>5. \A u \in Handlers : Knows(u)'
    BY <2>2, <2>3, <2>4, KnowsWhenNotLoaded DEF BotInv, BindInv, RequestsTyped, Reading
  <2> QED BY <1>0, <2>4, <2>5 DEF BotInv, Bindings!BotServesBoundChannels
<1>2. CASE Bindings!EngineStops
  <2>1. UNCHANGED <<bound, enabled>> BY <1>2 DEF Bindings!EngineStops
  <2>2. \A u \in Handlers : Knows(u)'
    BY <1>2, <2>1, BindFree, KnowsWhenNotLoaded DEF BotInv, Reading, Bindings!EngineStops, Bindings!Crash
  <2> QED BY <1>0, <2>1, <2>2 DEF BotInv, Bindings!BotServesBoundChannels
<1>3. CASE \/ \E u \in Users : Bindings!Linking(u) /\ UNCHANGED <<Bindings!requestVars, Bindings!bindVars>>
           \/ UNCHANGED Bindings!vars
  <2>1. UNCHANGED <<handler, bound, enabled>>
    BY <1>3 DEF Bindings!requestVars, Bindings!bindVars, Bindings!vars
  <2>2. \A u \in Handlers : Knows(u)' BY <2>1, KnowsWhenNotLoaded DEF BotInv
  <2> QED BY <1>0, <2>1, <2>2 DEF BotInv, Bindings!BotServesBoundChannels
<1> QED BY <1>0, <1>1, <1>2, <1>3, ServeKnows DEF Bindings!Next

\* The bot is wanted in a channel exactly while a server is bound to it, if requests
\* that overlap between their first read and their commit are about different servers
\* and different channels: bind_guild and remove_guild_binding leave the channel they
\* have read, and write the flag only where it differs from what they have read.
THEOREM BotsServeBoundChannels ==
    ASSUME BindingsAssumed
    PROVE  Bindings!Spec /\ []Bindings!RequestsApart => []Bindings!BotServesBoundChannels
<1>1. Bindings!Init => BotInv
  <2> SUFFICES ASSUME Bindings!Init PROVE BotInv OBVIOUS
  <2>1. \A h \in Handlers : Knows(h)
    BY BindFree DEF Bindings!Init, Bindings!RequestInit, Knows, Bindings!Serves
  <2>2. Bindings!BotServesBoundChannels BY DEF Bindings!Init, Bindings!BotServesBoundChannels
  <2> QED BY <2>1, <2>2, BindInit DEF BotInv
<1>2. BotInv => Bindings!BotServesBoundChannels BY DEF BotInv
<1> QED BY <1>1, <1>2, BotStep, PTL DEF Bindings!Spec

-----------------------------------------------------------------------------
(* What administrators give a player *)

CONSTANTS Lowest, Highest, Slots, Scope, Worn
VARIABLES rows, window, born, shown, edits

Modifiers == INSTANCE PlayerModifiers WITH seen <- shown

ModifierRow(n) == [id : 1 .. n, op : Modifiers!Operations, value : Int, version : Nat \ {0}, enabled : BOOLEAN]

\* Neither a row nor an answer is None, and requests name a row and what it is to be.
ModifiersAssumed ==
    /\ \A n \in Nat : None \notin ModifierRow(n)
    /\ \A x : Answer("ok", x) # None
    /\ \A k \in Keys :
         /\ OpOf[k].slot \in Slots
         /\ OpOf[k].kind = "set" =>
              /\ OpOf[k].op \in Modifiers!Operations /\ OpOf[k].value \in Int
              /\ OpOf[k].window \in Modifiers!Windows
         /\ OpOf[k].kind = "state" => OpOf[k].enabled \in BOOLEAN

\* A row that was removed begins again at version 1 if it is set again.
NothingIsRemoved == \A k \in Keys : OpOf[k].kind # "remove"

\* What a form has shown is still there, and has changed only if its version grew.
ShownGrows ==
    \A k \in Keys : shown[k] # None =>
        LET row == rows[OpOf[k].slot] IN
        /\ shown[k] \in ModifierRow(born) /\ row # None
        /\ row.id = shown[k].id /\ shown[k].version <= row.version
        /\ row.version = shown[k].version => row = shown[k]

ModifierRows ==
    /\ DOMAIN rows = Slots /\ born \in Nat
    /\ \A s \in Slots : rows[s] = None \/ rows[s] \in ModifierRow(born)
    /\ window \in [Slots -> Modifiers!Windows]
    /\ DOMAIN shown = Keys

Books ==
    /\ applied \in Seq(Keys) /\ born <= Len(applied) /\ DOMAIN record = Keys
    /\ Once
    /\ DOMAIN handler = Handlers
    /\ \A h \in Handlers : handler[h].pc # "free" => handler[h].key \in Keys

Seen == ShownGrows /\ Modifiers!EditsWhatItsAuthorSaw

ModifierInv == ModifierRows /\ Books /\ (NothingIsRemoved => Seen)

LEMMA GivenGrows == \A m, n \in Nat : m <= n => ModifierRow(m) \subseteq ModifierRow(n)
BY DEF ModifierRow

LEMMA ModifierTypes == ModifierInv => Modifiers!TypeOK
BY DEF ModifierInv, ModifierRows, Books, Modifiers!TypeOK, ModifierRow

LEMMA RefusedBooks ==
    ASSUME Books, NEW h \in Handlers, \E w : Modifiers!Refuse(h, w), UNCHANGED born
    PROVE  Books'
<1>1. /\ UNCHANGED <<record, sent, applied>>
      /\ handler' = [handler EXCEPT ![h] = Modifiers!Free]
  BY DEF Modifiers!Refuse
<1>2. Modifiers!Free.pc = "free" BY DEF Modifiers!Free
<1> QED BY <1>1, <1>2 DEF Books, Once, Recorded

LEMMA CommittedBooks ==
    ASSUME ModifiersAssumed, Books, NEW h \in Handlers, NEW x, Modifiers!Commit(h, x),
           handler[h].pc # "free", born \in Nat, born' \in {born, born + 1}
    PROVE  Books'
<1> DEFINE k == handler[h].key
<1>1. k \in Keys BY DEF Books
<1>2. /\ record[k] = None /\ record' = [record EXCEPT ![k] = Answer("ok", x)]
      /\ applied' = Append(applied, k)
      /\ handler' = [handler EXCEPT ![h] = Modifiers!Free]
  BY DEF Modifiers!Commit, Modifiers!Clashes, Modifiers!Answer, Answer
<1>3. Modifiers!Free.pc = "free" BY DEF Modifiers!Free
<1> HIDE DEF k
<1>4. DOMAIN record' = Keys /\ record'[k] # None /\ \A q \in Keys : q # k => record'[q] = record[q]
  BY <1>1, <1>2 DEF Books, ModifiersAssumed
<1>5. /\ applied' \in Seq(Keys) /\ Len(applied') = Len(applied) + 1 /\ Len(applied) \in Nat
      /\ \A i \in 1 .. Len(applied) : applied'[i] = applied[i] /\ applied[i] \in Keys
      /\ applied'[Len(applied) + 1] = k
  BY <1>1, <1>2 DEF Books
<1>6. \A i \in 1 .. Len(applied) : record[applied[i]] # None /\ applied[i] # k
  BY <1>2 DEF Books, Once, Recorded
<1>7. \A i \in 1 .. Len(applied') : i \in 1 .. Len(applied) \/ i = Len(applied) + 1 BY <1>5
<1>8. \A i, j \in 1 .. Len(applied') : applied'[i] = applied'[j] => i = j
  BY <1>5, <1>6, <1>7 DEF Books, Once
<1>9. \A i \in 1 .. Len(applied') : record'[applied'[i]] # None
  BY <1>4, <1>5, <1>6, <1>7
<1>10. Once' BY <1>8, <1>9 DEF Once, Recorded
<1>11. born' <= Len(applied') BY <1>5 DEF Books
<1>12. DOMAIN handler' = Handlers
       /\ \A u \in Handlers : handler'[u].pc # "free" => handler'[u].key \in Keys
  BY <1>2, <1>3 DEF Books
<1> QED BY <1>4, <1>5, <1>10, <1>11, <1>12 DEF Books

\* What does not change a row or a form leaves them as they were.
LEMMA RowsKept ==
    ASSUME ModifierInv, Books', UNCHANGED <<rows, window, born, edits, shown>>
    PROVE  ModifierInv'
BY DEF ModifierInv, ModifierRows, Seen, ShownGrows, Modifiers!EditsWhatItsAuthorSaw

\* An edit; where nothing is removed, its author saw the row and it makes it newer.
LEMMA RowChanges ==
    ASSUME ModifiersAssumed, ModifierInv, NEW h \in Handlers, handler[h].pc # "free",
           NEW row, Modifiers!Changes(h, row),
           born' \in {born, born + 1}, row \in ModifierRow(born') \union {None},
           window' \in [Slots -> Modifiers!Windows],
           NothingIsRemoved =>
               /\ row # None /\ Modifiers!Row(h) = Modifiers!Seen(h)
               /\ Modifiers!Row(h) # None =>
                    row.id = Modifiers!Row(h).id /\ row.version = Modifiers!Row(h).version + 1
    PROVE  ModifierInv'
<1> DEFINE s == Modifiers!Slot(h)
<1>1. /\ rows' = [rows EXCEPT ![s] = row] /\ UNCHANGED shown
      /\ edits' = edits \union {[saw |-> Modifiers!Seen(h), found |-> rows[s]]}
      /\ Modifiers!Commit(h, row)
  BY DEF Modifiers!Changes, Modifiers!Row
<1>2. s \in Slots BY DEF Modifiers!Slot, Modifiers!Op, ModifierInv, Books, ModifiersAssumed
<1>3. born \in Nat /\ born' \in Nat /\ born <= born' BY DEF ModifierInv, ModifierRows
<1>4. Books' BY <1>1, <1>3, CommittedBooks DEF ModifierInv
<1>5. ModifierRow(born) \subseteq ModifierRow(born') BY <1>3, GivenGrows
<1>6. NothingIsRemoved =>
        /\ row # None
        /\ rows[s] = None \/ (rows[s] \in ModifierRow(born) /\ row.id = rows[s].id
                             /\ row.version = rows[s].version + 1)
  BY <1>2 DEF ModifierInv, ModifierRows, Modifiers!Row
<1>7. NothingIsRemoved => Modifiers!EditsWhatItsAuthorSaw'
  BY <1>1 DEF ModifierInv, Seen, Modifiers!EditsWhatItsAuthorSaw, Modifiers!Row
<1> HIDE DEF s
<1>8. ModifierRows' BY <1>1, <1>2, <1>3, <1>5 DEF ModifierInv, ModifierRows
<1>9. NothingIsRemoved => ShownGrows'
  <2> SUFFICES ASSUME NothingIsRemoved, NEW k \in Keys, shown[k] # None
               PROVE  /\ shown[k] \in ModifierRow(born') /\ rows'[OpOf[k].slot] # None
                      /\ rows'[OpOf[k].slot].id = shown[k].id
                      /\ shown[k].version <= rows'[OpOf[k].slot].version
                      /\ rows'[OpOf[k].slot].version = shown[k].version => rows'[OpOf[k].slot] = shown[k]
    BY <1>1 DEF ShownGrows
  <2>1. /\ shown[k] \in ModifierRow(born) /\ rows[OpOf[k].slot] # None
        /\ rows[OpOf[k].slot].id = shown[k].id /\ shown[k].version <= rows[OpOf[k].slot].version
        /\ rows[OpOf[k].slot].version = shown[k].version => rows[OpOf[k].slot] = shown[k]
    BY DEF ModifierInv, Seen, ShownGrows
  <2>2. CASE OpOf[k].slot = s
    <3>1. rows'[s] = row /\ rows[s] # None BY <1>1, <1>2, <2>1, <2>2 DEF ModifierInv, ModifierRows
    <3>2. rows[s].version \in Nat /\ shown[k].version \in Nat
          /\ row.id = rows[s].id /\ row.version = rows[s].version + 1
      BY <1>6, <2>1, <3>1 DEF ModifierRow
    <3>3. shown[k].version <= rows[s].version BY <2>1, <2>2
    <3>4. shown[k].version <= row.version /\ row.version # shown[k].version BY <3>2, <3>3
    <3> QED BY <1>3, <1>5, <1>6, <2>1, <2>2, <3>1, <3>2, <3>4
  <2>3. CASE OpOf[k].slot # s
    <3>1. rows'[OpOf[k].slot] = rows[OpOf[k].slot] BY <1>1, <2>3
    <3> QED BY <1>5, <2>1, <3>1
  <2> QED BY <2>2, <2>3
<1> QED BY <1>4, <1>7, <1>8, <1>9 DEF ModifierInv, Seen

\* Who has seen a row of the version it has now has seen the row it is now.
LEMMA SeenIsFound ==
    ASSUME ModifiersAssumed, ModifierInv, NEW h \in Handlers, handler[h].pc # "free"
    PROVE  /\ Modifiers!Slot(h) \in Slots
           /\ NothingIsRemoved =>
                /\ Modifiers!Expected(h) => Modifiers!Row(h) = Modifiers!Seen(h)
                /\ Modifiers!SameRow(h) /\ Modifiers!VersionFits(h) =>
                     Modifiers!Row(h) = Modifiers!Seen(h)
<1>1. handler[h].key \in Keys /\ Modifiers!Slot(h) = OpOf[handler[h].key].slot
  BY DEF ModifierInv, Books, Modifiers!Slot, Modifiers!Op
<1>2. Modifiers!Slot(h) \in Slots BY <1>1 DEF ModifiersAssumed
<1>3. NothingIsRemoved /\ Modifiers!Seen(h) # None /\ Modifiers!VersionFits(h) =>
        Modifiers!Row(h) = Modifiers!Seen(h)
  BY <1>1 DEF ModifierInv, Seen, ShownGrows, Modifiers!Seen, Modifiers!VersionFits, Modifiers!Row
<1> QED BY <1>2, <1>3 DEF Modifiers!Expected, Modifiers!SameRow

LEMMA ServeModifier ==
    ASSUME ModifiersAssumed, ModifierInv, NEW h \in Handlers,
           Modifiers!SetModifier(h) \/ Modifiers!SetState(h) \/ Modifiers!RemoveModifier(h)
    PROVE  ModifierInv'
<1>0. handler[h].pc # "free" /\ handler[h].key \in Keys /\ Modifiers!Op(h) = OpOf[handler[h].key]
  BY DEF Modifiers!SetModifier, Modifiers!SetState, Modifiers!RemoveModifier, Modifiers!OnRow,
         Modifiers!Serves, Modifiers!Op, ModifierInv, Books
<1>1. born \in Nat /\ (Modifiers!Row(h) = None \/ Modifiers!Row(h) \in ModifierRow(born))
  BY <1>0, SeenIsFound DEF ModifierInv, ModifierRows, Modifiers!Row
<1>2. ASSUME \E w : Modifiers!Refuse(h, w), Modifiers!Keeps PROVE ModifierInv'
  BY <1>2, RefusedBooks, RowsKept DEF Modifiers!Keeps, ModifierInv
<1>3. ASSUME Modifiers!Clash(h), Modifiers!Keeps PROVE ModifierInv'
  BY <1>2, <1>3 DEF Modifiers!Clash
<1>4. CASE Modifiers!SetModifier(h)
  <2> DEFINE fresh == Modifiers!Row(h) = None
             o == Modifiers!Op(h)
             row == [id |-> IF fresh THEN born + 1 ELSE Modifiers!Row(h).id, op |-> o.op,
                     value |-> o.value, version |-> Modifiers!NextVersion(h), enabled |-> TRUE]
  <2>1. ASSUME Modifiers!Expected(h), Modifiers!Changes(h, row),
               born' = (IF fresh THEN born + 1 ELSE born),
               window' = [window EXCEPT ![o.slot] = o.window]
        PROVE  ModifierInv'
    <3>1. o.op \in Modifiers!Operations /\ o.value \in Int /\ o.window \in Modifiers!Windows
      BY <1>0, <1>4 DEF Modifiers!SetModifier, Modifiers!Serves, ModifiersAssumed
    <3>2. window' \in [Slots -> Modifiers!Windows]
      BY <2>1, <3>1 DEF ModifierInv, ModifierRows
    <3>3. NothingIsRemoved => Modifiers!Row(h) = Modifiers!Seen(h) BY <1>0, <2>1, SeenIsFound
    <3> DEFINE i == IF fresh THEN born + 1 ELSE Modifiers!Row(h).id
               v == Modifiers!NextVersion(h)
    <3>4. /\ i \in 1 .. born' /\ v \in Nat \ {0}
          /\ Modifiers!Row(h) # None => i = Modifiers!Row(h).id /\ v = Modifiers!Row(h).version + 1
      <4>1. CASE fresh BY <1>1, <2>1, <4>1 DEF Modifiers!NextVersion
      <4>2. CASE ~ fresh
        <5>1. Modifiers!Row(h).id \in 1 .. born /\ Modifiers!Row(h).version \in Nat
          BY <1>1, <4>2 DEF ModifierRow
        <5> QED BY <1>1, <2>1, <4>2, <5>1 DEF Modifiers!NextVersion
      <4> QED BY <4>1, <4>2
    <3>5. row.id = i /\ row.version = v OBVIOUS
    <3>6. row \in ModifierRow(born')
      <4> HIDE DEF i, v, o, fresh
      <4>1. row = [id |-> i, op |-> o.op, value |-> o.value, version |-> v, enabled |-> TRUE]
        BY DEF i, v
      <4> HIDE DEF row
      <4> QED BY <3>1, <3>4, <4>1 DEF ModifierRow
    <3>7. born' \in {born, born + 1} BY <2>1
    <3> HIDE DEF i, v, row
    <3>8. row # None BY <1>1, <3>6, <3>7 DEF ModifiersAssumed
    <3> QED BY <1>0, <2>1, <3>2, <3>3, <3>4, <3>5, <3>6, <3>7, <3>8, RowChanges
  <2> HIDE DEF row
  <2> QED BY <1>2, <1>3, <1>4, <2>1 DEF Modifiers!SetModifier, row
<1>5. CASE Modifiers!SetState(h)
  <2> DEFINE row == IF Modifiers!Row(h) = None THEN None
                    ELSE [Modifiers!Row(h) EXCEPT !.enabled = Modifiers!Op(h).enabled, !.version = @ + 1]
  <2>1. ASSUME Modifiers!SameRow(h), Modifiers!VersionFits(h), Modifiers!Changes(h, row),
               UNCHANGED <<born, window>>
        PROVE  ModifierInv'
    <3>1. Modifiers!Op(h).enabled \in BOOLEAN
      BY <1>0, <1>5 DEF Modifiers!SetState, Modifiers!OnRow, Modifiers!Serves, ModifiersAssumed
    <3>2. NothingIsRemoved => Modifiers!Row(h) = Modifiers!Seen(h) BY <1>0, <2>1, SeenIsFound
    <3>3. Modifiers!Row(h) \in ModifierRow(born) BY <1>1, <2>1 DEF Modifiers!SameRow
    <3>4. /\ row \in ModifierRow(born) /\ row.id = Modifiers!Row(h).id
          /\ row.version = Modifiers!Row(h).version + 1
      <4>1. Modifiers!Row(h) # None BY <2>1 DEF Modifiers!SameRow
      <4> DEFINE r == Modifiers!Row(h)
                 e == Modifiers!Op(h).enabled
      <4>2. row = [r EXCEPT !.enabled = e, !.version = @ + 1] BY <4>1
      <4> HIDE DEF r, e, row
      <4>3. r \in ModifierRow(born) /\ e \in BOOLEAN BY <3>1, <3>3 DEF r, e
      <4>4. r.version + 1 \in Nat \ {0} BY <4>3 DEF ModifierRow
      <4>5. row \in ModifierRow(born) /\ row.id = r.id /\ row.version = r.version + 1
        BY <4>2, <4>3, <4>4 DEF ModifierRow
      <4> QED BY <4>5 DEF r
    <3>5. window' \in [Slots -> Modifiers!Windows] BY <2>1 DEF ModifierInv, ModifierRows
    <3> HIDE DEF row
    <3>6. row # None BY <1>1, <3>4 DEF ModifiersAssumed
    <3> QED BY <1>0, <2>1, <3>2, <3>4, <3>5, <3>6, RowChanges
  <2> HIDE DEF row
  <2> QED BY <1>2, <1>3, <1>5, <2>1 DEF Modifiers!SetState, Modifiers!OnRow, row
<1>6. CASE Modifiers!RemoveModifier(h)
  <2>1. ~ NothingIsRemoved
    BY <1>0, <1>6 DEF Modifiers!RemoveModifier, Modifiers!OnRow, Modifiers!Serves, NothingIsRemoved
  <2>2. ASSUME Modifiers!Changes(h, None), UNCHANGED <<born, window>> PROVE ModifierInv'
    <3>1. window' \in [Slots -> Modifiers!Windows] BY <2>2 DEF ModifierInv, ModifierRows
    <3> QED BY <1>0, <2>1, <2>2, <3>1, RowChanges
  <2> QED BY <1>2, <1>3, <1>6, <2>2 DEF Modifiers!RemoveModifier, Modifiers!OnRow
<1> QED BY <1>4, <1>5, <1>6

LEMMA ModifierStep ==
    ModifiersAssumed /\ ModifierInv /\ [Modifiers!Next]_(Modifiers!vars) => ModifierInv'
<1> SUFFICES ASSUME ModifiersAssumed, ModifierInv, [Modifiers!Next]_(Modifiers!vars)
             PROVE  ModifierInv'
  OBVIOUS
<1>1. ASSUME NEW h \in Handlers, NEW k \in Keys, Modifiers!Receive(h, k), UNCHANGED Modifiers!modifierVars
      PROVE  ModifierInv'
  <2> DEFINE new == [Modifiers!Free EXCEPT !.pc = "asked", !.key = k]
  <2>1. /\ UNCHANGED <<record, applied, rows, window, born, edits, shown>>
        /\ handler' = handler \/ handler' = [handler EXCEPT ![h] = new]
    BY <1>1 DEF Modifiers!Receive, Modifiers!modifierVars
  <2>2. new.key = k BY DEF Modifiers!Free
  <2> HIDE DEF new
  <2>3. Books' BY <2>1, <2>2 DEF ModifierInv, Books, Once, Recorded
  <2> QED BY <2>1, <2>3, RowsKept
<1>2. ASSUME NEW k \in Keys, Modifiers!Look(k) PROVE ModifierInv'
  <2>1. /\ shown' = [shown EXCEPT ![k] = rows[OpOf[k].slot]] /\ rows[OpOf[k].slot] # None
        /\ UNCHANGED <<record, handler, applied, rows, window, born, edits>>
    BY <1>2 DEF Modifiers!Look, Modifiers!requestVars
  <2>2. Books' BY <2>1 DEF ModifierInv, Books, Once, Recorded
  <2>3. rows[OpOf[k].slot] \in ModifierRow(born) BY <2>1 DEF ModifierInv, ModifierRows, ModifiersAssumed
  <2>4. rows[OpOf[k].slot].version \in Nat BY <2>3 DEF ModifierRow
  <2>5. NothingIsRemoved => ShownGrows'
    BY <2>1, <2>3, <2>4 DEF ModifierInv, ModifierRows, Seen, ShownGrows
  <2> QED BY <2>1, <2>2, <2>5 DEF ModifierInv, ModifierRows, Seen, Modifiers!EditsWhatItsAuthorSaw
<1>3. ASSUME NEW s \in Slots, Modifiers!Pass(s) PROVE ModifierInv'
  <2>1. /\ window' \in [Slots -> Modifiers!Windows]
        /\ UNCHANGED <<record, handler, applied, rows, born, edits, shown>>
    BY <1>3 DEF Modifiers!Pass, Modifiers!requestVars, ModifierInv, ModifierRows, Modifiers!Windows
  <2>2. Books' BY <2>1 DEF ModifierInv, Books, Once, Recorded
  <2> QED BY <2>1, <2>2
       DEF ModifierInv, ModifierRows, Seen, ShownGrows, Modifiers!EditsWhatItsAuthorSaw
<1>4. CASE Modifiers!EngineStops
  <2>1. UNCHANGED <<record, applied, rows, window, born, edits, shown>>
        /\ handler' = [h \in Handlers |-> Modifiers!Free]
    BY <1>4 DEF Modifiers!EngineStops, Modifiers!Crash, Modifiers!Keeps
  <2>2. Modifiers!Free.pc = "free" BY DEF Modifiers!Free
  <2>3. Books' BY <2>1, <2>2 DEF ModifierInv, Books, Once, Recorded
  <2> QED BY <2>1, <2>3, RowsKept
<1>5. CASE UNCHANGED Modifiers!vars
  <2>1. UNCHANGED <<record, handler, applied, rows, window, born, edits, shown>>
    BY <1>5 DEF Modifiers!vars, Modifiers!modifierVars, Modifiers!requestVars
  <2>2. Books' BY <2>1 DEF ModifierInv, Books, Once, Recorded
  <2> QED BY <2>1, <2>2, RowsKept
<1> QED BY <1>1, <1>2, <1>3, <1>4, <1>5, ServeModifier DEF Modifiers!Next

LEMMA ModifierInit == Modifiers!Init => ModifierInv
<1> SUFFICES ASSUME Modifiers!Init PROVE ModifierInv OBVIOUS
<1>1. Books BY DEF Modifiers!Init, Modifiers!RequestInit, Books, Once, Modifiers!Free
<1>2. ModifierRows BY DEF Modifiers!Init, ModifierRows, Modifiers!Windows
<1> QED BY <1>1, <1>2
     DEF Modifiers!Init, ModifierInv, Seen, ShownGrows, Modifiers!EditsWhatItsAuthorSaw

\* Whichever modifiers are given and changed, the rows of a player have their types
\* (player_modifiers), and each of them was made by a request of its own.
THEOREM ModifiersTypeCorrect ==
    ASSUME ModifiersAssumed PROVE Modifiers!Spec => []Modifiers!TypeOK
BY ModifierInit, ModifierStep, ModifierTypes, PTL DEF Modifiers!Spec

\* However often a request is sent, it changes a player's modifier once.
THEOREM ModifiersAreAppliedOnce ==
    ASSUME ModifiersAssumed PROVE Modifiers!Spec => []Modifiers!AppliedOnce
<1>1. ModifierInv => Modifiers!AppliedOnce BY DEF ModifierInv, Books, Once, Modifiers!AppliedOnce
<1> QED BY <1>1, ModifierInit, ModifierStep, PTL DEF Modifiers!Spec

\* "the backend rejects the stale form and no data is overwritten": an edit changes
\* exactly the row its author saw, as long as no row is removed and set again.
THEOREM ModifierEditsSaw ==
    ASSUME ModifiersAssumed, NothingIsRemoved
    PROVE  Modifiers!Spec => []Modifiers!EditsWhatItsAuthorSaw
<1>1. ModifierInv => Modifiers!EditsWhatItsAuthorSaw BY DEF ModifierInv, Seen
<1> QED BY <1>1, ModifierInit, ModifierStep, PTL DEF Modifiers!Spec

-----------------------------------------------------------------------------
(* The stock of a location's drops *)

CONSTANTS Items, Given, Rollers, MaxRolls, MaxQuantity, OldItems
VARIABLES defs, entries, roller, tableRow, older, made, oldItems

Catalog == INSTANCE ItemCatalog WITH locked <- tableRow, old <- oldItems

Drop == [id : Nat, version : Nat, stock : Nat \union {None}]

\* The markers are apart, a channel begins with a table whose entries have ids of
\* their own, and requests about drops carry what drops are.
CatalogAssumed ==
    /\ Catalog!CatalogAssumption
    /\ None \notin Drop \union Nat
    /\ None \notin [Items -> Drop \union {None}]
    /\ IsFiniteSet(Items)
    /\ Given.entries \in [Items -> Drop \union {None}]
    /\ \A i \in Items : Given.entries[i] # None => Given.entries[i].id <= Cardinality(Items)
    /\ \A i, j \in Items :
         /\ Given.entries[i] # None /\ Given.entries[j] # None
         /\ Given.entries[i].id = Given.entries[j].id
         => i = j
    /\ \A k \in Keys : OpOf[k].kind = "upsert_drop" => OpOf[k].item \in Items

\* Drops stay in the table, and none becomes unlimited.
DropsStay ==
    \A k \in Keys :
        /\ OpOf[k].kind # "remove_drop"
        /\ OpOf[k].kind = "upsert_drop" => OpOf[k].stock \in Nat

-----------------------------------------------------------------------------

Took == [id : Nat, item : Items, row : BOOLEAN, units : Nat]
Table == [Items -> Drop \union {None}]
RollerRow ==
    [pc : {"idle", "loaded", "selected", "done", "failed", "aborted"},
     seen : Table \union {None}, item : Items \union {None},
     quantity : Nat, rolls : Nat, took : SUBSET Took]

\* What a request is at; its copy may be anything.
Request(x) ==
    /\ DOMAIN x = {"pc", "key", "copy"}
    /\ x.pc # "free" => x.key \in Keys
RequestsServed == DOMAIN handler = Handlers /\ \A h \in Handlers : Request(handler[h])

\* Entries have ids of their own, which are never given again.
Numbered ==
    /\ made \in Nat
    /\ \A i \in Items : entries[i] # None => entries[i].id <= made
    /\ \A i, j \in Items :
         entries[i] # None /\ entries[j] # None /\ entries[i].id = entries[j].id => i = j

\* What a roll has read of the table is still there under its id, and limited
\* where it was.
Reads(r) ==
    LET seen == roller[r].seen IN
    /\ roller[r].pc \in {"loaded", "selected"} => seen # None
    /\ roller[r].pc = "selected" => roller[r].item \in Items /\ seen[roller[r].item] # None
    /\ seen # None => \A i \in Items : seen[i] # None =>
         /\ entries[i] # None /\ entries[i].id = seen[i].id
         /\ seen[i].stock # None => entries[i].stock # None

\* What a roll has taken: it holds the row of every limited entry it took from, and
\* took no more than is there.
Takes(r) ==
    LET seen == roller[r].seen IN
    \A t \in roller[r].took :
        /\ seen # None /\ seen[t.item] # None /\ seen[t.item].id = t.id
        /\ seen[t.item].stock # None => t.row
        /\ t.row => entries[t.item].stock # None /\ t.units <= entries[t.item].stock
        /\ \A s \in roller[r].took : s.id = t.id => s = t

\* A stock row is held by one roll.
HeldByOne ==
    \A r, s \in Rollers : \A t \in roller[r].took, u \in roller[s].took :
        t.row /\ u.row /\ t.id = u.id => r = s

CatInv ==
    /\ entries \in Table
    /\ roller \in [Rollers -> RollerRow]
    /\ RequestsServed
    /\ Numbered
    /\ \A r \in Rollers : Reads(r) /\ Takes(r)
    /\ HeldByOne

LEMMA SameCount == \A S : Catalog!Cardinality(S) = Cardinality(S)
BY DEF Catalog!Cardinality, Cardinality

LEMMA IdleTyped ==
    /\ Catalog!Idle \in RollerRow /\ Catalog!Idle.took = {} /\ Catalog!Idle.seen = None
    /\ Catalog!Idle.pc = "idle"
BY DEF Catalog!Idle, RollerRow, Took

LEMMA CatInit == CatalogAssumed /\ Catalog!Init => CatInv
<1> SUFFICES ASSUME CatalogAssumed, Catalog!Init PROVE CatInv OBVIOUS
<1>1. entries = Given.entries /\ entries \in Table /\ made = Cardinality(Items)
  BY SameCount DEF Catalog!Init, CatalogAssumed, Table
<1>2. Numbered BY <1>1, FS_CardinalityType DEF Numbered, CatalogAssumed
<1>3. \A r \in Rollers : roller[r] = Catalog!Idle BY DEF Catalog!Init
<1>4. roller \in [Rollers -> RollerRow] BY IdleTyped DEF Catalog!Init
<1>5. RequestsServed
  BY DEF RequestsServed, Request, Catalog!Init, Catalog!RequestInit, Catalog!Free
<1>6. \A r \in Rollers : Reads(r) /\ Takes(r) BY <1>3, IdleTyped DEF Reads, Takes
<1>7. HeldByOne BY <1>3, IdleTyped DEF HeldByOne
<1> QED BY <1>1, <1>2, <1>4, <1>5, <1>6, <1>7 DEF CatInv

-----------------------------------------------------------------------------

LEMMA RequestEnds ==
    ASSUME NEW h \in Handlers, RequestsServed,
           \E x : Catalog!Commit(h, x) \/ Catalog!Refuse(h, x) \/ Catalog!Clash(h)
    PROVE  RequestsServed'
<1>1. handler' = [handler EXCEPT ![h] = Catalog!Free]
  BY DEF Catalog!Commit, Catalog!Refuse, Catalog!Clash
<1>2. Request(Catalog!Free) BY DEF Request, Catalog!Free
<1> QED BY <1>1, <1>2 DEF RequestsServed

LEMMA RequestLoads ==
    ASSUME NEW h \in Handlers, RequestsServed, handler[h].pc # "free",
           NEW x, Catalog!LoadCopy(h, x)
    PROVE  RequestsServed'
<1> DEFINE new == [handler[h] EXCEPT !.pc = "loaded", !.copy = x]
<1>1. DOMAIN handler[h] = {"pc", "key", "copy"} /\ handler[h].key \in Keys
  BY DEF RequestsServed, Request
<1>2. new.key = handler[h].key BY <1>1
<1>3. handler' = [handler EXCEPT ![h] = new] BY DEF Catalog!LoadCopy
<1>4. Request(new) BY <1>1, <1>2 DEF Request
<1> HIDE DEF new
<1> QED BY <1>3, <1>4 DEF RequestsServed

LEMMA RequestReceived ==
    ASSUME NEW h \in Handlers, NEW k \in Keys, RequestsServed, Catalog!Receive(h, k)
    PROVE  RequestsServed'
<1> DEFINE new == [Catalog!Free EXCEPT !.pc = "asked", !.key = k]
<1>1. handler' = handler \/ handler' = [handler EXCEPT ![h] = new] BY DEF Catalog!Receive
<1>2. DOMAIN new = {"pc", "key", "copy"} /\ new.key = k BY DEF Catalog!Free
<1>3. Request(new) BY <1>2 DEF Request
<1> HIDE DEF new
<1> QED BY <1>1, <1>3 DEF RequestsServed

\* What does not touch the table or a roll changes nothing of them.
LEMMA NothingRolled ==
    ASSUME CatInv, UNCHANGED <<entries, roller, made>>, RequestsServed'
    PROVE  CatInv'
BY DEF CatInv, Numbered, Reads, Takes, HeldByOne

\* An entry that is edited, or made, is one no roll holds.
LEMMA EditedDrop ==
    ASSUME CatalogAssumed, CatInv, NEW i \in Items, NEW n \in Nat,
           Catalog!StockFree(i), RequestsServed', UNCHANGED roller,
           \/ /\ entries[i] = None /\ made' = made + 1
              /\ entries' = [entries EXCEPT ![i] = [id |-> made + 1, version |-> 1, stock |-> n]]
           \/ /\ entries[i] # None /\ made' = made
              /\ entries' = [entries EXCEPT ![i] = [entries[i] EXCEPT !.version = @ + 1, !.stock = n]]
    PROVE  CatInv'
<1> DEFINE new == entries'[i]
<1>0. entries \in Table /\ made \in Nat BY DEF CatInv, Numbered
<1>1. /\ new \in Drop /\ new.stock = n /\ new # None
      /\ entries[i] # None => new.id = entries[i].id
      /\ entries[i] = None => new.id = made + 1
  <2>1. CASE entries[i] = None
    <3>1. new = [id |-> made + 1, version |-> 1, stock |-> n] BY <1>0, <2>1 DEF Table
    <3> QED BY <1>0, <2>1, <3>1 DEF Drop, CatalogAssumed
  <2>2. CASE entries[i] # None
    <3>1. entries[i] \in Drop BY <1>0, <2>2 DEF Table
    <3>2. new = [entries[i] EXCEPT !.version = @ + 1, !.stock = n] BY <1>0, <2>2 DEF Table
    <3>3. new = [id |-> entries[i].id, version |-> entries[i].version + 1, stock |-> n]
      BY <3>1, <3>2 DEF Drop
    <3>4. entries[i].id \in Nat /\ entries[i].version + 1 \in Nat BY <3>1 DEF Drop
    <3>5. new \in Drop
      <4> HIDE DEF new
      <4> QED BY <3>3, <3>4 DEF Drop
    <3> QED BY <2>2, <3>3, <3>5 DEF CatalogAssumed
  <2> QED BY <2>1, <2>2
<1>2. entries' \in Table /\ \A j \in Items \ {i} : entries'[j] = entries[j]
  BY <1>0, <1>1 DEF Table
<1> HIDE DEF new
<1>3. new = entries'[i] BY DEF new
<1>4. Numbered'
  <2>1. made' \in Nat /\ made <= made' /\ (entries[i] = None => made' = made + 1)
    BY <1>0
  <2>2. \A j \in Items : entries[j] # None => entries[j].id \in Nat /\ entries[j].id <= made
    BY <1>0 DEF CatInv, Numbered, Table, Drop
  <2>3. \A j \in Items : entries'[j] # None => entries'[j].id <= made'
    BY <1>0, <1>1, <1>2, <1>3, <2>1, <2>2
  <2>4. ASSUME NEW j \in Items, NEW l \in Items, entries'[j] # None, entries'[l] # None,
               entries'[j].id = entries'[l].id
        PROVE  j = l
    <3>1. CASE entries[i] # None
      <4>1. \A m \in {j, l} : entries[m] # None /\ entries[m].id = entries'[m].id
        BY <1>1, <1>2, <1>3, <2>4, <3>1
      <4> QED BY <2>4, <4>1 DEF CatInv, Numbered
    <3>2. CASE entries[i] = None
      <4>1. \A m \in {j, l} : m # i => entries[m] # None /\ entries'[m].id = entries[m].id
                                       /\ entries'[m].id # made + 1
        BY <1>0, <1>2, <2>2, <2>4
      <4>2. entries'[i].id = made + 1 BY <1>1, <1>3, <3>2
      <4> QED BY <2>4, <4>1, <4>2 DEF CatInv, Numbered
    <3> QED BY <3>1, <3>2
  <2> QED BY <2>1, <2>3, <2>4 DEF Numbered
<1>5. ASSUME NEW r \in Rollers PROVE Reads(r)' /\ Takes(r)'
  <2>0. /\ Reads(r) /\ Takes(r) /\ roller'[r] = roller[r] /\ roller[r] \in RollerRow
        /\ None \notin Nat
    BY DEF CatInv, CatalogAssumed
  <2>1. Reads(r)' BY <1>1, <1>2, <1>3, <2>0 DEF Reads
  <2>2. \A t \in roller[r].took : t.row => t.item # i
    <3> SUFFICES ASSUME NEW t \in roller[r].took, t.row, t.item = i PROVE FALSE OBVIOUS
    <3>1. entries[i] # None /\ entries[i].id = t.id BY <2>0 DEF Reads, Takes
    <3> QED BY <3>1 DEF Catalog!StockFree, Catalog!Exists, Catalog!Holds
  <2>3. \A t \in roller[r].took : t.item \in Items BY <2>0 DEF RollerRow, Took
  <2>4. Takes(r)' BY <1>2, <2>0, <2>2, <2>3 DEF Takes
  <2> QED BY <2>1, <2>4
<1>6. HeldByOne' BY DEF CatInv, HeldByOne
<1>7. roller' \in [Rollers -> RollerRow] BY DEF CatInv
<1> QED BY <1>2, <1>4, <1>5, <1>6, <1>7 DEF CatInv

LEMMA ServeCatalog ==
    ASSUME CatalogAssumed, DropsStay, CatInv, NEW h \in Handlers, Catalog!Serve(h)
    PROVE  CatInv'
<1>0. RequestsServed /\ Request(handler[h]) BY DEF CatInv, RequestsServed
<1>1. CASE Catalog!Load(h)
  <2>1. RequestsServed' BY <1>0, <1>1, RequestLoads DEF Catalog!Load
  <2> QED BY <1>1, <2>1, NothingRolled DEF Catalog!Load
<1>2. CASE Catalog!UpsertItem(h) \/ Catalog!ArchiveItem(h)
  <2>1. \E why, d : Catalog!Conclude(h, why, d, entries) /\ UNCHANGED made
    BY <1>2 DEF Catalog!UpsertItem, Catalog!ArchiveItem
  <2>2. RequestsServed' BY <1>0, <2>1, RequestEnds DEF Catalog!Conclude
  <2>3. UNCHANGED <<entries, roller, made>> BY <2>1 DEF Catalog!Conclude
  <2> QED BY <2>2, <2>3, NothingRolled
<1>3. CASE Catalog!RemoveDrop(h)
  BY <1>0, <1>3 DEF Catalog!RemoveDrop, Catalog!Serves, Catalog!Op, DropsStay, Request
<1>4. CASE Catalog!UpsertDrop(h)
  <2> DEFINE i == Catalog!Op(h).item
             n == Catalog!Op(h).stock
             new == IF entries[i] = None THEN [id |-> made + 1, version |-> 1, stock |-> n]
                    ELSE [entries[i] EXCEPT !.version = @ + 1, !.stock = n]
  <2>1. i \in Items /\ n \in Nat /\ Catalog!StockFree(i)
    BY <1>0, <1>4 DEF Catalog!UpsertDrop, Catalog!Serves, Catalog!Op, DropsStay, CatalogAssumed, Request
  <2>2. /\ \E why : Catalog!Conclude(h, why, defs, [entries EXCEPT ![i] = new])
        /\ made' = IF entries' # entries /\ entries[i] = None THEN made + 1 ELSE made
    BY <1>4 DEF Catalog!UpsertDrop
  <2>3. RequestsServed' BY <1>0, <2>2, RequestEnds DEF Catalog!Conclude
  <2>4. UNCHANGED roller /\ (UNCHANGED entries \/ entries' = [entries EXCEPT ![i] = new])
    BY <2>2 DEF Catalog!Conclude
  <2> HIDE DEF i, n
  <2>5. CASE UNCHANGED entries BY <2>2, <2>3, <2>4, <2>5, NothingRolled
  <2>6. CASE entries' = [entries EXCEPT ![i] = new] /\ ~ UNCHANGED entries
    BY <2>1, <2>2, <2>3, <2>4, <2>6, EditedDrop
  <2> QED BY <2>4, <2>5, <2>6
<1> QED BY <1>1, <1>2, <1>3, <1>4 DEF Catalog!Serve

-----------------------------------------------------------------------------

\* The rows a roll holds, and the units it reserved of each.
LEMMA ReservedUnits ==
    ASSUME CatalogAssumed, CatInv, NEW r \in Rollers, NEW id
    PROVE  /\ Catalog!Holds(r, id) =>
                \E t \in roller[r].took : t.row /\ t.id = id /\ Catalog!Reserved(r, id) = t.units
           /\ ~ Catalog!Holds(r, id) => Catalog!Reserved(r, id) = 0
           /\ \A t \in roller[r].took : t.id = id /\ t.row =>
                Catalog!Holds(r, id) /\ Catalog!Reserved(r, id) = t.units
<1>1. Takes(r) BY DEF CatInv
<1>2. ASSUME NEW t \in roller[r].took, t.row, t.id = id
      PROVE  Catalog!Holds(r, id) /\ Catalog!Reserved(r, id) = t.units
  <2>1. Catalog!Holds(r, id) BY <1>2 DEF Catalog!Holds
  <2>2. \A u \in roller[r].took : u.id = id <=> u = t BY <1>1, <1>2 DEF Takes
  <2>3. (CHOOSE u \in roller[r].took : u.id = id) = t BY <1>2, <2>2
  <2> QED BY <2>1, <2>3 DEF Catalog!Reserved
<1>3. ~ Catalog!Holds(r, id) => Catalog!Reserved(r, id) = 0 BY DEF Catalog!Reserved
<1> QED BY <1>2, <1>3 DEF Catalog!Holds

\* A roll that goes on to another point of its program keeps what it read and took.
LEMMA RollerMoves ==
    ASSUME CatalogAssumed, CatInv, NEW r \in Rollers, NEW new \in RollerRow,
           roller' = [roller EXCEPT ![r] = new],
           UNCHANGED <<requestVars, entries, made>>,
           new.took = {} \/ (new.took = roller[r].took /\ new.seen = roller[r].seen),
           new.seen \in {None, entries, roller[r].seen},
           new.pc \in {"loaded", "selected"} => new.seen # None,
           new.pc = "selected" => new.item \in Items /\ new.seen[new.item] # None
    PROVE  CatInv'
<1>1. entries \in Table /\ entries # None /\ Reads(r) /\ Takes(r)
  BY DEF CatInv, CatalogAssumed, Table
<1>2. roller'[r] = new /\ \A s \in Rollers \ {r} : roller'[s] = roller[s] BY DEF CatInv
<1>3. Reads(r)' BY <1>1, <1>2 DEF Reads
<1>4. Takes(r)' BY <1>1, <1>2 DEF Takes
<1>5. \A s \in Rollers \ {r} : Reads(s)' /\ Takes(s)' BY <1>2 DEF CatInv, Reads, Takes
<1>6. HeldByOne' BY <1>2 DEF CatInv, HeldByOne
<1>7. roller' \in [Rollers -> RollerRow] BY DEF CatInv
<1>8. RequestsServed' /\ Numbered' BY DEF CatInv, requestVars, RequestsServed, Numbered
<1> QED BY <1>1, <1>3, <1>4, <1>5, <1>6, <1>7, <1>8 DEF CatInv

LEMMA StartSelectAbort ==
    ASSUME CatalogAssumed, CatInv, NEW r \in Rollers,
           Catalog!Start(r) \/ Catalog!Select(r) \/ Catalog!Abort(r)
    PROVE  CatInv'
<1>0. roller[r] \in RollerRow /\ Reads(r) /\ entries \in Table /\ entries # None
  BY DEF CatInv, CatalogAssumed, Table
<1>1. CASE Catalog!Start(r)
  <2> DEFINE new == [Catalog!Idle EXCEPT !.pc = "loaded", !.seen = entries]
  <2>1. roller' = [roller EXCEPT ![r] = new] /\ UNCHANGED <<requestVars, entries, made>>
    BY <1>1 DEF Catalog!Start, Catalog!requestVars, requestVars
  <2>2. new.pc = "loaded" /\ new.seen = entries /\ new.took = {} /\ new \in RollerRow
    BY <1>0 DEF Catalog!Idle, RollerRow
  <2> HIDE DEF new
  <2> QED BY <1>0, <2>1, <2>2, RollerMoves
<1>2. CASE Catalog!Select(r)
  <2>1. PICK i \in Catalog!Candidates(r), q \in 1 .. MaxQuantity :
          roller' = [roller EXCEPT ![r].pc = "selected", ![r].item = i, ![r].quantity = q]
    BY <1>2 DEF Catalog!Select
  <2> DEFINE new == [roller[r] EXCEPT !.pc = "selected", !.item = i, !.quantity = q]
  <2>2. roller' = [roller EXCEPT ![r] = new] /\ UNCHANGED <<requestVars, entries, made>>
    BY <1>2, <2>1 DEF Catalog!Select, Catalog!requestVars, requestVars, CatInv
  <2>3. i \in Items /\ roller[r].seen[i] # None /\ roller[r].pc = "loaded" /\ q \in Nat
    <3>1. MaxQuantity \in Nat BY DEF CatalogAssumed, Catalog!CatalogAssumption
    <3>2. q \in Nat BY <2>1, <3>1
    <3>3. i \in Items /\ roller[r].seen[i] # None
      BY <2>1 DEF Catalog!Candidates, Catalog!Exists
    <3> QED BY <1>2, <3>2, <3>3 DEF Catalog!Select
  <2>4. roller[r].seen # None BY <1>0, <2>3 DEF Reads
  <2>5. new \in RollerRow BY <1>0, <2>3 DEF RollerRow
  <2>6. new.pc = "selected" /\ new.item = i /\ new.seen = roller[r].seen /\ new.took = roller[r].took
    BY <1>0 DEF RollerRow
  <2> HIDE DEF new
  <2> QED BY <2>2, <2>3, <2>4, <2>5, <2>6, RollerMoves
<1>3. CASE Catalog!Abort(r)
  <2> DEFINE new == [Catalog!Idle EXCEPT !.pc = "aborted"]
  <2>1. roller' = [roller EXCEPT ![r] = new] /\ UNCHANGED <<requestVars, entries, made>>
    BY <1>3 DEF Catalog!Abort, Catalog!requestVars, requestVars
  <2>2. new.pc = "aborted" /\ new.seen = None /\ new.took = {} /\ new \in RollerRow
    BY DEF Catalog!Idle, RollerRow
  <2> HIDE DEF new
  <2> QED BY <2>1, <2>2, RollerMoves
<1> QED BY <1>1, <1>2, <1>3

\* What a roll took was of the entry that still has the id.
LEMMA OwnEntry ==
    ASSUME CatInv, NEW r \in Rollers, NEW t \in roller[r].took
    PROVE  /\ t \in Took /\ entries[t.item] # None /\ entries[t.item].id = t.id
           /\ \A i \in Items : entries[i] # None /\ entries[i].id = t.id => t.item = i
<1>1. t \in Took /\ t.item \in Items BY DEF CatInv, RollerRow, Took
<1>2. entries[t.item] # None /\ entries[t.item].id = t.id BY <1>1 DEF CatInv, Reads, Takes
<1> QED BY <1>1, <1>2 DEF CatInv, Numbered

\* No more is reserved of a limited entry than there is.
LEMMA ReservedFits ==
    ASSUME CatalogAssumed, CatInv, NEW r \in Rollers, NEW i \in Items,
           entries[i] # None, entries[i].stock # None
    PROVE  /\ Catalog!Reserved(r, entries[i].id) \in Nat
           /\ entries[i].stock \in Nat
           /\ Catalog!Reserved(r, entries[i].id) <= entries[i].stock
<1>0. entries[i].stock \in Nat BY DEF CatInv, Table, Drop
<1>1. CASE Catalog!Holds(r, entries[i].id)
  <2>1. PICK t \in roller[r].took : t.row /\ t.id = entries[i].id
                                 /\ Catalog!Reserved(r, entries[i].id) = t.units
    BY <1>1, ReservedUnits
  <2>2. t.item = i /\ t.units \in Nat BY <2>1, OwnEntry DEF Took
  <2>3. t.units <= entries[i].stock BY <2>1, <2>2 DEF CatInv, Takes
  <2> QED BY <1>0, <2>1, <2>2, <2>3
<1>2. CASE ~ Catalog!Holds(r, entries[i].id) BY <1>0, <1>2, ReservedUnits
<1> QED BY <1>1, <1>2

LEMMA ReserveKeeps ==
    ASSUME CatalogAssumed, CatInv, NEW r \in Rollers, Catalog!Reserve(r)
    PROVE  CatInv'
<1> DEFINE i == roller[r].item
           seen == roller[r].seen
           id == seen[i].id
           reserved == Catalog!Reserved(r, id)
           left == Catalog!Remaining(r)
           units == CASE left = None -> roller[r].quantity
                      [] left # None /\ left < roller[r].quantity -> left
                      [] OTHER -> roller[r].quantity
           n == [id |-> id, item |-> i, row |-> left # None, units |-> reserved + units]
           took == {t \in roller[r].took : t.id # id} \union {n}
           read == IF left = None THEN seen ELSE [seen EXCEPT ![i].stock = left - units]
           new == [roller[r] EXCEPT !.pc = "loaded", !.took = took, !.item = None, !.quantity = 0,
                                    !.rolls = @ + 1, !.seen = read]
<1>1. roller' = [roller EXCEPT ![r] = new] /\ UNCHANGED <<requestVars, entries, made>>
  BY DEF Catalog!Reserve, Catalog!Wanted, Catalog!requestVars, requestVars
<1>2. /\ roller[r] \in RollerRow /\ Reads(r) /\ Takes(r) /\ roller[r].pc = "selected"
      /\ entries \in Table /\ None \notin Nat /\ None \notin Table
  BY DEF CatInv, CatalogAssumed, Table, Catalog!Reserve
<1>3. /\ i \in Items /\ seen \in Table /\ seen # None /\ seen[i] \in Drop /\ seen[i] # None
      /\ entries[i] # None /\ entries[i] \in Drop
      /\ entries[i].id = id /\ id \in Nat
      /\ seen[i].stock # None => entries[i].stock # None
  <2>1. i \in Items /\ seen \in Table /\ seen # None /\ seen[i] # None
    BY <1>2 DEF Reads, RollerRow
  <2>2. entries[i] # None /\ entries[i].id = id /\ (seen[i].stock # None => entries[i].stock # None)
    BY <1>2, <2>1 DEF Reads
  <2>3. seen[i] \in Drop /\ entries[i] \in Drop BY <1>2, <2>1, <2>2 DEF Table
  <2> QED BY <2>1, <2>2, <2>3 DEF Drop
<1>4. left = IF entries[i].stock = None THEN None ELSE entries[i].stock - reserved
  BY <1>3 DEF Catalog!Remaining, Catalog!Found, Catalog!Wanted, Catalog!Exists
<1>5. reserved \in Nat
  <2>1. CASE Catalog!Holds(r, id)
    <3>1. PICK t \in roller[r].took : reserved = t.units BY <2>1, ReservedUnits
    <3> QED BY <3>1, OwnEntry DEF Took
  <2> QED BY <2>1, ReservedUnits
<1>6. entries[i].stock # None =>
        entries[i].stock \in Nat /\ reserved <= entries[i].stock /\ left \in Nat
  BY <1>2, <1>3, <1>4, <1>5, ReservedFits
<1>7. roller[r].quantity \in Nat /\ roller[r].rolls + 1 \in Nat BY <1>2 DEF RollerRow
<1>8. /\ left # None <=> entries[i].stock # None
      /\ units \in Nat
      /\ left # None => left - units \in Nat /\ reserved + units <= entries[i].stock
  <2> HIDE DEF left, reserved, i
  <2>1. CASE left = None BY <1>2, <1>4, <1>6, <1>7, <2>1
  <2>2. CASE left # None
    <3>1. entries[i].stock # None /\ left \in Nat /\ left = entries[i].stock - reserved
      BY <1>4, <1>6, <2>2
    <3>2. units \in Nat /\ units <= left BY <1>7, <3>1, <2>2
    <3> QED BY <1>5, <1>6, <2>2, <3>1, <3>2
  <2> QED BY <2>1, <2>2
<1>9. n \in Took /\ n.id = id /\ n.item = i /\ (n.row <=> left # None) /\ n.units = reserved + units
  <2> HIDE DEF left, reserved, i, units, id
  <2>1. reserved + units \in Nat BY <1>5, <1>8
  <2> QED BY <1>3, <2>1 DEF Took
<1>10. /\ read \in Table /\ read # None /\ read[i] # None /\ read[i].id = id
       /\ \A j \in Items \ {i} : read[j] = seen[j]
       /\ read[i].stock # None => left # None
  <2> HIDE DEF left, i, units, id, seen
  <2>1. CASE left = None BY <1>3, <1>8, <2>1 DEF id
  <2>2. CASE left # None
    <3> DEFINE drop == [seen[i] EXCEPT !.stock = left - units]
    <3>1. drop \in Drop /\ drop.id = id BY <1>3, <1>8, <2>2 DEF Drop, id
    <3>2. drop # None BY <3>1 DEF CatalogAssumed
    <3> HIDE DEF drop
    <3>3. read = [seen EXCEPT ![i] = drop] BY <2>2 DEF drop
    <3>4. read \in Table BY <1>3, <3>1, <3>3 DEF Table
    <3> QED BY <1>2, <1>3, <2>2, <3>1, <3>2, <3>3, <3>4 DEF Table
  <2> QED BY <2>1, <2>2
<1>11. took \subseteq Took BY <1>2, <1>9 DEF RollerRow
<1> HIDE DEF left, reserved, units, n, read
<1>12. new \in RollerRow /\ new.pc = "loaded" /\ new.took = took /\ new.seen = read
  <2> HIDE DEF took
  <2> QED BY <1>2, <1>7, <1>10, <1>11 DEF RollerRow
<1> HIDE DEF new
<1>13. roller'[r] = new /\ \A s \in Rollers \ {r} : roller'[s] = roller[s] BY <1>1 DEF CatInv
<1>14. Reads(r)'
  <2>1. \A j \in Items : read[j] # None =>
           /\ entries[j] # None /\ entries[j].id = read[j].id
           /\ read[j].stock # None => entries[j].stock # None
    <3> HIDE DEF i, id, seen
    <3>1. \A j \in Items \ {i} : seen[j] # None =>
           /\ entries[j] # None /\ entries[j].id = seen[j].id
           /\ seen[j].stock # None => entries[j].stock # None
      BY <1>2, <1>3 DEF Reads, seen
    <3> QED BY <1>3, <1>8, <1>10, <3>1
  <2> QED BY <1>1, <1>10, <1>12, <1>13, <2>1 DEF Reads
<1>15. Takes(r)'
  <2> SUFFICES ASSUME NEW t \in took
               PROVE  /\ read[t.item] # None /\ read[t.item].id = t.id
                      /\ read[t.item].stock # None => t.row
                      /\ t.row => entries[t.item].stock # None /\ t.units <= entries[t.item].stock
                      /\ \A s \in took : s.id = t.id => s = t
    BY <1>1, <1>10, <1>12, <1>13 DEF Takes
  <2> HIDE DEF i, id, seen
  <2>1. CASE t = n BY <1>3, <1>8, <1>9, <1>10, <2>1
  <2>2. CASE t # n
    <3>1. t \in roller[r].took /\ t.id # id BY <2>2
    <3>2. /\ seen[t.item] # None /\ seen[t.item].id = t.id
          /\ seen[t.item].stock # None => t.row
          /\ t.row => entries[t.item].stock # None /\ t.units <= entries[t.item].stock
          /\ \A s \in roller[r].took : s.id = t.id => s = t
      BY <1>2, <3>1 DEF Takes, seen
    <3>3. t.item \in Items /\ t.item # i BY <1>3, <1>11, <3>1, <3>2 DEF Took, id
    <3> QED BY <1>9, <1>10, <3>1, <3>2, <3>3
  <2> QED BY <2>1, <2>2
<1>16. \A s \in Rollers \ {r} : Reads(s)' /\ Takes(s)' BY <1>1, <1>13 DEF CatInv, Reads, Takes
<1>17. HeldByOne'
  <2>1. ASSUME NEW s \in Rollers \ {r}, NEW u \in roller[s].took, u.row PROVE u.id # id
    BY <1>2, <2>1 DEF Catalog!Reserve, Catalog!Waits, Catalog!Holds, Catalog!Wanted
  <2>2. ASSUME NEW s \in Rollers \ {r}, NEW u \in roller[s].took, u.row,
               NEW t \in took, t.row
        PROVE  u.id # t.id
    <3>1. CASE t = n BY <1>9, <2>1, <2>2, <3>1
    <3>2. CASE t # n
      <4>1. t \in roller[r].took BY <3>2
      <4> QED BY <2>2, <4>1 DEF CatInv, HeldByOne
    <3> QED BY <3>1, <3>2
  <2> HIDE DEF took
  <2> QED BY <1>12, <1>13, <2>2 DEF CatInv, HeldByOne
<1>18. RequestsServed' /\ Numbered' /\ entries' \in Table /\ roller' \in [Rollers -> RollerRow]
  BY <1>1, <1>12 DEF CatInv, requestVars, RequestsServed, Numbered
<1> QED BY <1>14, <1>15, <1>16, <1>17, <1>18 DEF CatInv

\* A roll that ends takes from each limited entry what it reserved there, and from
\* the entries whose rows others hold nothing.
LEMMA FinishTakes ==
    ASSUME CatalogAssumed, CatInv, NEW r \in Rollers, Catalog!Finish(r), NEW i \in Items
    PROVE  /\ entries'[i] \in Drop \union {None}
           /\ entries'[i] # None <=> entries[i] # None
           /\ entries[i] # None =>
                /\ entries'[i].id = entries[i].id
                /\ entries'[i].stock # None <=> entries[i].stock # None
           /\ \A s \in Rollers : \A t \in roller[s].took : t.row /\ t.item = i =>
                IF s = r /\ Catalog!Deliverable(r)
                THEN entries'[i].stock = entries[i].stock - t.units
                ELSE entries'[i] = entries[i]
<1> DEFINE x == Catalog!Reserved(r, entries[i].id)
<1>0. entries[i] \in Drop \union {None} /\ None \notin Nat /\ None \notin Drop
  BY DEF CatInv, Table, CatalogAssumed
<1>1. CASE ~ Catalog!Deliverable(r) \/ entries[i] = None \/ entries[i].stock = None
  <2>1. entries'[i] = entries[i] BY <1>1 DEF Catalog!Finish, Catalog!Exists
  <2>2. \A s \in Rollers : \A t \in roller[s].took : t.row /\ t.item = i =>
           entries[i] # None /\ entries[i].stock # None
    BY OwnEntry DEF CatInv, Takes
  <2> QED BY <1>0, <1>1, <2>1, <2>2
<1>2. CASE Catalog!Deliverable(r) /\ entries[i] # None /\ entries[i].stock # None
  <2>1. entries'[i] = [entries[i] EXCEPT !.stock = entries[i].stock - x]
    BY <1>2 DEF Catalog!Finish, Catalog!Exists
  <2>2. x \in Nat /\ entries[i].stock \in Nat /\ x <= entries[i].stock BY <1>2, ReservedFits
  <2>3. \A s \in Rollers : \A t \in roller[s].took : t.row /\ t.item = i =>
           IF s = r THEN x = t.units ELSE x = 0
    <3> SUFFICES ASSUME NEW s \in Rollers, NEW t \in roller[s].took, t.row, t.item = i
                 PROVE  IF s = r THEN x = t.units ELSE x = 0
      OBVIOUS
    <3>1. entries[i].id = t.id BY OwnEntry
    <3>2. CASE s = r BY <3>1, <3>2, ReservedUnits
    <3>3. CASE s # r
      <4>1. ~ Catalog!Holds(r, t.id)
        BY <3>3 DEF Catalog!Holds, CatInv, HeldByOne
      <4> QED BY <3>1, <3>3, <4>1, ReservedUnits
    <3> QED BY <3>2, <3>3
  <2> HIDE DEF x
  <2> DEFINE new == [entries[i] EXCEPT !.stock = entries[i].stock - x]
  <2>4. /\ new \in Drop /\ new.id = entries[i].id /\ new.stock = entries[i].stock - x
        /\ x = 0 => new = entries[i]
    BY <1>0, <1>2, <2>2 DEF Drop
  <2>5. new # None /\ new.stock # None BY <1>0, <2>2, <2>4
  <2> HIDE DEF new
  <2>6. entries'[i] = new BY <2>1 DEF new
  <2> QED BY <1>2, <2>3, <2>4, <2>5, <2>6
<1> QED BY <1>1, <1>2

LEMMA FinishKeeps ==
    ASSUME CatalogAssumed, CatInv, NEW r \in Rollers, Catalog!Finish(r)
    PROVE  CatInv'
<1> DEFINE new == [Catalog!Idle EXCEPT !.pc = IF Catalog!Deliverable(r) THEN "done" ELSE "failed"]
<1>1. roller' = [roller EXCEPT ![r] = new] /\ UNCHANGED <<requestVars, made>>
  BY DEF Catalog!Finish, Catalog!requestVars, requestVars
<1>2. new.pc \in {"done", "failed"} /\ new.seen = None /\ new.took = {} /\ new \in RollerRow
  BY DEF Catalog!Idle, RollerRow
<1> HIDE DEF new
<1>3. roller'[r] = new /\ \A s \in Rollers \ {r} : roller'[s] = roller[s] BY <1>1 DEF CatInv
<1>4. entries' \in Table
  <2>1. DOMAIN entries' = Items /\ entries' = [i \in Items |-> entries'[i]]
    BY DEF Catalog!Finish, CatInv, Table
  <2>2. \A i \in Items : entries'[i] \in Drop \union {None} BY FinishTakes
  <2> QED BY <2>1, <2>2 DEF Table
<1>5. \A i \in Items :
        /\ entries'[i] # None <=> entries[i] # None
        /\ entries[i] # None =>
             /\ entries'[i].id = entries[i].id
             /\ entries'[i].stock # None <=> entries[i].stock # None
  BY FinishTakes
<1>6. Numbered' BY <1>1, <1>5 DEF CatInv, Numbered
<1>7. ASSUME NEW s \in Rollers PROVE Reads(s)' /\ Takes(s)'
  <2>1. CASE s = r BY <1>2, <1>3, <2>1 DEF Reads, Takes
  <2>2. CASE s # r
    <3>1. Reads(s)' BY <1>3, <1>5, <2>2 DEF CatInv, Reads
    <3>2. \A t \in roller[s].took : t.row => entries'[t.item] = entries[t.item]
      BY <2>2, FinishTakes, OwnEntry DEF Took
    <3>3. Takes(s)' BY <1>3, <2>2, <3>2 DEF CatInv, Takes
    <3> QED BY <3>1, <3>3
  <2> QED BY <2>1, <2>2
<1>8. HeldByOne' BY <1>2, <1>3 DEF CatInv, HeldByOne
<1>9. RequestsServed' /\ roller' \in [Rollers -> RollerRow]
  BY <1>1, <1>2 DEF CatInv, requestVars, RequestsServed
<1> QED BY <1>4, <1>6, <1>7, <1>8, <1>9 DEF CatInv

LEMMA CatStep == CatalogAssumed /\ DropsStay /\ CatInv /\ [Catalog!Next]_(Catalog!vars) => CatInv'
<1> SUFFICES ASSUME CatalogAssumed, DropsStay, CatInv, [Catalog!Next]_(Catalog!vars) PROVE CatInv'
  OBVIOUS
<1>1. ASSUME NEW h \in Handlers, NEW k \in Keys, Catalog!Receive(h, k), UNCHANGED Catalog!catalogVars
      PROVE  CatInv'
  <2>1. RequestsServed' BY <1>1, RequestReceived DEF CatInv
  <2> QED BY <1>1, <2>1, NothingRolled DEF Catalog!catalogVars
<1>2. CASE (\E new \in OldItems : Catalog!OldReads(new)) \/ Catalog!OldWrites \/ UNCHANGED Catalog!vars
  <2>1. UNCHANGED <<handler, entries, roller, made>>
    BY <1>2 DEF Catalog!OldReads, Catalog!OldWrites, Catalog!vars, Catalog!catalogVars, Catalog!requestVars
  <2>2. RequestsServed' BY <2>1 DEF CatInv, RequestsServed
  <2> QED BY <2>1, <2>2, NothingRolled
<1>3. CASE Catalog!EngineStops
  <2>1. UNCHANGED <<entries, made>> /\ \A r \in Rollers : roller'[r] \in {roller[r], Catalog!Idle}
    BY <1>3 DEF Catalog!EngineStops
  <2>2. roller' \in [Rollers -> RollerRow]
    BY <1>3, IdleTyped DEF Catalog!EngineStops, CatInv
  <2>3. RequestsServed'
    BY <1>3 DEF Catalog!EngineStops, Catalog!Crash, RequestsServed, Request, Catalog!Free
  <2>4. ASSUME NEW r \in Rollers PROVE Reads(r)' /\ Takes(r)'
    <3>1. CASE roller'[r] = roller[r] BY <2>1, <3>1 DEF CatInv, Reads, Takes
    <3>2. CASE roller'[r] = Catalog!Idle BY <3>2, IdleTyped DEF Reads, Takes
    <3> QED BY <2>1, <3>1, <3>2
  <2>5. \A r \in Rollers : roller'[r].took \subseteq roller[r].took BY <2>1, IdleTyped
  <2>6. HeldByOne' BY <2>5 DEF CatInv, HeldByOne
  <2> QED BY <2>1, <2>2, <2>3, <2>4, <2>6 DEF CatInv, Numbered
<1> QED BY <1>1, <1>2, <1>3, ServeCatalog, StartSelectAbort, ReserveKeeps, FinishKeeps
     DEF Catalog!Next, Catalog!Roll

\* A roll ends with its drops only by its own commit.
LEMMA DoneByFinish ==
    ASSUME CatInv, [Catalog!Next]_(Catalog!vars), NEW r \in Rollers,
           roller[r].pc = "loaded", roller'[r].pc = "done"
    PROVE  Catalog!Finish(r) /\ Catalog!Deliverable(r)
<1>0. roller \in [Rollers -> RollerRow] BY DEF CatInv
<1>1. UNCHANGED roller => FALSE OBVIOUS
<1>2. ASSUME NEW h \in Handlers, Catalog!Serve(h) PROVE UNCHANGED roller
  <2>1. ASSUME NEW why, NEW d, NEW e, Catalog!Conclude(h, why, d, e) PROVE UNCHANGED roller
    BY <2>1 DEF Catalog!Conclude
  <2>2. CASE Catalog!Load(h) BY <2>2 DEF Catalog!Load
  <2>3. CASE Catalog!UpsertItem(h)
    <3>1. \E why, d, e : Catalog!Conclude(h, why, d, e) BY <2>3, Zenon DEF Catalog!UpsertItem
    <3> QED BY <2>1, <3>1
  <2>4. CASE Catalog!ArchiveItem(h)
    <3>1. \E why, d, e : Catalog!Conclude(h, why, d, e) BY <2>4, Zenon DEF Catalog!ArchiveItem
    <3> QED BY <2>1, <3>1
  <2>5. CASE Catalog!UpsertDrop(h)
    <3>1. \E why, d, e : Catalog!Conclude(h, why, d, e) BY <2>5, Zenon DEF Catalog!UpsertDrop
    <3> QED BY <2>1, <3>1
  <2>6. CASE Catalog!RemoveDrop(h)
    <3>1. \E why, d, e : Catalog!Conclude(h, why, d, e) BY <2>6, Zenon DEF Catalog!RemoveDrop
    <3> QED BY <2>1, <3>1
  <2> QED BY <1>2, <2>2, <2>3, <2>4, <2>5, <2>6 DEF Catalog!Serve
<1>3. \/ \E h \in Handlers, k \in Keys : Catalog!Receive(h, k) /\ UNCHANGED Catalog!catalogVars
      \/ \E new \in OldItems : Catalog!OldReads(new)
      \/ Catalog!OldWrites \/ UNCHANGED Catalog!vars
      => UNCHANGED roller
  BY DEF Catalog!OldReads, Catalog!OldWrites, Catalog!vars, Catalog!catalogVars
<1>4. ~ Catalog!EngineStops BY IdleTyped DEF Catalog!EngineStops
<1>5. ASSUME NEW s \in Rollers, Catalog!Roll(s) PROVE Catalog!Finish(r) /\ Catalog!Deliverable(r)
  <2>1. PICK x : roller' = [roller EXCEPT ![s] = x]
    <3>1. Catalog!Select(s) => \E x : roller' = [roller EXCEPT ![s] = x]
      <4> SUFFICES ASSUME Catalog!Select(s) PROVE \E x : roller' = [roller EXCEPT ![s] = x] OBVIOUS
      <4>1. PICK i \in Items, q \in 1 .. MaxQuantity :
               roller' = [roller EXCEPT ![s].pc = "selected", ![s].item = i, ![s].quantity = q]
        BY DEF Catalog!Select, Catalog!Candidates
      <4> DEFINE x == [roller[s] EXCEPT !.pc = "selected", !.item = i, !.quantity = q]
      <4>2. roller' = [roller EXCEPT ![s] = x] BY <1>0, <4>1
      <4> HIDE DEF x
      <4> QED BY <4>2
    <3> QED BY <1>5, <3>1
         DEF Catalog!Roll, Catalog!Start, Catalog!Reserve, Catalog!Finish, Catalog!Abort
  <2>2. s = r BY <1>0, <2>1
  <2>3. CASE Catalog!Start(r) BY <2>3 DEF Catalog!Start
  <2>4. CASE Catalog!Select(r)
    <3>1. roller'[r].pc = "selected" BY <1>0, <2>4 DEF Catalog!Select, RollerRow
    <3> QED BY <3>1
  <2>5. CASE Catalog!Reserve(r) BY <2>5 DEF Catalog!Reserve
  <2>6. CASE Catalog!Abort(r)
    <3>1. roller'[r].pc = "aborted" BY <1>0, <2>6 DEF Catalog!Abort, Catalog!Idle
    <3> QED BY <3>1
  <2>7. CASE Catalog!Finish(r)
    <3>1. roller'[r].pc = IF Catalog!Deliverable(r) THEN "done" ELSE "failed"
      BY <1>0, <2>7 DEF Catalog!Finish, Catalog!Idle
    <3> QED BY <2>7, <3>1
  <2> QED BY <1>5, <2>2, <2>3, <2>4, <2>5, <2>6, <2>7 DEF Catalog!Roll
<1> QED BY <1>1, <1>2, <1>3, <1>4, <1>5 DEF Catalog!Next

\* "stock exhaustion is reported, never silently fabricated"
\* (consume_loot_table_entry_stock): what a cast or a lootbox took of a limited drop
\* leaves the drop's stock, and is never more than was there, whatever edits the
\* table, unless it removes a drop or makes it unlimited.
THEOREM StockIsNeverFabricated ==
    ASSUME CatalogAssumed, DropsStay PROVE Catalog!Spec => Catalog!StockNeverFabricated
<1>1. CatInv /\ [Catalog!Next]_(Catalog!vars) => Catalog!StockNeverFabricatedStep
  <2> SUFFICES ASSUME CatInv, [Catalog!Next]_(Catalog!vars), NEW r \in Rollers,
                      roller[r].pc = "loaded", roller'[r].pc = "done",
                      NEW t \in roller[r].took, roller[r].seen[t.item].stock # None
               PROVE  /\ Catalog!Exists(entries, t.item) /\ entries[t.item].id = t.id
                      /\ entries[t.item].stock >= t.units
                      /\ entries'[t.item].stock = entries[t.item].stock - t.units
    BY DEF Catalog!StockNeverFabricatedStep
  <2>1. Catalog!Finish(r) /\ Catalog!Deliverable(r) BY DoneByFinish
  <2>2. t \in Took /\ t.item \in Items /\ entries[t.item] # None /\ entries[t.item].id = t.id
    BY OwnEntry DEF Took
  <2>3. t.row /\ entries[t.item].stock # None /\ t.units <= entries[t.item].stock
    BY DEF CatInv, Takes
  <2>4. entries[t.item].stock \in Nat /\ t.units \in Nat
    BY <2>2, <2>3 DEF CatInv, Table, Drop, Took
  <2>5. entries'[t.item].stock = entries[t.item].stock - t.units
    BY <2>1, <2>2, <2>3, FinishTakes
  <2> QED BY <2>2, <2>3, <2>4, <2>5 DEF Catalog!Exists
<1> QED BY <1>1, CatInit, CatStep, PTL DEF Catalog!Spec, Catalog!StockNeverFabricated

-----------------------------------------------------------------------------
(* What an item may lead to *)

\* A row is not None, and the channel begins without a cycle.
GraphAssumed ==
    /\ \A x : DOMAIN x \in {{"version", "active", "grants", "rolls"}, {"id", "version", "stock"}}
           => x # None
    /\ DOMAIN Given.defs = Items /\ DOMAIN Given.entries = Items
    /\ \A i \in Items :
         /\ Given.defs[i] = None
            \/ DOMAIN Given.defs[i] = {"version", "active", "grants", "rolls"}
         /\ Given.entries[i] = None \/ DOMAIN Given.entries[i] = {"id", "version", "stock"}
    /\ Catalog!Acyclic(Given.defs, Given.entries)
    /\ None \notin Handlers
    /\ \A k \in Keys :
         OpOf[k].kind \in {"upsert_item", "archive_item", "upsert_drop", "remove_drop"}
         => OpOf[k].item \in Items

\* A handler that edits the graph holds the channel's row, and has read all that
\* leads from an item to another, if not more.
Upserts(h) == Catalog!Serves(h, "loaded", {"upsert_item", "upsert_drop"})

SameLeads(d, i) ==
    /\ d[i] = None <=> defs[i] = None
    /\ defs[i] # None => d[i].grants = defs[i].grants /\ d[i].rolls = defs[i].rolls

Surveys(h) ==
    LET copy == handler[h].copy IN
    Upserts(h) =>
        /\ tableRow = h
        /\ DOMAIN copy.defs = Items /\ DOMAIN copy.entries = Items
        /\ \A i \in Items : SameLeads(copy.defs, i) /\ (entries[i] # None => copy.entries[i] # None)

CatalogRows ==
    /\ DOMAIN defs = Items /\ DOMAIN entries = Items
    /\ \A i \in Items :
         /\ defs[i] = None \/ DOMAIN defs[i] = {"version", "active", "grants", "rolls"}
         /\ entries[i] = None \/ DOMAIN entries[i] = {"id", "version", "stock"}

GraphInv ==
    /\ RequestsServed
    /\ CatalogRows
    /\ older = None
    /\ \A h \in Handlers : Surveys(h)
    /\ Catalog!Acyclic(defs, entries)

\* Less leads to no cycle either.
LEMMA LessIsAcyclic ==
    ASSUME NEW d, NEW e, NEW d1, NEW e1, Catalog!Acyclic(d, e),
           \A i \in Items : d1[i] # None =>
               d[i] # None /\ d1[i].grants \subseteq d[i].grants /\ (d1[i].rolls => d[i].rolls),
           \A i \in Items : e1[i] # None => e[i] # None
    PROVE  Catalog!Acyclic(d1, e1)
<1> SUFFICES ASSUME NEW S \in SUBSET {i \in Items : Catalog!Exists(d1, i)}, S # {}
             PROVE  \E i \in S : Catalog!Leads(d1, e1, i) \intersect S = {}
  BY DEF Catalog!Acyclic
<1>1. S \in SUBSET {i \in Items : Catalog!Exists(d, i)} BY DEF Catalog!Exists
<1>2. PICK i \in S : Catalog!Leads(d, e, i) \intersect S = {} BY <1>1 DEF Catalog!Acyclic
<1>3. Catalog!Leads(d1, e1, i) \subseteq Catalog!Leads(d, e, i)
  BY DEF Catalog!Leads, Catalog!Exists
<1> QED BY <1>2, <1>3

\* A handler that concludes frees the row it holds, and then surveys nothing.
LEMMA ConcludedSurveys ==
    ASSUME GraphAssumed, GraphInv, NEW h \in Handlers, NEW why, NEW d, NEW e,
           Catalog!Conclude(h, why, d, e)
    PROVE  /\ RequestsServed' /\ ~ Upserts(h)'
           /\ \A u \in Handlers \ {h} : handler'[u] = handler[u] /\ (Upserts(u)' <=> Upserts(u))
           /\ \A u \in Handlers \ {h} : Upserts(u) => tableRow' = u
           /\ UNCHANGED <<roller, older>>
<1>1. handler' = [handler EXCEPT ![h] = Catalog!Free]
  BY DEF Catalog!Conclude, Catalog!Commit, Catalog!Refuse, Catalog!Clash
<1>2. RequestsServed' BY RequestEnds DEF Catalog!Conclude, GraphInv
<1>3. DOMAIN handler = Handlers BY DEF GraphInv, RequestsServed
<1>4. ~ Upserts(h)' BY <1>1, <1>3 DEF Upserts, Catalog!Serves, Catalog!Free
<1>5. \A u \in Handlers \ {h} : handler'[u] = handler[u] BY <1>1, <1>3
<1>6. \A u \in Handlers \ {h} : Upserts(u)' <=> Upserts(u)
  BY <1>5 DEF Upserts, Catalog!Serves, Catalog!Op
<1>7. tableRow' = (IF tableRow = h THEN None ELSE tableRow) /\ UNCHANGED <<roller, older>>
  BY DEF Catalog!Conclude
<1>8. \A u \in Handlers \ {h} : Upserts(u) => tableRow' = u
  BY <1>7 DEF GraphInv, Surveys
<1> QED BY <1>2, <1>4, <1>5, <1>6, <1>7, <1>8

\* Whoever holds the channel's row edits the graph alone.
LEMMA UpsertsAlone ==
    ASSUME GraphInv, NEW h \in Handlers, NEW u \in Handlers, u # h, Upserts(h)
    PROVE  ~ Upserts(u)
BY DEF GraphInv, Surveys

LEMMA ConcludeAlone ==
    ASSUME GraphAssumed, GraphInv, NEW h \in Handlers, Upserts(h), NEW why, NEW d, NEW e,
           Catalog!Conclude(h, why, d, e), CatalogRows', Catalog!Acyclic(defs', entries')
    PROVE  GraphInv'
<1>1. \A u \in Handlers : ~ Upserts(u)' BY ConcludedSurveys, UpsertsAlone
<1> QED BY <1>1, ConcludedSurveys DEF GraphInv, Surveys

\* An archival or a removal, and a roll, leave what leads from an item to another,
\* or less.
LEMMA LessLeads ==
    ASSUME GraphAssumed, GraphInv, CatalogRows', RequestsServed', UNCHANGED older,
           \A i \in Items : SameLeads(defs', i) /\ (entries'[i] # None => entries[i] # None),
           \A u \in Handlers : Upserts(u)' =>
               Upserts(u) /\ handler'[u] = handler[u] /\ tableRow' = u
    PROVE  GraphInv'
<1>1. Catalog!Acyclic(defs', entries') BY LessIsAcyclic DEF GraphInv, SameLeads
<1>2. \A u \in Handlers : Surveys(u)' BY DEF GraphInv, Surveys, SameLeads
<1> QED BY <1>1, <1>2 DEF GraphInv

LEMMA LoadSurveys ==
    ASSUME GraphAssumed, GraphInv, NEW h \in Handlers, Catalog!Load(h)
    PROVE  GraphInv'
<1>1. /\ UNCHANGED <<defs, entries, older>> /\ handler[h].pc = "asked"
      /\ Catalog!LoadCopy(h, [defs |-> defs, entries |-> entries])
      /\ IF Catalog!Op(h).kind \in {"upsert_item", "upsert_drop"}
         THEN tableRow = None /\ tableRow' = h ELSE UNCHANGED tableRow
  BY DEF Catalog!Load, Catalog!FreeRow
<1>2. RequestsServed' BY <1>1, RequestLoads DEF GraphInv
<1> DEFINE new == [handler[h] EXCEPT !.pc = "loaded", !.copy = [defs |-> defs, entries |-> entries]]
<1>3. handler' = [handler EXCEPT ![h] = new] BY <1>1 DEF Catalog!LoadCopy
<1>4. DOMAIN handler = Handlers /\ DOMAIN handler[h] = {"pc", "key", "copy"}
  BY DEF GraphInv, RequestsServed, Request
<1>5. new.key = handler[h].key /\ new.copy.defs = defs /\ new.copy.entries = entries BY <1>4
<1> HIDE DEF new
<1>6. handler'[h] = new /\ \A u \in Handlers \ {h} : handler'[u] = handler[u] BY <1>3, <1>4
<1>7. Upserts(h)' => Catalog!Op(h).kind \in {"upsert_item", "upsert_drop"}
  BY <1>5, <1>6 DEF Upserts, Catalog!Serves, Catalog!Op
<1>8. Surveys(h)'
  <2>1. Upserts(h)' => tableRow' = h BY <1>1, <1>7
  <2> QED BY <1>1, <1>5, <1>6, <2>1 DEF Surveys, SameLeads, GraphInv, CatalogRows
<1>9. ASSUME NEW u \in Handlers \ {h} PROVE Surveys(u)'
  <2>1. Upserts(u)' <=> Upserts(u) BY <1>6 DEF Upserts, Catalog!Serves, Catalog!Op
  <2>2. Upserts(u) => tableRow' = u
    BY <1>1 DEF GraphInv, Surveys, GraphAssumed
  <2> QED BY <1>1, <1>6, <2>1, <2>2 DEF GraphInv, Surveys, SameLeads
<1> QED BY <1>1, <1>2, <1>8, <1>9 DEF GraphInv, CatalogRows

LEMMA UpsertItemAcyclic ==
    ASSUME GraphAssumed, GraphInv, NEW h \in Handlers, Catalog!UpsertItem(h)
    PROVE  GraphInv'
<1> DEFINE i == Catalog!Op(h).item
           op == Catalog!Op(h)
           copy == handler[h].copy.defs[i]
           table == handler[h].copy.entries
           made1 == Catalog!Made(op)
           graph == [handler[h].copy.defs EXCEPT ![i] = made1]
           row == IF copy = None THEN made1 ELSE Catalog!Rewritten(defs[i], copy, op)
           result == [defs EXCEPT ![i] = row]
           why == CASE copy # None /\ op.expected = None -> "exists"
                    [] ~ (copy # None /\ op.expected = None) /\ ~ Catalog!Acyclic(graph, table) -> "cycle"
                    [] copy # None /\ op.expected \notin {None, copy.version}
                       /\ Catalog!Acyclic(graph, table) -> "conflict"
                    [] copy = None /\ Catalog!Exists(defs, i) /\ Catalog!Acyclic(graph, table) -> "failed"
                    [] OTHER -> "ok"
<1>1. Catalog!Conclude(h, why, result, entries) /\ UNCHANGED made
  BY DEF Catalog!UpsertItem
<1>2. Upserts(h) /\ i \in Items
  BY DEF Catalog!UpsertItem, Upserts, Catalog!Serves, Catalog!Op, GraphInv, RequestsServed, Request,
         GraphAssumed
<1>3. why = "ok" => Catalog!Acyclic(graph, table) OBVIOUS
<1> HIDE DEF why
<1>4. \/ UNCHANGED <<defs, entries>>
      \/ why = "ok" /\ defs' = result /\ entries' = entries
  BY <1>1 DEF Catalog!Conclude
<1>5. CASE UNCHANGED <<defs, entries>>
  <2>1. CatalogRows' /\ Catalog!Acyclic(defs', entries') BY <1>5 DEF GraphInv, CatalogRows
  <2> QED BY <1>1, <1>2, <2>1, ConcludeAlone
<1>6. CASE why = "ok" /\ defs' = result /\ entries' = entries
  <2>1. /\ DOMAIN handler[h].copy.defs = Items /\ DOMAIN defs = Items
        /\ \A j \in Items : SameLeads(handler[h].copy.defs, j) /\ (entries[j] # None => table[j] # None)
    BY <1>2 DEF GraphInv, Surveys, CatalogRows
  <2>2. /\ DOMAIN row = {"version", "active", "grants", "rolls"}
        /\ made1 # None /\ row.grants = made1.grants /\ row.rolls = made1.rolls
    <3>1. DOMAIN made1 = {"version", "active", "grants", "rolls"}
          /\ made1.grants = op.grants /\ made1.rolls = op.rolls
      BY DEF Catalog!Made
    <3>2. made1 # None BY <3>1 DEF GraphAssumed
    <3>3. CASE copy = None BY <3>1, <3>2, <3>3
    <3>4. CASE copy # None
      <4>1. copy.grants = defs[i].grants /\ copy.rolls = defs[i].rolls
        BY <1>2, <2>1, <3>4 DEF SameLeads
      <4>2. row = Catalog!Rewritten(defs[i], copy, op) BY <3>4
      <4>3. DOMAIN row = {"version", "active", "grants", "rolls"} /\ row.grants = op.grants
            /\ row.rolls = op.rolls
        <5> HIDE DEF row, copy, op, i
        <5> QED BY <4>1, <4>2 DEF Catalog!Rewritten
      <4> QED BY <3>1, <3>2, <4>3
    <3> QED BY <3>3, <3>4
  <2> HIDE DEF row, made1
  <2>3. result[i] = row /\ \A j \in Items \ {i} : result[j] = defs[j] BY <1>2, <2>1
  <2>4. graph[i] = made1 /\ \A j \in Items \ {i} : graph[j] = handler[h].copy.defs[j]
    BY <1>2, <2>1
  <2>5. \A j \in Items : result[j] # None =>
           graph[j] # None /\ result[j].grants = graph[j].grants /\ result[j].rolls = graph[j].rolls
    <3> HIDE DEF result, graph, i
    <3> QED BY <2>1, <2>2, <2>3, <2>4 DEF SameLeads
  <2>6. CatalogRows' BY <1>2, <1>6, <2>2, <2>3 DEF GraphInv, CatalogRows
  <2> HIDE DEF result, graph, i
  <2>7. Catalog!Acyclic(defs', entries') BY <1>3, <1>6, <2>1, <2>5, LessIsAcyclic
  <2> QED BY <1>1, <1>2, <2>6, <2>7, ConcludeAlone
<1> QED BY <1>4, <1>5, <1>6

LEMMA UpsertDropAcyclic ==
    ASSUME GraphAssumed, GraphInv, NEW h \in Handlers, Catalog!UpsertDrop(h)
    PROVE  GraphInv'
<1> DEFINE i == Catalog!Op(h).item
           op == Catalog!Op(h)
           seen == handler[h].copy.defs
           table == handler[h].copy.entries
           entry == entries[i]
           new == IF entry = None THEN [id |-> made + 1, version |-> 1, stock |-> op.stock]
                  ELSE [entry EXCEPT !.version = @ + 1, !.stock = op.stock]
           after == [entries EXCEPT ![i] = new]
           survey == [table EXCEPT ![i] = new]
           why == CASE ~ Catalog!Exists(seen, i) -> "missing"
                    [] Catalog!Exists(seen, i) /\ ~ seen[i].active -> "archived"
                    [] Catalog!Exists(seen, i) /\ seen[i].active
                       /\ (entry = None) # (op.expected = None) -> "conflict"
                    [] Catalog!Exists(seen, i) /\ seen[i].active /\ entry # None
                       /\ op.expected \notin {None, entry.version} -> "conflict"
                    [] Catalog!Exists(seen, i) /\ seen[i].active /\ (entry = None) = (op.expected = None)
                       /\ (entry # None => op.expected = entry.version)
                       /\ ~ Catalog!Acyclic(seen, survey) -> "cycle"
                    [] OTHER -> "ok"
<1>1. Catalog!Conclude(h, why, defs, after) BY DEF Catalog!UpsertDrop
<1>2. Upserts(h) /\ i \in Items
  BY DEF Catalog!UpsertDrop, Upserts, Catalog!Serves, Catalog!Op, GraphInv, RequestsServed, Request,
         GraphAssumed
<1>3. why = "ok" => Catalog!Acyclic(seen, survey)
  <2> HIDE DEF new, survey, entry, op, seen, i
  <2> QED OBVIOUS
<1> HIDE DEF why
<1>4. \/ UNCHANGED <<defs, entries>>
      \/ why = "ok" /\ defs' = defs /\ entries' = after
  BY <1>1 DEF Catalog!Conclude
<1>5. CASE UNCHANGED <<defs, entries>>
  <2>1. CatalogRows' /\ Catalog!Acyclic(defs', entries') BY <1>5 DEF GraphInv, CatalogRows
  <2> QED BY <1>1, <1>2, <2>1, ConcludeAlone
<1>6. CASE why = "ok" /\ defs' = defs /\ entries' = after
  <2>1. /\ DOMAIN table = Items /\ DOMAIN entries = Items
        /\ \A j \in Items : SameLeads(seen, j) /\ (entries[j] # None => table[j] # None)
        /\ entry = None \/ DOMAIN entry = {"id", "version", "stock"}
    BY <1>2 DEF GraphInv, Surveys, CatalogRows
  <2>2. DOMAIN new = {"id", "version", "stock"} BY <2>1
  <2> HIDE DEF new, entry
  <2>3. new # None BY <2>2 DEF GraphAssumed
  <2>4. after[i] = new /\ \A j \in Items \ {i} : after[j] = entries[j] BY <1>2, <2>1
  <2>5. survey[i] = new /\ \A j \in Items \ {i} : survey[j] = table[j] BY <1>2, <2>1
  <2>6. CatalogRows' BY <1>2, <1>6, <2>1, <2>2, <2>4 DEF GraphInv, CatalogRows
  <2> HIDE DEF after, survey, seen, table, i
  <2>7. \A j \in Items : after[j] # None => survey[j] # None BY <2>1, <2>3, <2>4, <2>5
  <2>8. \A j \in Items : defs[j] # None =>
           seen[j] # None /\ defs[j].grants \subseteq seen[j].grants /\ (defs[j].rolls => seen[j].rolls)
    BY <2>1 DEF SameLeads
  <2>9. Catalog!Acyclic(defs', entries') BY <1>3, <1>6, <2>7, <2>8, LessIsAcyclic
  <2> QED BY <1>1, <1>2, <2>6, <2>9, ConcludeAlone
<1> QED BY <1>4, <1>5, <1>6

LEMMA ArchiveRemoveAcyclic ==
    ASSUME GraphAssumed, GraphInv, NEW h \in Handlers,
           Catalog!ArchiveItem(h) \/ Catalog!RemoveDrop(h)
    PROVE  GraphInv'
<1> DEFINE i == Catalog!Op(h).item
           archived == IF Catalog!Exists(defs, i)
                       THEN [defs EXCEPT ![i].active = FALSE, ![i].version = @ + 1] ELSE defs
           removed == [entries EXCEPT ![i] = None]
<1>1. \E why : \/ Catalog!Conclude(h, why, archived, entries)
               \/ Catalog!Conclude(h, why, defs, removed)
  BY DEF Catalog!ArchiveItem, Catalog!RemoveDrop
<1>2. ~ Upserts(h) /\ i \in Items
  BY DEF Catalog!ArchiveItem, Catalog!RemoveDrop, Upserts, Catalog!Serves, Catalog!Op, GraphInv,
         RequestsServed, Request, GraphAssumed
<1>3. defs' \in {defs, archived} /\ entries' \in {entries, removed}
  BY <1>1 DEF Catalog!Conclude
<1>4. CatalogRows BY DEF GraphInv
<1>5. /\ DOMAIN archived = Items
      /\ \A j \in Items : SameLeads(archived, j) /\ (archived[j] = None
             \/ DOMAIN archived[j] = {"version", "active", "grants", "rolls"})
  <2>1. CASE ~ Catalog!Exists(defs, i) BY <1>4, <2>1 DEF CatalogRows, SameLeads
  <2>2. CASE Catalog!Exists(defs, i)
    <3> DEFINE row == [defs[i] EXCEPT !.active = FALSE, !.version = @ + 1]
    <3>1. DOMAIN defs[i] = {"version", "active", "grants", "rolls"}
      BY <1>2, <1>4, <2>2 DEF CatalogRows, Catalog!Exists
    <3>2. /\ DOMAIN row = {"version", "active", "grants", "rolls"}
          /\ row.grants = defs[i].grants /\ row.rolls = defs[i].rolls
      BY <3>1
    <3>3. archived = [defs EXCEPT ![i] = row] BY <1>2, <1>4, <2>2 DEF CatalogRows
    <3> HIDE DEF row, archived, i
    <3>4. row # None BY <3>2 DEF GraphAssumed
    <3>5. DOMAIN archived = Items /\ archived[i] = row
          /\ \A j \in Items \ {i} : archived[j] = defs[j]
      BY <1>2, <1>4, <3>3 DEF CatalogRows
    <3>6. defs[i] # None BY <2>2 DEF Catalog!Exists, i
    <3> QED BY <1>4, <3>2, <3>4, <3>5, <3>6 DEF CatalogRows, SameLeads
  <2> QED BY <2>1, <2>2
<1>6. DOMAIN removed = Items /\ \A j \in Items : removed[j] \in {entries[j], None}
  BY <1>2, <1>4 DEF CatalogRows
<1> HIDE DEF archived, removed, i
<1>7. CatalogRows' BY <1>3, <1>4, <1>5, <1>6 DEF CatalogRows
<1>8. \A j \in Items : SameLeads(defs', j) /\ (entries'[j] # None => entries[j] # None)
  BY <1>3, <1>5, <1>6 DEF SameLeads
<1>9. /\ RequestsServed' /\ UNCHANGED older
      /\ \A u \in Handlers : Upserts(u)' =>
            Upserts(u) /\ handler'[u] = handler[u] /\ tableRow' = u
  BY <1>1, <1>2, ConcludedSurveys
<1> QED BY <1>7, <1>8, <1>9, LessLeads

LEMMA GraphStep ==
    GraphAssumed /\ OldItems = {} /\ GraphInv /\ [Catalog!Next]_(Catalog!vars) => GraphInv'
<1> SUFFICES ASSUME GraphAssumed, OldItems = {}, GraphInv, [Catalog!Next]_(Catalog!vars)
             PROVE  GraphInv'
  OBVIOUS
<1>0. \A j \in Items : SameLeads(defs, j) BY DEF SameLeads
<1>1. ASSUME NEW h \in Handlers, NEW k \in Keys, Catalog!Receive(h, k), UNCHANGED Catalog!catalogVars
      PROVE  GraphInv'
  <2> DEFINE new == [Catalog!Free EXCEPT !.pc = "asked", !.key = k]
  <2>1. handler' = handler \/ handler' = [handler EXCEPT ![h] = new] BY <1>1 DEF Catalog!Receive
  <2>2. new.pc = "asked" BY DEF Catalog!Free
  <2> HIDE DEF new
  <2>3. RequestsServed' BY <1>1, RequestReceived DEF GraphInv
  <2>4. \A u \in Handlers : handler'[u] = handler[u] \/ handler'[u].pc = "asked"
    BY <2>1, <2>2 DEF GraphInv, RequestsServed
  <2>5. \A u \in Handlers : Upserts(u)' => Upserts(u) /\ handler'[u] = handler[u]
    BY <2>4 DEF Upserts, Catalog!Serves, Catalog!Op
  <2>6. \A u \in Handlers : Upserts(u) => tableRow = u BY DEF GraphInv, Surveys
  <2> QED BY <1>0, <1>1, <2>3, <2>5, <2>6, LessLeads DEF Catalog!catalogVars, GraphInv, CatalogRows
<1>2. CASE UNCHANGED Catalog!vars
  BY <1>2 DEF Catalog!vars, Catalog!catalogVars, Catalog!requestVars, GraphInv, RequestsServed,
     CatalogRows, Surveys, SameLeads, Upserts, Catalog!Serves, Catalog!Op
<1>3. ~ Catalog!OldWrites /\ ~ \E new \in OldItems : Catalog!OldReads(new)
  BY DEF Catalog!OldWrites, GraphInv
<1>4. CASE Catalog!EngineStops
  <2>1. \A u \in Handlers : ~ Upserts(u)'
    BY <1>4 DEF Catalog!EngineStops, Catalog!Crash, Upserts, Catalog!Serves, Catalog!Free
  <2>2. RequestsServed'
    BY <1>4 DEF Catalog!EngineStops, Catalog!Crash, RequestsServed, Request, Catalog!Free
  <2> QED BY <1>4, <2>1, <2>2 DEF Catalog!EngineStops, GraphInv, CatalogRows, Surveys
<1>5. ASSUME NEW r \in Rollers, Catalog!Roll(r) PROVE GraphInv'
  <2>1. UNCHANGED <<requestVars, defs, tableRow, older>>
    BY <1>5 DEF Catalog!Roll, Catalog!Start, Catalog!Select, Catalog!Reserve, Catalog!Finish,
       Catalog!Abort, Catalog!requestVars, requestVars
  <2>2. DOMAIN entries' = Items /\ \A j \in Items :
          /\ entries'[j] # None => entries[j] # None
          /\ entries'[j] = None \/ DOMAIN entries'[j] = {"id", "version", "stock"}
    <3>1. CASE UNCHANGED entries BY <3>1 DEF GraphInv, CatalogRows
    <3>2. CASE entries' = [j \in Items |->
                IF Catalog!Exists(entries, j) /\ entries[j].stock # None
                THEN [entries[j] EXCEPT !.stock = @ - Catalog!Reserved(r, entries[j].id)] ELSE entries[j]]
      <4>1. ASSUME NEW j \in Items
            PROVE  /\ entries'[j] # None => entries[j] # None
                   /\ entries'[j] = None \/ DOMAIN entries'[j] = {"id", "version", "stock"}
        <5>1. entries[j] = None \/ DOMAIN entries[j] = {"id", "version", "stock"}
          BY DEF GraphInv, CatalogRows
        <5>2. CASE Catalog!Exists(entries, j) /\ entries[j].stock # None
          <6>1. entries'[j] = [entries[j] EXCEPT !.stock = @ - Catalog!Reserved(r, entries[j].id)]
            BY <3>2, <5>2
          <6> QED BY <5>1, <5>2, <6>1 DEF Catalog!Exists
        <5>3. CASE ~ (Catalog!Exists(entries, j) /\ entries[j].stock # None)
          BY <3>2, <5>1, <5>3
        <5> QED BY <5>2, <5>3
      <4> QED BY <3>2, <4>1
    <3> QED BY <1>5, <3>1, <3>2
         DEF Catalog!Roll, Catalog!Start, Catalog!Select, Catalog!Reserve, Catalog!Finish, Catalog!Abort
  <2>3. handler' = handler BY <2>1 DEF requestVars
  <2>4. \A u \in Handlers : Upserts(u)' => Upserts(u)
    BY <2>3 DEF Upserts, Catalog!Serves, Catalog!Op
  <2>5. \A u \in Handlers : Upserts(u) => tableRow = u BY DEF GraphInv, Surveys
  <2>6. RequestsServed' BY <2>3 DEF GraphInv, RequestsServed
  <2>7. CatalogRows' BY <2>1, <2>2 DEF GraphInv, CatalogRows
  <2>8. \A j \in Items : SameLeads(defs', j) BY <1>0, <2>1
  <2> QED BY <2>1, <2>2, <2>3, <2>4, <2>5, <2>6, <2>7, <2>8, LessLeads
<1> QED BY <1>1, <1>2, <1>3, <1>4, <1>5, LoadSurveys, UpsertItemAcyclic, UpsertDropAcyclic,
        ArchiveRemoveAcyclic DEF Catalog!Next, Catalog!Serve

\* "Reject any positive item/lootbox dependency cycle in one channel"
\* (item_dependency_validator): whatever administrators edit at the same time in
\* Discord, no item leads back to itself; the older API, which validates without the
\* lock, is not used.
THEOREM GraphStaysAcyclic ==
    ASSUME GraphAssumed, OldItems = {} PROVE Catalog!Spec => []Catalog!GraphAcyclic
<1>1. Catalog!Init => GraphInv
  <2> SUFFICES ASSUME Catalog!Init PROVE GraphInv OBVIOUS
  <2>1. RequestsServed /\ \A h \in Handlers : ~ Upserts(h)
    BY DEF RequestsServed, Request, Catalog!Init, Catalog!RequestInit, Catalog!Free, Upserts,
           Catalog!Serves
  <2> QED BY <2>1 DEF GraphInv, GraphAssumed, CatalogRows, Catalog!Init, Surveys
<1>2. GraphInv => Catalog!GraphAcyclic BY DEF GraphInv, Catalog!GraphAcyclic
<1> QED BY <1>1, <1>2, GraphStep, PTL DEF Catalog!Spec
=============================================================================
