------------------------------- MODULE CastLedger -------------------------------
(***************************************************************************)
(* The journal of casts and what is kept of it: the hourly rebuild of the  *)
(* day's statistics by one or more workers, the retention pass, and the    *)
(* administrator who pages through the journal while it grows and shrinks. *)
(***************************************************************************)
EXTENDS Integers, Sequences, FiniteSets, FiniteSetsExt

CONSTANTS
    Ids,            \* casts that may be made, as numbers: the order of their identifiers
    Shapes,         \* what a cast can be: [channel, status, delta, reward, gate, eligible, item]
    Workers,        \* worker processes
    PerDay,         \* ticks a day has
    Days,           \* bound on days
    ResolvedDays,   \* RETENTION_RESOLVED_CAST_DAYS; 0 keeps all
    RejectedDays,   \* RETENTION_REJECTED_CAST_DAYS
    ExpiredDays,    \* RETENTION_EXPIRED_IDEMPOTENCY_DAYS
    Records,        \* idempotency records: [created, expires]
    MaxStops,       \* bound on workers stopped within a pass
    MaxSwitches,    \* bound on switches of FISHING_CAST_LEDGER_ENABLED
    PageSize,       \* the page an administrator asks for
    None

CastLedgerAssumption ==
    Ids \subseteq Nat /\ PerDay \in Nat \ {0} /\ Days \in Nat \ {0} /\ PageSize \in Nat \ {0}
    /\ {ResolvedDays, RejectedDays, ExpiredDays, MaxStops, MaxSwitches} \subseteq Nat

VARIABLES
    now,        \* the clock, in ticks
    under,      \* casts being processed: they know when they were requested
    casts,      \* the journal
    stats,      \* fishing_stats_daily
    ledgerOn,   \* FISHING_CAST_LEDGER_ENABLED
    pass,       \* each worker's pass: where it is, its time, what it read and wrote
    records,    \* idempotency records
    page,       \* the administrator's pages: [cursor, got, start], or None
    stops, switches

vars == <<now, under, casts, stats, ledgerOn, pass, records, page, stops, switches>>

DayOf(t) == t \div PerDay
Last == PerDay * Days - 1

-----------------------------------------------------------------------------
(* The statistics of a day                                                     *)

Sum(S, f(_)) == MapThenSumSet(f, S)

\* A plausible bug of InDay: the next midnight belongs to both days.
InDayInclusive(day) == {c \in casts : PerDay * day <= c.at /\ c.at <= PerDay * (day + 1)}

\* The casts of a day, by when they were requested.
InDay(day) == {c \in casts : PerDay * day <= c.at /\ c.at < PerDay * (day + 1)}

Resolved(S) == {c \in S : c.status = "resolved"}
Failed(S) == {c \in S : c.status \in {"failed", "compensated"}}
Gain(c) == IF c.delta >= 0 THEN c.delta ELSE 0
Loss(c) == IF c.delta >= 0 THEN 0 ELSE 0 - c.delta

\* _item_expected_probabilities: the gate's chance, shared by the weights.
Expected(c, item) ==
    LET weight(i) == c.eligible[i]
    IN (c.gate * c.eligible[item]) \div Sum(DOMAIN c.eligible, weight)

\* A plausible bug of DayRow: the statistics of rejected casts count.
RowOfAll(day, channel, reward, S) ==
    [day |-> day, channel |-> channel, reward |-> reward, item |-> None,
     casts |-> Cardinality(S),
     positive |-> Sum(S, Gain), negative |-> Sum(S, Loss),
     expected |-> LET gate(c) == c.gate IN Sum(S, gate),
     actual |-> Cardinality({c \in S : c.item # None}),
     failures |-> Cardinality(Failed(S))]

\* The bucket of all casts of a channel with one reward.
DayRow(day, channel, reward, S) ==
    LET done == Resolved(S)
    IN [day |-> day, channel |-> channel, reward |-> reward, item |-> None,
        casts |-> Cardinality(S),
        positive |-> Sum(done, Gain), negative |-> Sum(done, Loss),
        expected |-> LET gate(c) == c.gate IN Sum(done, gate),
        actual |-> Cardinality({c \in done : c.item # None}),
        failures |-> Cardinality(Failed(S))]

\* The bucket of an item: the casts that could have dropped it, and the outcome
\* of those that did.
ItemRow(day, channel, reward, item, S) ==
    LET could == {c \in Resolved(S) : c.gate > 0 /\ item \in DOMAIN c.eligible}
        did == {c \in could : c.item = item}
        chance(c) == Expected(c, item)
    IN [day |-> day, channel |-> channel, reward |-> reward, item |-> item,
        casts |-> Cardinality(could),
        positive |-> Sum(did, Gain), negative |-> Sum(did, Loss),
        expected |-> Sum(could, chance),
        actual |-> Cardinality(did), failures |-> 0]

Items(S) == UNION {DOMAIN c.eligible : c \in {d \in Resolved(S) : d.gate > 0}}

\* rebuild_daily_stats: what it makes of the casts it read.
Buckets(day, S) ==
    LET group(ch, r) == {c \in S : c.channel = ch /\ c.reward = r}
        groups == {<<c.channel, c.reward>> : c \in S}
    IN {DayRow(day, g[1], g[2], group(g[1], g[2])) : g \in groups}
       \union UNION {{ItemRow(day, g[1], g[2], i, group(g[1], g[2])) : i \in Items(group(g[1], g[2]))}
                     : g \in groups}

\* FishingCastQueryRepository.summary, of a channel's casts.
Summary(S) ==
    LET done == Resolved(S) IN
    [casts |-> Cardinality(done), positive |-> Sum(done, Gain), negative |-> Sum(done, Loss),
     expected |-> LET gate(c) == c.gate IN Sum(done, gate),
     actual |-> Cardinality({c \in done : c.item # None}),
     failures |-> Cardinality(Failed(S))]

Channels == {s.channel : s \in Shapes}
Key(r) == <<r.day, r.channel, r.reward, r.item>>

-----------------------------------------------------------------------------

Idle == [at |-> "idle", time |-> 0, read |-> {}, deleted |-> {}, added |-> {}]

Init ==
    /\ now = 0 /\ under = {} /\ casts = {} /\ stats = {} /\ ledgerOn = TRUE
    /\ pass = [w \in Workers |-> Idle]
    /\ records = Records /\ page = None /\ stops = 0 /\ switches = 0

Tick ==
    /\ now < Last /\ now' = now + 1
    /\ UNCHANGED <<under, casts, stats, ledgerOn, pass, records, page, stops, switches>>

\* A cast takes its time when it is requested, and is recorded when it commits.
Request(id) ==
    /\ ledgerOn /\ \A c \in under \union casts : c.id # id
    /\ \A older \in {i \in Ids : i < id} : \E c \in under \union casts : c.id = older
    /\ \E s \in Shapes :
        under' = under \union {[id |-> id, at |-> now, channel |-> s.channel, status |-> s.status,
                                delta |-> s.delta, reward |-> s.reward, gate |-> s.gate,
                                eligible |-> s.eligible, item |-> s.item]}
    /\ UNCHANGED <<now, casts, stats, ledgerOn, pass, records, page, stops, switches>>

Record(c) ==
    /\ c \in under /\ under' = under \ {c} /\ casts' = casts \union {c}
    /\ UNCHANGED <<now, stats, ledgerOn, pass, records, page, stops, switches>>

-----------------------------------------------------------------------------
(* The daily statistics                                                        *)

Set(w, p) == pass' = [pass EXCEPT ![w] = p]

StartPass(w) ==
    /\ pass[w].at = "idle"
    /\ Set(w, [Idle EXCEPT !.at = "read", !.time = now, !.read = {}])
    /\ UNCHANGED <<now, under, casts, stats, ledgerOn, records, page, stops, switches>>

\* A plausible bug of PassDay: the clock is read again for each day.
PassDayNow(p) == IF p.at \in {"read", "write"} THEN DayOf(now) - 1 ELSE DayOf(now)

\* The day a pass is at: yesterday, and then today.
PassDay(p) == IF p.at \in {"read", "write"} THEN DayOf(p.time) - 1 ELSE DayOf(p.time)

ReadDay(w) ==
    /\ pass[w].at \in {"read", "readToday"}
    /\ Set(w, [pass[w] EXCEPT !.at = IF @ = "read" THEN "write" ELSE "writeToday",
                              !.read = InDay(PassDay(pass[w]))])
    /\ UNCHANGED <<now, under, casts, stats, ledgerOn, records, page, stops, switches>>

\* The rows of the day that a rewrite deletes: those of the channels it has rows for.
Replaces(day, new) == {r \in stats : r.day = day /\ r.channel \in {n.channel : n \in new}}

\* A plausible bug of Breaks: the index takes empty columns for distinct.
BreaksNever(w, new, gone) == FALSE

\* Rows another transaction has written are waited for, and then break the unique
\* index.
Breaks(w, new, gone) ==
    LET others == UNION {pass[v].deleted \union pass[v].added : v \in Workers \ {w}}
        kept == stats \ (gone \union pass[w].deleted)
    IN {Key(r) : r \in new \union gone} \intersect {Key(r) : r \in others \union kept} # {}

\* Delete and insert within the worker's transaction; a broken index fails the pass.
WriteDay(w) ==
    /\ pass[w].at \in {"write", "writeToday"}
    /\ LET day == PassDay(pass[w])
           new == Buckets(day, pass[w].read)
           gone == Replaces(day, new)
       IN IF Breaks(w, new, gone)
          THEN Set(w, Idle)
          ELSE Set(w, [pass[w] EXCEPT
                        !.at = IF @ = "writeToday" THEN "commit"
                               ELSE IF ledgerOn THEN "readToday" ELSE "return",
                        !.read = {}, !.deleted = @ \union gone, !.added = @ \union new])
    /\ UNCHANGED <<now, under, casts, stats, ledgerOn, records, page, stops, switches>>

Commit(w) ==
    /\ pass[w].at = "commit"
    /\ stats' = (stats \ pass[w].deleted) \union pass[w].added
    /\ Set(w, Idle)
    /\ UNCHANGED <<now, under, casts, ledgerOn, records, page, stops, switches>>

\* With the journal switched off the pass returns before its commit: the session
\* is closed and what it wrote is rolled back.
ReturnEarly(w) ==
    /\ pass[w].at = "return" /\ Set(w, Idle)
    /\ UNCHANGED <<now, under, casts, stats, ledgerOn, records, page, stops, switches>>

\* A worker stops within a pass: its transaction is rolled back.
Stop(w) ==
    /\ pass[w].at # "idle" /\ stops < MaxStops
    /\ Set(w, Idle) /\ stops' = stops + 1
    /\ UNCHANGED <<now, under, casts, stats, ledgerOn, records, page, switches>>

\* The setting changes with a restart.
Switch ==
    /\ switches < MaxSwitches /\ switches' = switches + 1
    /\ ledgerOn' = ~ ledgerOn /\ under' = {}
    /\ pass' = [w \in Workers |-> Idle]
    /\ UNCHANGED <<now, casts, stats, records, page, stops>>

-----------------------------------------------------------------------------
(* The retention pass, one committed deletion after the other                  *)

\* A plausible bug of Expired: one cutoff for all casts.
ExpiredAlike(c) == RejectedDays > 0 /\ c.at < now - PerDay * RejectedDays

Expired(c) ==
    IF c.status = "resolved"
    THEN ResolvedDays > 0 /\ c.at < now - PerDay * ResolvedDays
    ELSE RejectedDays > 0 /\ c.at < now - PerDay * RejectedDays

RetireCasts ==
    /\ \E resolved \in BOOLEAN :
        LET gone == {c \in casts : (c.status = "resolved") = resolved /\ Expired(c)}
        IN gone # {} /\ casts' = casts \ gone
    /\ UNCHANGED <<now, under, stats, ledgerOn, pass, records, page, stops, switches>>

RetireRecords ==
    /\ ExpiredDays > 0
    /\ records' = {r \in records : ~ (r.expires < now /\ r.created < now - PerDay * ExpiredDays)}
    /\ UNCHANGED <<now, under, casts, stats, ledgerOn, pass, page, stops, switches>>

-----------------------------------------------------------------------------
(* The administrator's pages                                                   *)

\* A plausible bug of After: the cursor is a time only.
AfterTime(cursor) == {c \in casts : cursor = None \/ c.at < cursor.at}

\* recent_casts: what comes after the cursor, in (requested_at desc, id desc).
After(cursor) ==
    IF cursor = None THEN casts
    ELSE {c \in casts : c.at < cursor.at \/ (c.at = cursor.at /\ c.id < cursor.id)}

Newer(c, d) == c.at > d.at \/ (c.at = d.at /\ c.id > d.id)
PageOf(S) == {c \in S : Cardinality({d \in S : Newer(d, c)}) < PageSize}
Oldest(S) == CHOOSE c \in S : \A d \in S \ {c} : Newer(d, c)

AskFirst ==
    /\ page = None /\ casts # {}
    /\ LET rows == PageOf(casts)
       IN page' = [cursor |-> IF Cardinality(casts) > PageSize THEN Oldest(rows) ELSE None,
                   got |-> <<rows>>, start |-> casts]
    /\ UNCHANGED <<now, under, casts, stats, ledgerOn, pass, records, stops, switches>>

AskNext ==
    /\ page # None /\ page.cursor # None
    /\ LET left == After(page.cursor)
           rows == PageOf(left)
       IN page' = [page EXCEPT !.cursor = IF Cardinality(left) > PageSize THEN Oldest(rows) ELSE None,
                               !.got = Append(@, rows), !.start = @ \intersect casts]
    /\ UNCHANGED <<now, under, casts, stats, ledgerOn, pass, records, stops, switches>>

Work(w) == StartPass(w) \/ ReadDay(w) \/ WriteDay(w) \/ Commit(w) \/ ReturnEarly(w)

Next ==
    \/ Tick
    \/ \E id \in Ids : Request(id)
    \/ \E c \in under : Record(c)
    \/ \E w \in Workers :
        \/ StartPass(w)
        \/ ReadDay(w)
        \/ WriteDay(w)
        \/ Commit(w)
        \/ ReturnEarly(w)
        \/ Stop(w)
    \/ Switch
    \/ RetireCasts
    \/ RetireRecords
    \/ AskFirst
    \/ AskNext

Spec == Init /\ [][Next]_vars

\* The workers' loops go on by their timers.
FairSpec == Spec /\ \A w \in Workers : WF_vars(Work(w))
-----------------------------------------------------------------------------

\* The type of each variable; a pass never holds rows of a day but its own two.
TypeOK ==
    /\ now \in 0 .. Last /\ stops \in 0 .. MaxStops /\ switches \in 0 .. MaxSwitches
    /\ records \subseteq Records
    /\ \A c \in under \union casts : c.at <= now
    /\ \A w \in Workers : \A r \in pass[w].added : r.day \in {DayOf(pass[w].time), DayOf(pass[w].time) - 1}

\* Parallel rebuilds leave one row for a bucket ("stays unique under parallel
\* rebuilds").
OneRowPerBucket ==
    \A r, s \in stats :
        r.day = s.day /\ r.channel = s.channel /\ r.reward = s.reward /\ r.item = s.item => r = s

\* A cast counts in one day, whatever the order of casts, passes and midnights.
CountedOnce ==
    \A ch \in Channels :
        LET count(r) == r.casts
        IN Sum({r \in stats : r.channel = ch /\ r.item = None}, count)
            <= Cardinality({c \in casts : c.channel = ch})

\* The two ways to count agree: a day's buckets add up to the day's summary, and
\* the items' buckets to the channel's drops.
SummaryAgrees ==
    \A day \in 0 .. Days - 1, ch \in Channels :
        LET S == {c \in casts : c.channel = ch /\ c.at \in PerDay * day .. PerDay * (day + 1) - 1}
            rows == {r \in Buckets(day, S) : r.item = None}
            items == {r \in Buckets(day, S) : r.item # None}
            positive(r) == r.positive
            negative(r) == r.negative
            expected(r) == r.expected
            actual(r) == r.actual
            failures(r) == r.failures
        IN /\ Summary(S).positive = Sum(rows, positive)
           /\ Summary(S).negative = Sum(rows, negative)
           /\ Summary(S).expected = Sum(rows, expected)
           /\ Summary(S).actual = Sum(rows, actual)
           /\ Summary(S).failures = Sum(rows, failures)
           /\ Sum(items, actual) = Sum(rows, actual)
           /\ Sum(items, expected) = Sum(rows, expected)

\* A pass that returned has rebuilt yesterday ("recomputes the previous UTC day").
ReturnsKept ==
    [][\A w \in Workers :
        pass[w].at \in {"commit", "return"} /\ pass'[w].at = "idle" /\ stops' = stops
            /\ switches' = switches =>
            pass[w].added \subseteq stats']_vars

\* When no more casts come, the statistics of the last two days become exact, with
\* stopped workers and passes that read too early ("a rerun always converges to the
\* same result").
StatsCatchUp ==
    <>[](now = Last /\ under = {}) =>
        <>[](\A day \in {Days - 1, Days - 2} :
                {r \in stats : r.day = day} = Buckets(day, {c \in casts : DayOf(c.at) = day}))

\* One step of OnlyAgedOut.
OnlyAgedOutStep ==
    \A c \in casts \ casts' :
      now - c.at > PerDay * (IF c.status = "resolved" THEN ResolvedDays ELSE RejectedDays)
      /\ (IF c.status = "resolved" THEN ResolvedDays ELSE RejectedDays) > 0

\* Only what the policy ages out is deleted: a resolved cast by its own cutoff.
OnlyAgedOut == [][OnlyAgedOutStep]_vars

\* "Always drop already-expired rows, not just old ones."
ExpiredAreDropped ==
    [][records' # records => \A r \in records' : r.expires >= now]_vars

\* The pages name each cast once, newest first, and in the end every cast that was
\* there when they began and still is ("a stable keyset").
PagesAreStable ==
    page # None =>
        /\ \A i, j \in DOMAIN page.got : i < j =>
            \A c \in page.got[i], d \in page.got[j] : c.at > d.at \/ (c.at = d.at /\ c.id > d.id)
        /\ page.cursor = None => page.start \subseteq UNION {page.got[i] : i \in DOMAIN page.got}
=============================================================================
