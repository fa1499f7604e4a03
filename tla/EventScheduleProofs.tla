------------------------- MODULE EventScheduleProofs ------------------------
(***************************************************************************)
(* A channel never has two active events, for any events, administrators   *)
(* and durations, however requests and the runner interleave and whatever  *)
(* fails.  The argument: a request that is about to activate an event ends *)
(* every other one that is active, has locked its event's row, and is the  *)
(* only such request - start_event locks all rows, and the unique index    *)
(* makes the others wait.                                                  *)
(***************************************************************************)
EXTENDS EventSchedule, FiniteSetTheorems, TLAPS

-----------------------------------------------------------------------------
(* Types *)

\* What a request does with Redis it has an event and a deadline for.
Planned(r) ==
    /\ r.pc = "write" /\ r.for # None => r.on # None
    /\ r.pc = "schedule" => r.on # None /\ r.ends # None

TypeInv ==
    /\ TypeOK
    /\ \A a \in Admins : Planned(admin[a])
    /\ runner.pc = "end" => runner.job \in Job

\* None is no event, no deadline and nobody.
LEMMA NoneIsApart ==
    ASSUME ScheduleAssumption
    PROVE  /\ None \notin Events /\ None \notin Nat /\ None \notin Admins
           /\ None # Runner /\ Runner \notin Admins
           /\ Events \subseteq Nat
  BY DEF ScheduleAssumption

\* Nobody asks for anything yet, and the runner is asleep.
LEMMA IdleTypes ==
    /\ Idle \in Request /\ Planned(Idle) /\ Idle.on = None
    /\ Asleep \in Running /\ Asleep.pc = "asleep"
  BY DEF Idle, Request, Planned, Asleep, Running, Deadline

\* Rows that are taken, and rows that are released.
LEMMA LockTypes ==
    ASSUME ScheduleAssumption, locked \in [Rows -> Admins \union {Runner, None}],
           NEW who \in Admins \union {Runner}, NEW S
    PROVE  /\ Takes(S, who) => locked' \in [Rows -> Admins \union {Runner, None}]
           /\ Release(who) \in [Rows -> Admins \union {Runner, None}]
  BY DEF Takes, Release

\* What the scheduler leaves in Redis.
LEMMA RedisTypes ==
    ASSUME jobs \subseteq Job, key \in Nat \union {None}, lastJob \in Nat
    PROVE  /\ \A e \in Events, at \in Nat : Scheduled(e, at) =>
                 jobs' \subseteq Job /\ key' \in Nat \union {None} /\ lastJob' \in Nat
           /\ Cancel => jobs' \subseteq Job /\ key' \in Nat \union {None} /\ lastJob' \in Nat
           /\ \A j : Completed(j) =>
                 jobs' \subseteq Job /\ key' \in Nat \union {None} /\ lastJob' \in Nat
<1>1. lastJob + 1 \in Nat
    OBVIOUS
<1>2. ASSUME NEW e \in Events, NEW at \in Nat, Scheduled(e, at)
      PROVE  jobs' \subseteq Job /\ key' \in Nat \union {None} /\ lastJob' \in Nat
    <2>1. [id |-> lastJob + 1, event |-> e, at |-> at] \in Job
        BY <1>1 DEF Job
    <2>2. QED
        BY <1>1, <1>2, <2>1 DEF Scheduled, Cancelled
<1>3. QED
    BY <1>2 DEF Cancel, Cancelled, Completed

\* One request moves to n.
LEMMA RequestTypes ==
    ASSUME TypeInv, NEW a \in Admins, NEW n \in Request, Planned(n),
           admin' = [admin EXCEPT ![a] = n]
    PROVE  admin' \in [Admins -> Request] /\ \A b \in Admins : Planned(admin'[b])
  BY DEF TypeInv, TypeOK

\* Each bound is used up by one.
LEMMA SpentTypes ==
    ASSUME ScheduleAssumption, TypeOK
    PROVE  /\ Asks => spent' \in [requests : 0 .. MaxRequests, failures : 0 .. MaxFailures,
                                  losses : 0 .. MaxLosses]
           /\ spent.failures < MaxFailures /\ spent' = [spent EXCEPT !.failures = @ + 1] =>
                 spent' \in [requests : 0 .. MaxRequests, failures : 0 .. MaxFailures,
                             losses : 0 .. MaxLosses]
           /\ spent.losses < MaxLosses /\ spent' = [spent EXCEPT !.losses = @ + 1] =>
                 spent' \in [requests : 0 .. MaxRequests, failures : 0 .. MaxFailures,
                             losses : 0 .. MaxLosses]
  BY DEF ScheduleAssumption, TypeOK, Asks

-----------------------------------------------------------------------------
(* What each action leaves typed *)

LEMMA StartTypes ==
    ASSUME ScheduleAssumption, TypeInv, NEW a \in Admins, NEW e \in Events,
           NEW d \in Durations, Start(a, e, d)
    PROVE  TypeInv'
<1> DEFINE others == Events \ {e}
           n == [Idle EXCEPT !.pc = IF d = None THEN "commit" ELSE "schedule", !.on = e,
                             !.off = others, !.clears = TRUE, !.for = d,
                             !.ends = IF d = None THEN None ELSE now + d]
<1>1. d = None \/ (d \in Nat /\ now + d \in Nat)
    BY DEF ScheduleAssumption, TypeInv, TypeOK
<1>2. n \in Request /\ Planned(n)
    BY <1>1, NoneIsApart DEF Idle, Request, Planned, Deadline
<1>3. /\ admin' = [admin EXCEPT ![a] = n] /\ Takes(Rows, a) /\ Asks
      /\ UNCHANGED <<event, redis, now, runner, asked>>
    BY DEF Start
<1> HIDE DEF n
<1>4. admin' \in [Admins -> Request] /\ \A b \in Admins : Planned(admin'[b])
    BY <1>2, <1>3, RequestTypes
<1>5. QED
    BY <1>3, <1>4, LockTypes, SpentTypes DEF TypeInv, TypeOK, redis

LEMMA StopTypes ==
    ASSUME ScheduleAssumption, TypeInv, NEW a \in Admins, Stop(a)
    PROVE  TypeInv'
<1> DEFINE n == [Idle EXCEPT !.pc = "commit", !.off = Active]
<1>1. n \in Request /\ Planned(n)
    BY DEF Idle, Request, Planned, Deadline, Active
<1>2. /\ admin' = [admin EXCEPT ![a] = n] /\ Takes({Channel} \union Active, a) /\ Asks /\ Cancel
      /\ UNCHANGED <<event, now, runner, asked>>
    BY DEF Stop
<1> HIDE DEF n
<1>3. admin' \in [Admins -> Request] /\ \A b \in Admins : Planned(admin'[b])
    BY <1>1, <1>2, RequestTypes
<1>4. jobs' \subseteq Job /\ key' \in Nat \union {None} /\ lastJob' \in Nat
    BY <1>2, RedisTypes DEF TypeInv, TypeOK
<1>5. QED
    BY <1>2, <1>3, <1>4, LockTypes, SpentTypes DEF TypeInv, TypeOK

LEMMA DeleteTypes ==
    ASSUME ScheduleAssumption, TypeInv, NEW a \in Admins, NEW e \in Events, Delete(a, e)
    PROVE  TypeInv'
<1> DEFINE n == [Idle EXCEPT !.pc = "commit", !.gone = {e}]
<1>1. n \in Request /\ Planned(n)
    BY DEF Idle, Request, Planned, Deadline
<1>2. /\ admin' = [admin EXCEPT ![a] = n] /\ Takes({Channel, e}, a) /\ Asks
      /\ Cancel \/ UNCHANGED redis
      /\ UNCHANGED <<event, now, runner, asked>>
    BY DEF Delete
<1> HIDE DEF n
<1>3. admin' \in [Admins -> Request] /\ \A b \in Admins : Planned(admin'[b])
    BY <1>1, <1>2, RequestTypes
<1>4. jobs' \subseteq Job /\ key' \in Nat \union {None} /\ lastJob' \in Nat
    BY <1>2, RedisTypes DEF TypeInv, TypeOK, redis
<1>5. QED
    BY <1>2, <1>3, <1>4, LockTypes, SpentTypes DEF TypeInv, TypeOK

LEMMA ToggleTypes ==
    ASSUME ScheduleAssumption, TypeInv, NEW a \in Admins, NEW e \in Events,
           NEW d \in Durations, Toggle(a, e, d)
    PROVE  TypeInv'
<1> DEFINE n == IF e \in Active
                THEN [Idle EXCEPT !.pc = "write", !.seen = e]
                ELSE [Idle EXCEPT !.pc = "write", !.on = e, !.clears = TRUE, !.for = d,
                                  !.seen = IF Active = {} THEN None
                                           ELSE CHOOSE f \in Active : TRUE]
<1>1. n \in Request /\ Planned(n)
    <2>1. Active # {} => (CHOOSE f \in Active : TRUE) \in Events
        BY DEF Active
    <2>2. QED
        BY <2>1, NoneIsApart DEF Idle, Request, Planned, Deadline
<1>2. /\ admin' = [admin EXCEPT ![a] = n] /\ Asks /\ Cancel
      /\ UNCHANGED <<event, locked, now, runner, asked>>
    BY DEF Toggle
<1> HIDE DEF n
<1>3. admin' \in [Admins -> Request] /\ \A b \in Admins : Planned(admin'[b])
    BY <1>1, <1>2, RequestTypes
<1>4. jobs' \subseteq Job /\ key' \in Nat \union {None} /\ lastJob' \in Nat
    BY <1>2, RedisTypes DEF TypeInv, TypeOK
<1>5. QED
    BY <1>2, <1>3, <1>4, SpentTypes DEF TypeInv, TypeOK

\* Request a becomes n: it ends the events n.off for the event `on`, or is refused.
Writes(a, n, on) ==
    /\ Planned(n) /\ admin' = [admin EXCEPT ![a] = n]
    /\ UNCHANGED <<event, redis, now, runner, asked, spent>>
    /\ on = {} \/ IndexSettled
    /\ \/ n = Idle /\ UNCHANGED locked
       \/ /\ n.on = admin[a].on /\ n.gone = admin[a].gone /\ n.pc \in {"commit", "schedule"}
          /\ Free(on \union n.off) /\ Takes(on \union n.off, a)
          /\ \A e \in on : event[e].exists /\ ~Refuses(e, n.off)

\* A request that toggles an event writes what it has to, or is refused.
LEMMA WriteGoes ==
    ASSUME ScheduleAssumption, TypeInv, NEW a \in Admins, Write(a)
    PROVE  \E n \in Request : Writes(a, n, {admin[a].on} \ {None})
<1> DEFINE r == admin[a]
           on == {r.on} \ {None}
           off == {e \in Active \union ({r.seen} \ {None}) : event[e].exists} \ on
           n == [r EXCEPT !.pc = IF r.for = None THEN "commit" ELSE "schedule", !.off = off,
                          !.ends = IF r.for = None THEN None ELSE now + r.for]
<1>1. r \in Request /\ r.pc = "write" /\ Planned(r)
    BY DEF Write, TypeInv, TypeOK
<1>2. r.for = None \/ (r.for \in Nat /\ now + r.for \in Nat)
    <2>1. r.for \in Durations \union {None}
        BY <1>1 DEF Request
    <2>2. now \in Nat
        BY DEF ScheduleAssumption, TypeInv, TypeOK
    <2>3. Durations \subseteq Nat \union {None}
        BY DEF ScheduleAssumption
    <2>4. \A x \in Nat : now + x \in Nat
        BY <2>2
    <2>5. r.for = None \/ r.for \in Nat
        BY <2>1, <2>3
    <2> HIDE DEF r
    <2>6. QED
        BY <2>4, <2>5
<1>3. off \subseteq Events
    BY <1>1 DEF Active, Request
<1>4. CASE \E e \in on : ~event[e].exists \/ Refuses(e, off)
    <2>1. /\ admin' = [admin EXCEPT ![a] = Idle] /\ UNCHANGED locked
          /\ on = {} \/ IndexSettled
          /\ UNCHANGED <<event, redis, now, runner, asked, spent>>
        BY <1>4 DEF Write
    <2>2. Writes(a, Idle, on)
        BY <2>1, IdleTypes DEF Writes
    <2>3. QED
        BY <2>2, IdleTypes
<1>5. CASE ~\E e \in on : ~event[e].exists \/ Refuses(e, off)
    <2> HIDE DEF off
    <2>1. n \in Request /\ Planned(n)
        BY <1>1, <1>2, <1>3, NoneIsApart DEF Request, Planned, Deadline
    <2>2. n.on = r.on /\ n.gone = r.gone /\ n.pc \in {"commit", "schedule"} /\ n.off = off
        BY <1>1 DEF Request
    <2>3. /\ admin' = [admin EXCEPT ![a].pc = IF r.for = None THEN "commit" ELSE "schedule",
                                    ![a].off = off,
                                    ![a].ends = IF r.for = None THEN None ELSE now + r.for]
          /\ Free(on \union off) /\ Takes(on \union off, a)
          /\ on = {} \/ IndexSettled
          /\ UNCHANGED <<event, redis, now, runner, asked, spent>>
        BY <1>5 DEF Write, off
    <2>4. admin' = [admin EXCEPT ![a] = n]
        BY <2>3 DEF TypeInv, TypeOK
    <2> HIDE DEF n
    <2>5. Writes(a, n, on)
        BY <1>5, <2>1, <2>2, <2>3, <2>4 DEF Writes
    <2>6. QED
        BY <2>1, <2>5
<1>6. QED
    BY <1>4, <1>5

LEMMA WriteTypes ==
    ASSUME ScheduleAssumption, TypeInv, NEW a \in Admins, Write(a)
    PROVE  TypeInv'
<1>1. PICK n \in Request :
         /\ Planned(n) /\ admin' = [admin EXCEPT ![a] = n]
         /\ UNCHANGED <<event, redis, now, runner, asked, spent>>
         /\ UNCHANGED locked \/ \E S : Takes(S, a)
    BY WriteGoes DEF Writes
<1>2. admin' \in [Admins -> Request] /\ \A b \in Admins : Planned(admin'[b])
    BY <1>1, RequestTypes
<1>3. locked' \in [Rows -> Admins \union {Runner, None}]
    BY <1>1, LockTypes DEF TypeInv, TypeOK
<1>4. QED
    BY <1>1, <1>2, <1>3 DEF TypeInv, TypeOK, redis

LEMMA UpdateTypes ==
    ASSUME ScheduleAssumption, TypeInv, NEW a \in Admins, NEW e \in Events,
           NEW activate \in BOOLEAN, Update(a, e, activate)
    PROVE  TypeInv'
<1> DEFINE off == IF activate THEN Active \ {e} ELSE Active
           rows == IF activate THEN off \union {e} ELSE off
           n == [Idle EXCEPT !.pc = "cancel", !.off = off,
                             !.on = IF activate THEN e ELSE None]
<1>1. n \in Request /\ Planned(n)
    BY DEF Idle, Request, Planned, Deadline, Active
<1>2. /\ admin' = [admin EXCEPT ![a] = n] /\ Takes(rows, a) /\ Asks
      /\ UNCHANGED <<event, redis, now, runner, asked>>
    BY DEF Update
<1> HIDE DEF n, rows
<1>3. admin' \in [Admins -> Request] /\ \A b \in Admins : Planned(admin'[b])
    BY <1>1, <1>2, RequestTypes
<1>4. QED
    BY <1>2, <1>3, LockTypes, SpentTypes DEF TypeInv, TypeOK, redis

\* Redis is written, and the transaction is left to be committed.
LEMMA RedisStepTypes ==
    ASSUME ScheduleAssumption, TypeInv, NEW a \in Admins, Schedules(a) \/ Cancels(a)
    PROVE  TypeInv'
<1> DEFINE n == [admin[a] EXCEPT !.pc = "commit"]
<1>1. admin[a] \in Request /\ Planned(admin[a])
    BY DEF TypeInv, TypeOK
<1>2. n \in Request /\ Planned(n)
    BY <1>1 DEF Request, Planned
<1>3. /\ admin' = [admin EXCEPT ![a] = n]
      /\ UNCHANGED <<event, locked, now, runner, asked, spent>>
    BY DEF Schedules, Cancels, TypeInv, TypeOK
<1> HIDE DEF n
<1>4. admin' \in [Admins -> Request] /\ \A b \in Admins : Planned(admin'[b])
    BY <1>2, <1>3, RequestTypes
<1>5. jobs' \subseteq Job /\ key' \in Nat \union {None} /\ lastJob' \in Nat
    <2>1. jobs \subseteq Job /\ key \in Nat \union {None} /\ lastJob \in Nat
        BY DEF TypeInv, TypeOK
    <2>2. CASE Schedules(a)
        <3>1. admin[a].on \in Events /\ admin[a].ends \in Nat /\ Scheduled(admin[a].on, admin[a].ends)
            BY <1>1, <2>2 DEF Schedules, Request, Planned, Deadline
        <3>2. QED
            BY <2>1, <3>1, RedisTypes
    <2>3. CASE Cancels(a)
        BY <2>1, <2>3, RedisTypes DEF Cancels
    <2>4. QED
        BY <2>2, <2>3
<1>6. QED
    BY <1>3, <1>4, <1>5 DEF TypeInv, TypeOK

LEMMA CommitTypes ==
    ASSUME ScheduleAssumption, TypeInv, NEW a \in Admins, Commit(a)
    PROVE  TypeInv'
<1> DEFINE r == admin[a]
<1>1. r \in Request
    BY DEF TypeInv, TypeOK
<1>2. event' \in [Events -> Event]
    <2> DEFINE row(e) == IF e = r.on
             THEN [event[e] EXCEPT !.active = TRUE, !.ends = IF r.clears THEN r.ends ELSE @]
             ELSE IF e \in r.gone
             THEN [exists |-> FALSE, active |-> FALSE, ends |-> None]
             ELSE IF e \in r.off /\ e \in Active
             THEN [event[e] EXCEPT !.active = FALSE, !.ends = now]
             ELSE event[e]
    <2>1. ASSUME NEW e \in Events PROVE row(e) \in Event
        <3>1. event[e] \in Event /\ now \in Nat /\ r.ends \in Deadline
            BY <1>1 DEF TypeInv, TypeOK, Request, ScheduleAssumption
        <3>2. QED
            BY <3>1 DEF Event, Deadline
    <2>2. event' = [e \in Events |-> row(e)]
        BY DEF Commit
    <2> HIDE DEF row
    <2>3. QED
        BY <2>1, <2>2
<1>3. asked' \in [Events -> Deadline]
    BY <1>1 DEF Commit, TypeInv, TypeOK, Request
<1>4. /\ admin' = [admin EXCEPT ![a] = Idle] /\ locked' = Release(a)
      /\ UNCHANGED <<redis, now, runner, spent>>
    BY DEF Commit
<1>5. admin' \in [Admins -> Request] /\ \A b \in Admins : Planned(admin'[b])
    BY <1>4, IdleTypes, RequestTypes
<1>6. QED
    BY <1>2, <1>3, <1>4, <1>5, LockTypes DEF TypeInv, TypeOK, redis

LEMMA FailTypes ==
    ASSUME ScheduleAssumption, TypeInv, NEW a \in Admins, Fail(a)
    PROVE  TypeInv'
<1>1. /\ admin' = [admin EXCEPT ![a] = Idle] /\ locked' = Release(a)
      /\ spent.failures < MaxFailures /\ spent' = [spent EXCEPT !.failures = @ + 1]
      /\ UNCHANGED <<event, redis, now, runner, asked>>
    BY DEF Fail
<1>2. admin' \in [Admins -> Request] /\ \A b \in Admins : Planned(admin'[b])
    BY <1>1, IdleTypes, RequestTypes
<1>3. QED
    BY <1>1, <1>2, LockTypes, SpentTypes DEF TypeInv, TypeOK, redis

LEMMA PostgresPassTypes ==
    ASSUME ScheduleAssumption, TypeInv, PostgresPass
    PROVE  TypeInv'
<1> DEFINE due == {e \in Overdue : locked[e] = None}
           n == [runner EXCEPT !.pc = "redis", !.off = due]
<1>1. runner \in Running /\ due \subseteq Events
    BY DEF TypeInv, TypeOK, Overdue, Active
<1>2. n \in Running /\ n.pc = "redis"
    BY <1>1 DEF Running
<1>3. /\ runner' = n /\ Takes(due, Runner) /\ (UNCHANGED redis \/ Cancel)
      /\ UNCHANGED <<event, now, admin, asked, spent>>
    BY DEF PostgresPass
<1> HIDE DEF n, due
<1>4. jobs' \subseteq Job /\ key' \in Nat \union {None} /\ lastJob' \in Nat
    BY <1>3, RedisTypes DEF TypeInv, TypeOK, redis
<1>5. QED
    BY <1>2, <1>3, <1>4, LockTypes DEF TypeInv, TypeOK

LEMMA GetDueJobsTypes ==
    ASSUME ScheduleAssumption, TypeInv, GetDueJobs
    PROVE  TypeInv'
<1> DEFINE n == [runner EXCEPT !.pc = "each", !.due = {j \in jobs : j.at <= now}]
<1>1. n \in Running /\ n.pc = "each"
    BY DEF Running, TypeInv, TypeOK
<1>2. runner' = n /\ UNCHANGED <<event, locked, redis, now, admin, asked, spent>>
    BY DEF GetDueJobs
<1> HIDE DEF n
<1>3. QED
    BY <1>1, <1>2 DEF TypeInv, TypeOK, redis

LEMMA LookTypes ==
    ASSUME ScheduleAssumption, TypeInv, NEW j \in runner.due, Look(j)
    PROVE  TypeInv'
<1> DEFINE taken == [runner EXCEPT !.pc = "end", !.job = j]
           left == [runner EXCEPT !.due = @ \ {j}]
<1>1. runner \in Running /\ runner.pc = "each" /\ j \in Job
    BY DEF Look, Running, TypeInv, TypeOK
<1>2. /\ taken \in Running /\ taken.job = j
      /\ left \in Running /\ left.pc = "each"
    BY <1>1 DEF Running
<1>3. /\ \/ runner' = taken /\ UNCHANGED redis
         \/ runner' = left /\ Completed(j)
      /\ UNCHANGED <<event, locked, now, admin, asked, spent>>
    BY DEF Look
<1> HIDE DEF taken, left
<1>4. jobs' \subseteq Job /\ key' \in Nat \union {None} /\ lastJob' \in Nat
    BY <1>3, RedisTypes DEF TypeInv, TypeOK, redis
<1>5. runner' \in Running /\ (runner'.pc = "end" => runner'.job \in Job)
    BY <1>1, <1>2, <1>3
<1>6. QED
    BY <1>3, <1>4, <1>5 DEF TypeInv, TypeOK

LEMMA EndTypes ==
    ASSUME ScheduleAssumption, TypeInv, End
    PROVE  TypeInv'
<1> DEFINE off == {runner.job.event} \union Active
           n == [runner EXCEPT !.pc = "each", !.off = @ \union off,
                               !.due = @ \ {runner.job}, !.job = None]
<1>1. runner \in Running /\ off \subseteq Events
    BY DEF End, TypeInv, TypeOK, Job, Active
<1>2. n \in Running /\ n.pc = "each"
    BY <1>1 DEF Running
<1>3. /\ runner' = n /\ Takes(off, Runner) /\ Completed(runner.job)
      /\ UNCHANGED <<event, now, admin, asked, spent>>
    BY DEF End
<1> HIDE DEF n, off
<1>4. jobs' \subseteq Job /\ key' \in Nat \union {None} /\ lastJob' \in Nat
    BY <1>3, RedisTypes DEF TypeInv, TypeOK
<1>5. QED
    BY <1>2, <1>3, <1>4, LockTypes DEF TypeInv, TypeOK

\* The runner gives up or commits, and sleeps.
LEMMA SleepTypes ==
    ASSUME ScheduleAssumption, TypeInv, EndSpoilt \/ RunnerCommits \/ RunnerFails
    PROVE  TypeInv'
<1>1. /\ runner' = Asleep /\ locked' = Release(Runner)
      /\ UNCHANGED <<redis, now, admin, asked>>
    BY DEF EndSpoilt, RunnerCommits, RunnerFails
<1>2. event' \in [Events -> Event]
    <2>1. now \in Nat
        BY DEF TypeInv, TypeOK, ScheduleAssumption
    <2>2. event \in [Events -> Event]
        BY DEF TypeInv, TypeOK
    <2>3. \A e \in Events : [event[e] EXCEPT !.active = FALSE, !.ends = now] \in Event
        BY <2>1, <2>2 DEF Event, Deadline
    <2>4. CASE RunnerCommits
        BY <2>2, <2>3, <2>4 DEF RunnerCommits
    <2>5. CASE EndSpoilt \/ RunnerFails
        BY <2>2, <2>5 DEF EndSpoilt, RunnerFails
    <2>6. QED
        BY <2>4, <2>5
<1>3. \/ UNCHANGED spent
      \/ spent.failures < MaxFailures /\ spent' = [spent EXCEPT !.failures = @ + 1]
    BY DEF EndSpoilt, RunnerCommits, RunnerFails
<1>4. QED
    BY <1>1, <1>2, <1>3, IdleTypes, LockTypes, SpentTypes DEF TypeInv, TypeOK, redis

\* Redis loses its jobs, or time passes.
LEMMA OutsideTypes ==
    ASSUME ScheduleAssumption, TypeInv, RedisLoses \/ Tick
    PROVE  TypeInv'
<1>1. CASE RedisLoses
    BY <1>1, SpentTypes DEF RedisLoses, TypeInv, TypeOK
<1>2. CASE Tick
    BY <1>2 DEF Tick, TypeInv, TypeOK, ScheduleAssumption, redis
<1>3. QED
    BY <1>1, <1>2

LEMMA TypesStep ==
    ASSUME ScheduleAssumption, TypeInv, [Next]_vars
    PROVE  TypeInv'
<1>1. ASSUME NEW a \in Admins, Serves(a) \/ Fail(a) \/ Stop(a)
      PROVE  TypeInv'
    BY <1>1, WriteTypes, RedisStepTypes, CommitTypes, FailTypes, StopTypes DEF Serves
<1>2. ASSUME NEW a \in Admins, NEW e \in Events,
             \/ Delete(a, e)
             \/ \E d \in Durations : Start(a, e, d) \/ Toggle(a, e, d)
             \/ \E on \in BOOLEAN : Update(a, e, on)
      PROVE  TypeInv'
    BY <1>2, DeleteTypes, StartTypes, ToggleTypes, UpdateTypes
<1>3. CASE Runs
    BY <1>3, PostgresPassTypes, GetDueJobsTypes, EndTypes, SleepTypes, LookTypes DEF Runs
<1>4. CASE RunnerFails \/ RedisLoses \/ Tick
    BY <1>4, SleepTypes, OutsideTypes
<1>5. CASE UNCHANGED vars
    BY <1>5 DEF vars, redis, TypeInv, TypeOK
<1>6. QED
    BY <1>1, <1>2, <1>3, <1>4, <1>5 DEF Next

LEMMA TypesInit ==
    ASSUME ScheduleAssumption, Init
    PROVE  TypeInv
  BY IdleTypes DEF ScheduleAssumption, Init, TypeInv, TypeOK, Event, Deadline, Rows

\* The rows, the locks, Redis, the requests and the runner keep their types.
THEOREM ScheduleTypeCorrect ==
    ASSUME ScheduleAssumption
    PROVE  Spec => []TypeOK
<1>1. Init => TypeInv
    BY TypesInit
<1>2. TypeInv /\ [Next]_vars => TypeInv'
    BY TypesStep
<1>3. TypeInv => TypeOK
    BY DEF TypeInv
<1>4. QED
    BY <1>1, <1>2, <1>3, PTL DEF Spec

-----------------------------------------------------------------------------
(* At most one event is active *)

\* Request a is about to activate an event.
Late(a) == admin[a].on # None /\ admin[a].pc \in {"schedule", "cancel", "commit"}

\* It ends every other one, and has locked the row of its own, which exists.
Settles(a) ==
    /\ Active \subseteq admin[a].off \union {admin[a].on}
    /\ locked[admin[a].on] = a
    /\ event[admin[a].on].exists
    /\ admin[a].gone = {}

ActiveInv ==
    /\ \A e, f \in Active : e = f
    /\ Active \subseteq {e \in Events : event[e].exists}
    /\ \A a \in Admins : Late(a) => Settles(a)
    /\ \A a, b \in Admins : Late(a) /\ Late(b) => a = b
    \* a toggle deletes nothing, and what is deleted is locked
    /\ \A a \in Admins : admin[a].pc \in {"write", "schedule", "cancel"} => admin[a].gone = {}
    /\ \A a \in Admins : admin[a].pc = "commit" => \A e \in admin[a].gone : locked[e] = a

ScheduleInv == TypeInv /\ ActiveInv

\* Nobody comes to activate an event: who is about to was before, and still
\* holds what it had locked.
Calm ==
    /\ Active' \subseteq Active
    /\ \A e \in Events : event[e].exists => event'[e].exists
    /\ \A a \in Admins :
         \/ /\ admin'[a].on = admin[a].on /\ admin'[a].off = admin[a].off
            /\ admin'[a].gone = admin[a].gone
            /\ admin[a].pc \in {"schedule", "cancel", "commit"}
            /\ admin'[a].pc \in {admin[a].pc, "commit"}
            /\ \A e \in Events : locked[e] = a => locked'[e] = a
         \/ admin'[a].pc = "idle"
         \/ admin'[a].pc = "write" /\ admin'[a].gone = {}
         \/ /\ admin'[a].on = None /\ admin'[a].pc \in {"commit", "cancel"}
            /\ admin'[a].gone = {}
         \/ /\ admin'[a].on = None /\ admin'[a].pc = "commit"
            /\ \A e \in admin'[a].gone : locked'[e] = a

LEMMA CalmKeeps ==
    ASSUME ScheduleInv, TypeInv', Calm
    PROVE  ActiveInv'
<1>1. ASSUME NEW a \in Admins, Late(a)'
      PROVE  /\ Late(a) /\ Settles(a)'
             /\ admin'[a].on = admin[a].on
    <2>1. /\ admin'[a].on = admin[a].on /\ admin'[a].off = admin[a].off
          /\ admin'[a].gone = admin[a].gone
          /\ admin[a].pc \in {"schedule", "cancel", "commit"}
          /\ \A e \in Events : locked[e] = a => locked'[e] = a
        BY <1>1 DEF Calm, Late
    <2>2. Late(a) /\ admin[a].on \in Events
        BY <1>1, <2>1 DEF Late, ScheduleInv, TypeInv, TypeOK, Request
    <2>3. Settles(a)
        BY <2>2 DEF ScheduleInv, ActiveInv
    <2>4. Settles(a)'
        BY <2>1, <2>2, <2>3 DEF Settles, Calm
    <2>5. QED
        BY <2>1, <2>2, <2>4
<1>2. \A e, f \in Active' : e = f
    BY DEF Calm, ScheduleInv, ActiveInv
<1>3. Active' \subseteq {e \in Events : event'[e].exists}
    BY DEF Calm, ScheduleInv, ActiveInv
<1>4. \A a \in Admins : (Late(a) => Settles(a))'
    BY <1>1
<1>5. \A a, b \in Admins : (Late(a) /\ Late(b) => a = b)'
    BY <1>1 DEF ScheduleInv, ActiveInv
<1>6. ASSUME NEW a \in Admins
      PROVE  /\ admin'[a].pc \in {"write", "schedule", "cancel"} => admin'[a].gone = {}
             /\ admin'[a].pc = "commit" => \A e \in admin'[a].gone : locked'[e] = a
    <2>1. admin[a].gone \subseteq Events
        BY DEF ScheduleInv, TypeInv, TypeOK, Request
    <2>2. /\ admin[a].pc \in {"schedule", "cancel"} => admin[a].gone = {}
          /\ admin[a].pc = "commit" => \A e \in admin[a].gone : locked[e] = a
        BY DEF ScheduleInv, ActiveInv
    <2>3. QED
        BY <2>1, <2>2 DEF Calm
<1>7. QED
    BY <1>2, <1>3, <1>4, <1>5, <1>6 DEF ActiveInv

\* Nobody else was about to activate an event when a came to be.
LEMMA LateKeeps ==
    ASSUME ScheduleInv, TypeInv', NEW a \in Admins,
           \A b \in Admins : ~Late(b),
           UNCHANGED event, Settles(a)', admin'[a].pc # "write",
           \A b \in Admins \ {a} :
              admin'[b] = admin[b] /\ \A e \in Events : locked[e] = b => locked'[e] = b
    PROVE  ActiveInv'
<1>1. Active' = Active
    BY DEF Active
<1>2. ASSUME NEW b \in Admins \ {a} PROVE ~Late(b)'
    BY DEF Late
<1>3. \A b \in Admins : (Late(b) => Settles(b))'
    BY <1>2
<1>4. \A b, c \in Admins : (Late(b) /\ Late(c) => b = c)'
    BY <1>2
<1>5. ASSUME NEW b \in Admins
      PROVE  /\ admin'[b].pc \in {"write", "schedule", "cancel"} => admin'[b].gone = {}
             /\ admin'[b].pc = "commit" => \A e \in admin'[b].gone : locked'[e] = b
    <2>1. CASE b = a
        BY <2>1 DEF Settles
    <2>2. CASE b # a
        <3>1. admin[b].gone \subseteq Events
            BY DEF ScheduleInv, TypeInv, TypeOK, Request
        <3>2. QED
            BY <2>2, <3>1 DEF ScheduleInv, ActiveInv
    <2>3. QED
        BY <2>1, <2>2
<1>6. QED
    BY <1>1, <1>3, <1>4, <1>5 DEF ScheduleInv, ActiveInv

\* Rows that are free, or the runner's own, are taken from no administrator.
LEMMA TakesKeeps ==
    ASSUME ScheduleAssumption, TypeOK, NEW S, NEW who, Takes(S, who),
           \A x \in S : locked[x] \in {None, Runner}
    PROVE  \A b \in Admins : \A e \in Events : locked[e] = b => locked'[e] = b
  BY DEF Takes, TypeOK, Rows, ScheduleAssumption

LEMMA ReleaseKeeps ==
    ASSUME TypeOK, NEW who, locked' = Release(who)
    PROVE  \A b \in Admins : \A e \in Events : b # who /\ locked[e] = b => locked'[e] = b
  BY DEF Release, TypeOK, Rows

\* Where every row is free nobody is about to activate an event.
LEMMA FreeRowsSettled ==
    ASSUME ScheduleAssumption, ScheduleInv, Free(Rows)
    PROVE  \A b \in Admins : ~Late(b)
<1> SUFFICES ASSUME NEW b \in Admins, Late(b) PROVE FALSE
    OBVIOUS
<1>1. admin[b].on \in Events
    BY DEF Late, ScheduleInv, TypeInv, TypeOK, Request
<1>2. locked[admin[b].on] = b
    BY DEF ScheduleInv, ActiveInv, Settles
<1>3. QED
    BY <1>1, <1>2 DEF Free, Rows, ScheduleAssumption

LEMMA SettledNobodyLate ==
    ASSUME IndexSettled
    PROVE  \A b \in Admins : ~Late(b)
  BY DEF IndexSettled, Late

\* Who is not refused ends every other active event.
LEMMA NotRefused ==
    ASSUME NEW e, NEW off, ~Refuses(e, off)
    PROVE  Active \subseteq off \union {e}
  BY DEF Refuses

LEMMA StartKeeps ==
    ASSUME ScheduleAssumption, ScheduleInv, NEW a \in Admins, NEW e \in Events,
           NEW d \in Durations, Start(a, e, d)
    PROVE  ActiveInv'
<1>1. TypeInv /\ TypeOK
    BY DEF ScheduleInv, TypeInv
<1>2. TypeInv'
    BY <1>1, StartTypes
<1>3. Free(Rows) /\ ~Refuses(e, Events \ {e}) /\ event[e].exists /\ Takes(Rows, a) /\ UNCHANGED event
    BY DEF Start
<1>4. /\ \A b \in Admins \ {a} : admin'[b] = admin[b]
      /\ admin'[a].on = e /\ admin'[a].off = Events \ {e} /\ admin'[a].gone = {}
      /\ admin'[a].pc # "write"
    BY <1>1 DEF Start, Idle, TypeOK
<1>5. \A b \in Admins \ {a} : \A f \in Events : locked[f] = b => locked'[f] = b
    BY <1>1, <1>3, TakesKeeps DEF Free
<1>6. locked'[e] = a
    BY <1>3 DEF Takes, Rows
<1>7. Active' \subseteq (Events \ {e}) \union {e}
    BY DEF Active
<1>8. Settles(a)'
    BY <1>3, <1>4, <1>6, <1>7 DEF Settles
<1>9. QED
    BY <1>2, <1>3, <1>4, <1>5, <1>8, FreeRowsSettled, LateKeeps

LEMMA WriteKeeps ==
    ASSUME ScheduleAssumption, ScheduleInv, NEW a \in Admins, Write(a)
    PROVE  ActiveInv'
<1>1. TypeInv /\ TypeOK /\ TypeInv'
    BY WriteTypes DEF ScheduleInv, TypeInv
<1>2. PICK n \in Request : Writes(a, n, {admin[a].on} \ {None})
    BY <1>1, WriteGoes
<1>3. admin' = [admin EXCEPT ![a] = n] /\ UNCHANGED event
    BY <1>2 DEF Writes
<1>4. admin'[a] = n /\ \A b \in Admins \ {a} : admin'[b] = admin[b]
    BY <1>1, <1>3 DEF TypeOK
<1>5. admin[a].pc = "write" /\ admin[a].gone = {}
    BY DEF Write, ScheduleInv, ActiveInv
<1>6. /\ Active' = Active
      /\ \A f \in Events : event'[f].exists = event[f].exists
    BY <1>3 DEF Active
<1>7. \A b \in Admins : \A f \in Events : locked[f] = b => locked'[f] = b
    <2>1. CASE UNCHANGED locked
        BY <2>1
    <2>2. CASE \E S : Free(S) /\ Takes(S, a)
        BY <1>1, <2>2, TakesKeeps DEF Free
    <2>3. QED
        BY <1>2, <2>1, <2>2 DEF Writes
<1>8. \A b \in Admins \ {a} :
         admin[b].pc \in {"idle", "write", "schedule", "cancel", "commit"}
    BY <1>1 DEF TypeOK, Request
<1>9. CASE n = Idle \/ admin[a].on = None
    <2>1. \/ admin'[a].pc = "idle"
          \/ admin'[a].on = None /\ admin'[a].pc \in {"commit", "schedule"} /\ admin'[a].gone = {}
        BY <1>2, <1>4, <1>5, <1>9 DEF Writes, Idle
    <2>2. admin'[a].pc = "schedule" => admin'[a].on # None
        BY <1>1 DEF TypeInv, Planned
    <2>3. Calm
        BY <1>4, <1>6, <1>7, <1>8, <2>1, <2>2 DEF Calm, ScheduleInv, ActiveInv
    <2>4. QED
        BY <1>1, <2>3, CalmKeeps
<1>10. CASE n # Idle /\ admin[a].on # None
    <2> DEFINE e == admin[a].on
    <2>1. /\ {e} \ {None} = {e} /\ e \in Events
        BY <1>1, <1>10 DEF TypeOK, Request
    <2>2. /\ n.on = e /\ n.gone = {} /\ n.pc \in {"commit", "schedule"}
          /\ Takes({e} \union n.off, a) /\ IndexSettled
          /\ event[e].exists /\ ~Refuses(e, n.off)
        BY <1>2, <1>5, <1>10, <2>1 DEF Writes
    <2>3. locked'[e] = a
        BY <2>1, <2>2 DEF Takes, Rows
    <2>4. Active' \subseteq n.off \union {e}
        BY <1>6, <2>2, NotRefused
    <2>5. Settles(a)'
        BY <1>3, <1>4, <2>2, <2>3, <2>4 DEF Settles
    <2>6. QED
        BY <1>1, <1>3, <1>4, <1>7, <2>2, <2>5, SettledNobodyLate, LateKeeps
<1>11. QED
    BY <1>9, <1>10

\* Where a request may be.
LEMMA RequestStages ==
    ASSUME ScheduleInv, NEW b \in Admins
    PROVE  \/ admin[b].pc = "idle" \/ (admin[b].pc = "write" /\ admin[b].gone = {})
           \/ admin[b].pc \in {"schedule", "cancel", "commit"}
<1>1. admin[b].pc \in {"idle", "write", "schedule", "cancel", "commit"}
    BY DEF ScheduleInv, TypeInv, TypeOK, Request
<1>2. admin[b].pc = "write" => admin[b].gone = {}
    BY DEF ScheduleInv, ActiveInv
<1>3. QED
    BY <1>1, <1>2

\* A step that leaves the events alone and takes no row from an administrator
\* is calm for everybody but whom it serves.
LEMMA OthersCalm ==
    ASSUME ScheduleInv, NEW a \in Admins, NEW n, admin' = [admin EXCEPT ![a] = n],
           \A b \in Admins \ {a} : \A f \in Events : locked[f] = b => locked'[f] = b,
           Active' \subseteq Active,
           \A e \in Events : event[e].exists => event'[e].exists,
           \/ n.pc = "idle"
           \/ n.pc = "write" /\ n.gone = {}
           \/ n.on = None /\ n.pc \in {"commit", "cancel"} /\ n.gone = {}
           \/ n.on = None /\ n.pc = "commit" /\ \A e \in n.gone : locked'[e] = a
    PROVE  Calm
<1>1. admin'[a] = n /\ \A b \in Admins \ {a} : admin'[b] = admin[b]
    BY DEF ScheduleInv, TypeInv, TypeOK
<1>2. ASSUME NEW b \in Admins \ {a}
      PROVE  \/ admin[b].pc = "idle" \/ (admin[b].pc = "write" /\ admin[b].gone = {})
             \/ admin[b].pc \in {"schedule", "cancel", "commit"}
    BY RequestStages
<1>3. QED
    BY <1>1, <1>2 DEF Calm

LEMMA StopKeeps ==
    ASSUME ScheduleAssumption, ScheduleInv, NEW a \in Admins, Stop(a)
    PROVE  ActiveInv'
<1> DEFINE n == [Idle EXCEPT !.pc = "commit", !.off = Active]
<1>1. n.pc = "commit" /\ n.on = None /\ n.gone = {}
    BY DEF Idle
<1>2. /\ admin' = [admin EXCEPT ![a] = n] /\ UNCHANGED event
      /\ Free({Channel} \union Active) /\ Takes({Channel} \union Active, a)
    BY DEF Stop
<1> HIDE DEF n
<1>3. TypeOK /\ TypeInv'
    BY StopTypes DEF ScheduleInv, TypeInv
<1>4. \A b \in Admins : \A f \in Events : locked[f] = b => locked'[f] = b
    BY <1>2, <1>3, TakesKeeps DEF Free
<1>5. Active' \subseteq Active
    BY <1>2 DEF Active
<1>6. Calm
    BY <1>1, <1>2, <1>4, <1>5, OthersCalm
<1>7. QED
    BY <1>3, <1>6, CalmKeeps

LEMMA DeleteKeeps ==
    ASSUME ScheduleAssumption, ScheduleInv, NEW a \in Admins, NEW e \in Events, Delete(a, e)
    PROVE  ActiveInv'
<1> DEFINE n == [Idle EXCEPT !.pc = "commit", !.gone = {e}]
<1>1. n.pc = "commit" /\ n.on = None /\ n.gone = {e}
    BY DEF Idle
<1>2. /\ admin' = [admin EXCEPT ![a] = n] /\ UNCHANGED event
      /\ Free({Channel, e}) /\ Takes({Channel, e}, a)
    BY DEF Delete
<1> HIDE DEF n
<1>3. TypeOK /\ TypeInv'
    BY DeleteTypes DEF ScheduleInv, TypeInv
<1>4. \A b \in Admins : \A f \in Events : locked[f] = b => locked'[f] = b
    BY <1>2, <1>3, TakesKeeps DEF Free
<1>5. Active' \subseteq Active
    BY <1>2 DEF Active
<1>6. locked'[e] = a
    BY <1>2 DEF Takes, Rows
<1>7. Calm
    BY <1>1, <1>2, <1>4, <1>5, <1>6, OthersCalm
<1>8. QED
    BY <1>3, <1>7, CalmKeeps

LEMMA ToggleKeeps ==
    ASSUME ScheduleAssumption, ScheduleInv, NEW a \in Admins, NEW e \in Events,
           NEW d \in Durations, Toggle(a, e, d)
    PROVE  ActiveInv'
<1>1. PICK n : /\ n.pc = "write" /\ n.gone = {}
               /\ admin' = [admin EXCEPT ![a] = n]
    <2>1. CASE e \in Active
        <3> DEFINE n == [Idle EXCEPT !.pc = "write", !.seen = e]
        <3>1. n.pc = "write" /\ n.gone = {} /\ admin' = [admin EXCEPT ![a] = n]
            BY <2>1 DEF Toggle, Idle
        <3>2. QED
            BY <3>1
    <2>2. CASE e \notin Active
        <3> DEFINE n == [Idle EXCEPT !.pc = "write", !.on = e, !.clears = TRUE, !.for = d,
                                     !.seen = IF Active = {} THEN None
                                              ELSE CHOOSE f \in Active : TRUE]
        <3>1. n.pc = "write" /\ n.gone = {} /\ admin' = [admin EXCEPT ![a] = n]
            BY <2>2 DEF Toggle, Idle
        <3> HIDE DEF n
        <3>2. QED
            BY <3>1
    <2>3. QED
        BY <2>1, <2>2
<1>2. TypeInv'
    BY ToggleTypes DEF ScheduleInv
<1>3. UNCHANGED event /\ UNCHANGED locked
    BY DEF Toggle
<1>4. Active' \subseteq Active
    BY <1>3 DEF Active
<1>5. Calm
    BY <1>1, <1>3, <1>4, OthersCalm
<1>6. QED
    BY <1>2, <1>5, CalmKeeps

LEMMA UpdateKeeps ==
    ASSUME ScheduleAssumption, ScheduleInv, NEW a \in Admins, NEW e \in Events,
           NEW activate \in BOOLEAN, Update(a, e, activate)
    PROVE  ActiveInv'
<1> DEFINE off == IF activate THEN Active \ {e} ELSE Active
           rows == IF activate THEN off \union {e} ELSE off
           n == [Idle EXCEPT !.pc = "cancel", !.off = off,
                             !.on = IF activate THEN e ELSE None]
<1>1. n.pc = "cancel" /\ n.gone = {} /\ n.off = off /\ n.on = IF activate THEN e ELSE None
    BY DEF Idle
<1>2. /\ admin' = [admin EXCEPT ![a] = n] /\ UNCHANGED event
      /\ Free(rows) /\ Takes(rows, a) /\ event[e].exists
      /\ activate => IndexSettled /\ ~Refuses(e, off)
    BY DEF Update
<1> HIDE DEF n
<1>3. TypeOK /\ TypeInv'
    BY UpdateTypes DEF ScheduleInv, TypeInv
<1>4. \A b \in Admins : \A f \in Events : locked[f] = b => locked'[f] = b
    BY <1>2, <1>3, TakesKeeps DEF Free
<1>5. Active' = Active
    BY <1>2 DEF Active
<1>6. admin'[a] = n /\ \A b \in Admins \ {a} : admin'[b] = admin[b]
    BY <1>2, <1>3 DEF TypeOK
<1>7. CASE activate
    <2>1. locked'[e] = a
        BY <1>2, <1>7 DEF Takes, Rows
    <2>2. Active' \subseteq off \union {e}
        BY <1>2, <1>5, <1>7, NotRefused
    <2>3. Settles(a)'
        BY <1>1, <1>2, <1>6, <1>7, <2>1, <2>2 DEF Settles
    <2> HIDE DEF off, rows
    <2>4. QED
        BY <1>1, <1>2, <1>3, <1>4, <1>6, <1>7, <2>3, SettledNobodyLate, LateKeeps
<1>8. CASE ~activate
    <2>1. Calm
        BY <1>1, <1>2, <1>4, <1>5, <1>8, OthersCalm
    <2>2. QED
        BY <1>3, <2>1, CalmKeeps
<1>9. QED
    BY <1>7, <1>8

LEMMA RedisStepKeeps ==
    ASSUME ScheduleAssumption, ScheduleInv, NEW a \in Admins, Schedules(a) \/ Cancels(a)
    PROVE  ActiveInv'
<1>1. TypeInv /\ TypeOK /\ TypeInv'
    BY RedisStepTypes DEF ScheduleInv, TypeInv
<1>2. /\ admin[a].pc \in {"schedule", "cancel"}
      /\ admin' = [admin EXCEPT ![a].pc = "commit"] /\ UNCHANGED <<event, locked>>
    BY DEF Schedules, Cancels
<1>3. /\ \A b \in Admins \ {a} : admin'[b] = admin[b]
      /\ admin'[a].pc = "commit" /\ admin'[a].on = admin[a].on
      /\ admin'[a].off = admin[a].off /\ admin'[a].gone = admin[a].gone
    BY <1>1, <1>2 DEF TypeOK, Request
<1>4. \A b \in Admins : \/ admin[b].pc = "idle" \/ (admin[b].pc = "write" /\ admin[b].gone = {})
                        \/ admin[b].pc \in {"schedule", "cancel", "commit"}
    BY RequestStages
<1>5. Active' \subseteq Active
    BY <1>2 DEF Active
<1>6. Calm
    BY <1>2, <1>3, <1>4, <1>5 DEF Calm
<1>7. QED
    BY <1>1, <1>6, CalmKeeps

\* The others go on, and a is over.
LEMMA OverCalm ==
    ASSUME ScheduleInv, TypeOK, NEW a \in Admins, admin' = [admin EXCEPT ![a] = Idle],
           locked' = Release(a), Active' \subseteq Active,
           \A e \in Events : event[e].exists => event'[e].exists
    PROVE  Calm
<1>1. \A b \in Admins \ {a} : \A f \in Events : locked[f] = b => locked'[f] = b
    BY ReleaseKeeps
<1>2. Idle.pc = "idle"
    BY DEF Idle
<1>3. QED
    BY <1>1, <1>2, OthersCalm

LEMMA FailKeeps ==
    ASSUME ScheduleAssumption, ScheduleInv, NEW a \in Admins, Fail(a)
    PROVE  ActiveInv'
<1>1. TypeOK /\ TypeInv'
    BY FailTypes DEF ScheduleInv, TypeInv
<1>2. Calm
    BY <1>1, OverCalm DEF Fail, Active
<1>3. QED
    BY <1>1, <1>2, CalmKeeps

LEMMA CommitKeeps ==
    ASSUME ScheduleAssumption, ScheduleInv, NEW a \in Admins, Commit(a)
    PROVE  ActiveInv'
<1> DEFINE r == admin[a]
<1>1. TypeOK /\ TypeInv'
    BY CommitTypes DEF ScheduleInv, TypeInv
<1>2. /\ r.pc = "commit" /\ admin' = [admin EXCEPT ![a] = Idle] /\ locked' = Release(a)
      /\ event' = [e \in Events |->
           IF e = r.on
           THEN [event[e] EXCEPT !.active = TRUE,
                                 !.ends = IF r.clears THEN r.ends ELSE @]
           ELSE IF e \in r.gone
           THEN [exists |-> FALSE, active |-> FALSE, ends |-> None]
           ELSE IF e \in r.off /\ e \in Active
           THEN [event[e] EXCEPT !.active = FALSE, !.ends = now]
           ELSE event[e]]
    BY DEF Commit
<1>3. \A e \in Events : event[e] \in Event
    BY <1>1 DEF TypeOK
<1>4. ASSUME NEW e \in Events
      PROVE  /\ e = r.on => event'[e].active /\ event'[e].exists = event[e].exists
             /\ e # r.on /\ event'[e].active => e \in Active /\ e \notin r.off
             /\ e \notin r.gone => event'[e].exists = event[e].exists
             /\ event'[e].active => e = r.on \/ e \notin r.gone
    BY <1>2, <1>3 DEF Event, Active
<1>5. /\ admin'[a] = Idle /\ \A b \in Admins \ {a} : admin'[b] = admin[b]
      /\ Idle.pc = "idle" /\ Idle.gone = {}
    BY <1>1, <1>2 DEF TypeOK, Idle
<1>6. \A b \in Admins \ {a} : \A f \in Events : locked[f] = b => locked'[f] = b
    BY <1>1, <1>2, ReleaseKeeps
<1>7. ~Late(a)'
    BY <1>5 DEF Late
<1>8. \A e \in r.gone : locked[e] = a
    BY <1>2 DEF ScheduleInv, ActiveInv
<1>9. ASSUME NEW b \in Admins \ {a}
      PROVE  /\ Late(b)' => Late(b)
             /\ admin'[b].pc \in {"write", "schedule", "cancel"} => admin'[b].gone = {}
             /\ admin'[b].pc = "commit" => \A e \in admin'[b].gone : locked'[e] = b
    <2>1. admin[b].gone \subseteq Events
        BY <1>1 DEF TypeOK, Request
    <2>2. admin[b].pc \in {"write", "schedule", "cancel"} => admin[b].gone = {}
        BY DEF ScheduleInv, ActiveInv
    <2>3. admin[b].pc = "commit" => \A e \in admin[b].gone : locked[e] = b
        BY DEF ScheduleInv, ActiveInv
    <2>4. QED
        BY <1>5, <1>6, <2>1, <2>2, <2>3 DEF Late
<1>10. CASE Late(a)
    <2>1. Settles(a) /\ r.on \in Events
        BY <1>1, <1>10 DEF ScheduleInv, ActiveInv, Late, TypeOK, Request
    <2>2. Active' \subseteq {r.on}
        BY <1>4, <2>1 DEF Active, Settles
    <2>3. \A b \in Admins : ~Late(b)'
        BY <1>7, <1>9, <1>10 DEF ScheduleInv, ActiveInv
    <2>4. event'[r.on].exists
        BY <1>4, <2>1 DEF Settles
    <2>5. Active' \subseteq {e \in Events : event'[e].exists}
        BY <2>1, <2>2, <2>4
    <2>6. \A e, f \in Active' : e = f
        BY <2>2
    <2>7. \A b \in Admins :
             /\ admin'[b].pc \in {"write", "schedule", "cancel"} => admin'[b].gone = {}
             /\ admin'[b].pc = "commit" => \A e \in admin'[b].gone : locked'[e] = b
        BY <1>5, <1>9
    <2>8. QED
        BY <2>3, <2>5, <2>6, <2>7 DEF ActiveInv
<1>11. CASE ~Late(a)
    <2>1. r.on \notin Events
        BY <1>2, <1>11, NoneIsApart DEF Late
    <2>2. Active' \subseteq Active /\ \A e \in Active' : e \notin r.gone
        BY <1>4, <2>1 DEF Active
    <2>3. Active' \subseteq {e \in Events : event'[e].exists}
        BY <1>4, <2>2 DEF ScheduleInv, ActiveInv
    <2>4. ASSUME NEW b \in Admins, Late(b)' PROVE Settles(b)'
        <3>1. b # a /\ Late(b)
            BY <1>7, <1>9, <2>4
        <3>2. Settles(b) /\ admin[b].on \in Events
            BY <1>1, <3>1 DEF ScheduleInv, ActiveInv, Late, TypeOK, Request
        <3>3. admin[b].on \notin r.gone
            BY <1>8, <3>1, <3>2 DEF Settles
        <3>4. event'[admin[b].on].exists
            BY <1>4, <3>2, <3>3 DEF Settles
        <3>5. locked'[admin[b].on] = b
            BY <1>6, <3>1, <3>2 DEF Settles
        <3>6. admin'[b] = admin[b]
            BY <1>5, <3>1
        <3>7. QED
            BY <2>2, <3>2, <3>4, <3>5, <3>6 DEF Settles
    <2>5. \A b, c \in Admins : (Late(b) /\ Late(c) => b = c)'
        BY <1>7, <1>9 DEF ScheduleInv, ActiveInv
    <2>6. \A b \in Admins :
             /\ admin'[b].pc \in {"write", "schedule", "cancel"} => admin'[b].gone = {}
             /\ admin'[b].pc = "commit" => \A e \in admin'[b].gone : locked'[e] = b
        BY <1>5, <1>9
    <2>7. \A e, f \in Active' : e = f
        BY <2>2 DEF ScheduleInv, ActiveInv
    <2>8. \A b \in Admins : (Late(b) => Settles(b))'
        BY <2>4
    <2>9. QED
        BY <2>3, <2>5, <2>6, <2>7, <2>8 DEF ActiveInv
<1>12. QED
    BY <1>10, <1>11

\* The runner takes rows that are free and releases its own; it only ends events.
RunnerLocks ==
    \/ UNCHANGED locked
    \/ locked' = Release(Runner)
    \/ \E S : Takes(S, Runner) /\ \A x \in S : locked[x] \in {None, Runner}
RunnerEnds ==
    \/ UNCHANGED event
    \/ event' = [e \in Events |-> IF e \in runner.off
                                  THEN [event[e] EXCEPT !.active = FALSE, !.ends = now]
                                  ELSE event[e]]

LEMMA RunnerCalm ==
    ASSUME ScheduleAssumption, ScheduleInv, UNCHANGED admin, RunnerLocks, RunnerEnds
    PROVE  Calm
<1>1. TypeOK
    BY DEF ScheduleInv, TypeInv
<1>2. \A b \in Admins : \A f \in Events : locked[f] = b => locked'[f] = b
    <2>1. CASE UNCHANGED locked
        BY <2>1
    <2>2. CASE locked' = Release(Runner)
        BY <1>1, <2>2, ReleaseKeeps, NoneIsApart
    <2>3. CASE \E S : Takes(S, Runner) /\ \A x \in S : locked[x] \in {None, Runner}
        BY <1>1, <2>3, TakesKeeps
    <2>4. QED
        BY <2>1, <2>2, <2>3 DEF RunnerLocks
<1>3. Active' \subseteq Active /\ \A e \in Events : event[e].exists => event'[e].exists
    <2>1. \A e \in Events : event[e] \in Event
        BY <1>1 DEF TypeOK
    <2>2. \A e \in Events : /\ event'[e].active => event[e].active
                            /\ event[e].exists => event'[e].exists
        BY <2>1 DEF Event, RunnerEnds
    <2>3. QED
        BY <2>2 DEF Active
<1>4. \A b \in Admins : \/ admin[b].pc = "idle" \/ (admin[b].pc = "write" /\ admin[b].gone = {})
                        \/ admin[b].pc \in {"schedule", "cancel", "commit"}
    BY RequestStages
<1>5. QED
    BY <1>2, <1>3, <1>4 DEF Calm

LEMMA ScheduleStep ==
    ASSUME ScheduleAssumption, ScheduleInv, [Next]_vars
    PROVE  ScheduleInv'
<1>1. TypeInv /\ TypeInv' /\ TypeOK
    BY TypesStep DEF ScheduleInv, TypeInv
<1>2. ASSUME NEW a \in Admins, Serves(a) \/ Fail(a) \/ Stop(a)
      PROVE  ActiveInv'
    BY <1>2, WriteKeeps, RedisStepKeeps, CommitKeeps, FailKeeps, StopKeeps DEF Serves
<1>3. ASSUME NEW a \in Admins, NEW e \in Events,
             \/ Delete(a, e)
             \/ \E d \in Durations : Start(a, e, d) \/ Toggle(a, e, d)
             \/ \E on \in BOOLEAN : Update(a, e, on)
      PROVE  ActiveInv'
    BY <1>3, DeleteKeeps, StartKeeps, ToggleKeeps, UpdateKeeps
<1>4. ASSUME Runs \/ RunnerFails \/ RedisLoses \/ Tick \/ UNCHANGED vars
      PROVE  ActiveInv'
    <2>1. CASE PostgresPass
        <3> DEFINE due == {e \in Overdue : locked[e] = None}
        <3>1. Takes(due, Runner) /\ UNCHANGED admin /\ UNCHANGED event
            BY <2>1 DEF PostgresPass
        <3>2. \A x \in due : locked[x] \in {None, Runner}
            OBVIOUS
        <3> HIDE DEF due
        <3>3. UNCHANGED admin /\ RunnerLocks /\ RunnerEnds
            BY <3>1, <3>2 DEF RunnerLocks, RunnerEnds
        <3>4. QED
            BY <1>1, <3>3, RunnerCalm, CalmKeeps
    <2>2. CASE End
        <3> DEFINE off == {runner.job.event} \union Active
        <3>1. Takes(off, Runner) /\ (\A x \in off : locked[x] \in {None, Runner})
              /\ UNCHANGED admin /\ UNCHANGED event
            BY <2>2 DEF End
        <3> HIDE DEF off
        <3>2. UNCHANGED admin /\ RunnerLocks /\ RunnerEnds
            BY <3>1 DEF RunnerLocks, RunnerEnds
        <3>3. QED
            BY <1>1, <3>2, RunnerCalm, CalmKeeps
    <2>3. CASE EndSpoilt \/ RunnerCommits \/ RunnerFails
        <3>1. UNCHANGED admin /\ RunnerLocks
            BY <2>3 DEF EndSpoilt, RunnerCommits, RunnerFails, RunnerLocks
        <3>2. RunnerEnds
            BY <2>3 DEF EndSpoilt, RunnerCommits, RunnerFails, RunnerEnds
        <3>3. QED
            BY <1>1, <3>1, <3>2, RunnerCalm, CalmKeeps
    <2>4. CASE GetDueJobs \/ (\E j \in runner.due : Look(j)) \/ RedisLoses \/ Tick \/ UNCHANGED vars
        <3>1. UNCHANGED admin /\ RunnerLocks /\ RunnerEnds
            BY <2>4 DEF GetDueJobs, Look, RedisLoses, Tick, vars, RunnerLocks, RunnerEnds
        <3>2. QED
            BY <1>1, <3>1, RunnerCalm, CalmKeeps
    <2>5. QED
        BY <1>4, <2>1, <2>2, <2>3, <2>4 DEF Runs
<1>5. ActiveInv'
    BY <1>2, <1>3, <1>4 DEF Next
<1>6. QED
    BY <1>1, <1>5 DEF ScheduleInv

LEMMA ScheduleInit ==
    ASSUME ScheduleAssumption, Init
    PROVE  ScheduleInv
<1>1. TypeInv
    BY TypesInit
<1>2. Active = {} /\ \A a \in Admins : admin[a] = Idle
    BY DEF Init, Active
<1>3. Idle.pc = "idle"
    BY DEF Idle
<1>4. QED
    BY <1>1, <1>2, <1>3 DEF ScheduleInv, ActiveInv, Late

\* A channel never has two active events, however requests and the runner
\* interleave: start_event, toggle_fishing_event, update_fishing_event and the
\* partial unique index.
THEOREM NeverTwoActiveEvents ==
    ASSUME ScheduleAssumption
    PROVE  Spec => []OneActiveEvent
<1>1. Init => ScheduleInv
    BY ScheduleInit
<1>2. ScheduleInv /\ [Next]_vars => ScheduleInv'
    BY ScheduleStep
<1>3. ScheduleInv => OneActiveEvent
    <2> SUFFICES ASSUME ScheduleInv PROVE OneActiveEvent
        OBVIOUS
    <2>1. \A e, f \in Active : e = f
        BY DEF ScheduleInv, ActiveInv
    <2>2. CASE Active = {}
        BY <2>2, FS_EmptySet DEF OneActiveEvent
    <2>3. CASE Active # {}
        <3>1. PICK e : Active = {e}
            BY <2>1, <2>3
        <3>2. Cardinality({e}) = 1
            BY FS_Singleton
        <3>3. QED
            BY <3>1, <3>2 DEF OneActiveEvent
    <2>4. QED
        BY <2>2, <2>3
<1>4. QED
    BY <1>1, <1>2, <1>3, PTL DEF Spec

\* An event that was deleted is not active, although a toggle looks for the
\* event long before it locks it: delete_event, set_active_fishing_event.
ActiveEventsExist == \A e \in Active : event[e].exists

\* See ActiveEventsExist.
THEOREM DeletedEventsStayInactive ==
    ASSUME ScheduleAssumption
    PROVE  Spec => []ActiveEventsExist
<1>1. Init => ScheduleInv
    BY ScheduleInit
<1>2. ScheduleInv /\ [Next]_vars => ScheduleInv'
    BY ScheduleStep
<1>3. ScheduleInv => ActiveEventsExist
    BY DEF ScheduleInv, ActiveInv, ActiveEventsExist
<1>4. QED
    BY <1>1, <1>2, <1>3, PTL DEF Spec

=============================================================================
