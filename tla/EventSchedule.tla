---------------------------- MODULE EventSchedule ----------------------------
(***************************************************************************)
(* The fishing events of one channel: at most one is active, perhaps until *)
(* a deadline.  Administrators start, stop, toggle, update and delete      *)
(* them; a job runner ends those that are due.  The deadline is kept twice *)
(* - in the event's row and as a job in Redis - and Redis is written while *)
(* the transaction is still open, so that either may happen alone.         *)
(***************************************************************************)
EXTENDS Integers, FiniteSets

CONSTANTS
    Events,         \* ids of the channel's events
    Admins,         \* administrators' requests served at a time
    Runner, None,
    Durations,      \* seconds an event may be started for, None is for ever
    Operations,     \* what administrators do
    MaxTime, MaxRequests, MaxFailures, MaxLosses    \* bounds

ScheduleAssumption ==
    /\ Events \subseteq Nat \ {0} /\ Runner \notin Admins
    /\ None \notin Nat \union Admins \union {Runner}
    /\ Durations \subseteq (Nat \ {0}) \union {None}
    /\ Operations \subseteq {"start", "stop", "delete", "toggle", "update"}
    /\ {MaxTime, MaxRequests, MaxFailures, MaxLosses} \subseteq Nat

VARIABLES
    event,      \* committed rows of fishing_events
    locked,     \* who has locked a row of theirs, or the channel's (0)
    jobs,       \* the jobs in Redis: the sorted set and their payloads
    key,        \* the job the channel's key names
    lastJob,    \* job ids given out so far
    now,
    admin,      \* what each request does
    runner,     \* what the job runner does
    asked,      \* history: until when an event was last asked to run
    spent       \* history: how much of each bound is used up

redis == <<jobs, key, lastJob>>
vars == <<event, locked, redis, now, admin, runner, asked, spent>>

-----------------------------------------------------------------------------

Deadline == Nat \union {None}
Event == [exists : BOOLEAN, active : BOOLEAN, ends : Deadline]
Job == [id : Nat, event : Events, at : Nat]

Channel == 0
Rows == Events \union {Channel}

Idle == [pc |-> "idle", on |-> None, off |-> {}, gone |-> {}, ends |-> None,
         clears |-> FALSE, seen |-> None, for |-> None]

Request ==
    [pc : {"idle", "write", "schedule", "cancel", "commit"},
     on : Events \union {None},     \* the event it activates
     off : SUBSET Events,           \* those it ends
     gone : SUBSET Events,          \* those it deletes
     ends : Deadline,               \* the deadline of the activated event ...
     clears : BOOLEAN,              \* ... which replaces the old one
     seen : Events \union {None},   \* the active event when it looked
     for : Durations \union {None}]

Asleep == [pc |-> "asleep", off |-> {}, due |-> {}, job |-> None]

Running == [pc : {"asleep", "redis", "each", "end"}, off : SUBSET Events,
            due : SUBSET Job, job : Job \union {None}]

TypeOK ==
    /\ event \in [Events -> Event]
    /\ locked \in [Rows -> Admins \union {Runner, None}]
    /\ jobs \subseteq Job /\ key \in Nat \union {None} /\ lastJob \in Nat
    /\ now \in 0 .. MaxTime
    /\ admin \in [Admins -> Request]
    /\ runner \in Running
    /\ asked \in [Events -> Deadline]
    /\ spent \in [requests : 0 .. MaxRequests, failures : 0 .. MaxFailures,
                  losses : 0 .. MaxLosses]

Init ==
    /\ event = [e \in Events |-> [exists |-> TRUE, active |-> FALSE, ends |-> None]]
    /\ locked = [x \in Rows |-> None]
    /\ jobs = {} /\ key = None /\ lastJob = 0
    /\ now = 0
    /\ admin = [a \in Admins |-> Idle]
    /\ runner = Asleep
    /\ asked = [e \in Events |-> None]
    /\ spent = [requests |-> 0, failures |-> 0, losses |-> 0]

-----------------------------------------------------------------------------
(* Plausible bugs.  Each takes the place of the operator its comment names in  *)
(* a mutation test: the property it is aimed at must notice.                   *)

\* IndexSettled, no unique index: nobody waits for another activation.
NeverWaits == TRUE

\* Overdue, the deadline left to Redis.
NeverOverdue == {}

\* Completed, the payload deleted and the sorted set forgotten.
Forgets(j) == jobs' = jobs /\ key' = None /\ lastJob' = lastJob

-----------------------------------------------------------------------------
(* The rows of the events *)

Active == {e \in Events : event[e].active}

Free(S) == \A x \in S : locked[x] = None
Takes(S, who) == locked' = [x \in Rows |-> IF x \in S THEN who ELSE locked[x]]
Release(who) == [x \in Rows |-> IF locked[x] = who THEN None ELSE locked[x]]

\* uq_fishing_events_active_per_channel: the rows are updated in the order of
\* their ids, so an event cannot take over from one with a larger id.
Refuses(e, off) == \E f \in Active \ {e} : f > e \/ f \notin off

\* The index waits for transactions that may change its answer.
IndexSettled ==
    /\ Free(Active)
    /\ \A a \in Admins : admin[a].on # None =>
         admin[a].pc \notin {"schedule", "cancel", "commit"}

Asks == spent.requests < MaxRequests
        /\ spent' = [spent EXCEPT !.requests = @ + 1]

-----------------------------------------------------------------------------
(* FishingEventScheduler *)

\* cancel_scheduled_disable: the job the channel's key names.
Cancelled == {j \in jobs : j.id # key}

\* complete_job: the job, and the channel's key whatever job it names.
Completed(j) == jobs' = jobs \ {j} /\ key' = None /\ UNCHANGED lastJob

\* schedule_disable: the job before is cancelled.
Scheduled(e, at) ==
    /\ jobs' = Cancelled \union {[id |-> lastJob + 1, event |-> e, at |-> at]}
    /\ key' = lastJob + 1
    /\ lastJob' = lastJob + 1

Cancel == jobs' = Cancelled /\ key' = None /\ UNCHANGED lastJob

-----------------------------------------------------------------------------
(* Administrators over Discord: the channel and the events are locked *)

\* start_event: the others go back to draft and keep their deadlines.
Start(a, e, d) ==
    LET others == Events \ {e} IN
    /\ "start" \in Operations
    /\ admin[a].pc = "idle" /\ event[e].exists /\ Free(Rows)
    /\ ~Refuses(e, others)
    /\ Asks
    /\ Takes(Rows, a)
    /\ admin' = [admin EXCEPT ![a] =
         [Idle EXCEPT !.pc = IF d = None THEN "commit" ELSE "schedule", !.on = e,
                      !.off = others, !.clears = TRUE, !.for = d,
                      !.ends = IF d = None THEN None ELSE now + d]]
    /\ UNCHANGED <<event, redis, now, runner, asked>>

\* stop_event: the job is cancelled before the transaction ends.
Stop(a) ==
    /\ "stop" \in Operations
    /\ admin[a].pc = "idle" /\ Active # {} /\ Free({Channel} \union Active)
    /\ Asks
    /\ Takes({Channel} \union Active, a)
    /\ Cancel
    /\ admin' = [admin EXCEPT ![a] = [Idle EXCEPT !.pc = "commit", !.off = Active]]
    /\ UNCHANGED <<event, now, runner, asked>>

\* delete_event
Delete(a, e) ==
    /\ "delete" \in Operations
    /\ admin[a].pc = "idle" /\ event[e].exists /\ Free({Channel, e})
    /\ Asks
    /\ Takes({Channel, e}, a)
    /\ IF e \in Active THEN Cancel ELSE UNCHANGED redis
    /\ admin' = [admin EXCEPT ![a] = [Idle EXCEPT !.pc = "commit", !.gone = {e}]]
    /\ UNCHANGED <<event, now, runner, asked>>

-----------------------------------------------------------------------------
(* Administrators over Twitch: nothing is locked until it is written *)

\* toggle_fishing_event looks at the active event and cancels its job ...
Toggle(a, e, d) ==
    /\ "toggle" \in Operations
    /\ admin[a].pc = "idle" /\ event[e].exists
    /\ Asks
    /\ Cancel
    /\ admin' = [admin EXCEPT ![a] =
         IF e \in Active
         THEN [Idle EXCEPT !.pc = "write", !.seen = e]
         ELSE [Idle EXCEPT !.pc = "write", !.on = e, !.clears = TRUE, !.for = d,
                           !.seen = IF Active = {} THEN None
                                    ELSE CHOOSE f \in Active : TRUE]]
    /\ UNCHANGED <<event, locked, now, runner, asked>>

\* A plausible bug in place of Write: a toggle without a duration is scheduled.
WritesAlwaysTimed(a) ==
    LET r == admin[a]
        on == {r.on} \ {None}
        off == {e \in Active \union ({r.seen} \ {None}) : event[e].exists} \ on
    IN
    /\ r.pc = "write" /\ Free(on \union off) /\ (on = {} \/ IndexSettled)
    /\ ~\E e \in on : ~event[e].exists \/ Refuses(e, off)
    /\ Takes(on \union off, a)
    /\ admin' = [admin EXCEPT ![a].pc = "schedule", ![a].off = off,
                 ![a].ends = IF r.for = None THEN None ELSE now + r.for]
    /\ UNCHANGED <<event, redis, now, runner, asked, spent>>

\* ... then set_active_fishing_event ends every event it sees active but the
\* chosen one.  What it read before it does not read again.
Write(a) ==
    LET r == admin[a]
        on == {r.on} \ {None}
        off == {e \in Active \union ({r.seen} \ {None}) : event[e].exists} \ on
    IN
    /\ r.pc = "write" /\ Free(on \union off) /\ (on = {} \/ IndexSettled)
    /\ IF \E e \in on : ~event[e].exists \/ Refuses(e, off)
       THEN admin' = [admin EXCEPT ![a] = Idle] /\ UNCHANGED locked
       ELSE /\ Takes(on \union off, a)
            /\ admin' = [admin EXCEPT
                 ![a].pc = IF r.for = None THEN "commit" ELSE "schedule",
                 ![a].off = off,
                 ![a].ends = IF r.for = None THEN None ELSE now + r.for]
    /\ UNCHANGED <<event, redis, now, runner, asked, spent>>

\* update_fishing_event with is_active: the deadline of the row stays.
Update(a, e, activate) ==
    LET off == IF activate THEN Active \ {e} ELSE Active
        rows == IF activate THEN off \union {e} ELSE off
    IN
    /\ "update" \in Operations
    /\ admin[a].pc = "idle" /\ event[e].exists /\ Free(rows)
    /\ IF activate THEN IndexSettled /\ ~Refuses(e, off) ELSE e \in Active
    /\ Asks
    /\ Takes(rows, a)
    /\ admin' = [admin EXCEPT ![a] =
         [Idle EXCEPT !.pc = "cancel", !.off = off,
                      !.on = IF activate THEN e ELSE None]]
    /\ UNCHANGED <<event, redis, now, runner, asked>>

-----------------------------------------------------------------------------
(* Both *)

\* Redis is written before the commit.
Schedules(a) ==
    /\ admin[a].pc = "schedule"
    /\ Scheduled(admin[a].on, admin[a].ends)
    /\ admin' = [admin EXCEPT ![a].pc = "commit"]
    /\ UNCHANGED <<event, locked, now, runner, asked, spent>>

Cancels(a) ==
    /\ admin[a].pc = "cancel"
    /\ Cancel
    /\ admin' = [admin EXCEPT ![a].pc = "commit"]
    /\ UNCHANGED <<event, locked, now, runner, asked, spent>>

\* Ended by hand or replaced; start_event alone leaves the deadline as it was,
\* which is the same for a row that is not active.
Commit(a) ==
    LET r == admin[a] IN
    /\ r.pc = "commit"
    /\ event' = [e \in Events |->
         IF e = r.on
         THEN [event[e] EXCEPT !.active = TRUE,
                               !.ends = IF r.clears THEN r.ends ELSE @]
         ELSE IF e \in r.gone
         THEN [exists |-> FALSE, active |-> FALSE, ends |-> None]
         ELSE IF e \in r.off /\ e \in Active
         THEN [event[e] EXCEPT !.active = FALSE, !.ends = now]
         ELSE event[e]]
    /\ asked' = IF r.on = None \/ (r.on \in Active /\ ~r.clears) THEN asked
                ELSE [asked EXCEPT ![r.on] = r.ends]
    /\ admin' = [admin EXCEPT ![a] = Idle]
    /\ locked' = Release(a)
    /\ UNCHANGED <<redis, now, runner, spent>>

\* The transaction fails after Redis was written, or before.
Fail(a) ==
    /\ admin[a].pc # "idle" /\ spent.failures < MaxFailures
    /\ spent' = [spent EXCEPT !.failures = @ + 1]
    /\ admin' = [admin EXCEPT ![a] = Idle]
    /\ locked' = Release(a)
    /\ UNCHANGED <<event, redis, now, runner, asked>>

-----------------------------------------------------------------------------
(* FishingEventJobRunner: one transaction for both passes *)

Overdue == {e \in Active : event[e].ends # None /\ event[e].ends <= now}

\* _end_due_events_from_postgres: rows somebody has locked are skipped.
PostgresPass ==
    LET due == {e \in Overdue : locked[e] = None} IN
    /\ runner.pc = "asleep"
    /\ Takes(due, Runner)
    /\ IF due = {} THEN UNCHANGED redis ELSE Cancel
    /\ runner' = [runner EXCEPT !.pc = "redis", !.off = due]
    /\ UNCHANGED <<event, now, admin, asked, spent>>

\* get_due_jobs: the payloads are read once.
GetDueJobs ==
    /\ runner.pc = "redis"
    /\ runner' = [runner EXCEPT !.pc = "each", !.due = {j \in jobs : j.at <= now}]
    /\ UNCHANGED <<event, locked, redis, now, admin, asked, spent>>

\* The job's event is looked at; another one is left alone.
Look(j) ==
    /\ runner.pc = "each" /\ j \in runner.due
    /\ IF j.event \in Active \ runner.off
       THEN /\ runner' = [runner EXCEPT !.pc = "end", !.job = j]
            /\ UNCHANGED redis
       ELSE /\ runner' = [runner EXCEPT !.due = @ \ {j}]
            /\ Completed(j)
    /\ UNCHANGED <<event, locked, now, admin, asked, spent>>

\* set_active_fishing_event(None) ends it and whatever is active by now; an
\* event that was deleted in between spoils the transaction.
End ==
    LET off == {runner.job.event} \union Active IN
    /\ runner.pc = "end" /\ event[runner.job.event].exists
    /\ \A e \in off : locked[e] \in {None, Runner}
    /\ Takes(off, Runner)
    /\ Completed(runner.job)
    /\ runner' = [runner EXCEPT !.pc = "each", !.off = @ \union off,
                                !.due = @ \ {runner.job}, !.job = None]
    /\ UNCHANGED <<event, now, admin, asked, spent>>

EndSpoilt ==
    /\ runner.pc = "end" /\ ~event[runner.job.event].exists
    /\ runner' = Asleep
    /\ locked' = Release(Runner)
    /\ UNCHANGED <<event, redis, now, admin, asked, spent>>

RunnerCommits ==
    /\ runner.pc = "each" /\ runner.due = {}
    /\ event' = [e \in Events |-> IF e \in runner.off
                                  THEN [event[e] EXCEPT !.active = FALSE, !.ends = now]
                                  ELSE event[e]]
    /\ runner' = Asleep
    /\ locked' = Release(Runner)
    /\ UNCHANGED <<redis, now, admin, asked, spent>>

RunnerFails ==
    /\ runner.pc # "asleep" /\ spent.failures < MaxFailures
    /\ spent' = [spent EXCEPT !.failures = @ + 1]
    /\ runner' = Asleep
    /\ locked' = Release(Runner)
    /\ UNCHANGED <<event, redis, now, admin, asked>>

-----------------------------------------------------------------------------

RedisLoses ==
    /\ spent.losses < MaxLosses
    /\ spent' = [spent EXCEPT !.losses = @ + 1]
    /\ jobs' = {} /\ key' = None
    /\ UNCHANGED <<event, locked, lastJob, now, admin, runner, asked>>

Tick ==
    /\ now < MaxTime
    /\ now' = now + 1
    /\ UNCHANGED <<event, locked, redis, admin, runner, asked, spent>>

Serves(a) == Write(a) \/ Schedules(a) \/ Cancels(a) \/ Commit(a)

Runs ==
    \/ PostgresPass \/ GetDueJobs \/ End \/ EndSpoilt \/ RunnerCommits
    \/ \E j \in runner.due : Look(j)

Next ==
    \/ \E a \in Admins :
         \/ Serves(a) \/ Fail(a) \/ Stop(a)
         \/ \E e \in Events :
              \/ Delete(a, e)
              \/ \E d \in Durations : Start(a, e, d) \/ Toggle(a, e, d)
              \/ \E on \in BOOLEAN : Update(a, e, on)
    \/ Runs \/ RunnerFails \/ RedisLoses \/ Tick

Spec == Init /\ [][Next]_vars

\* A request that is served ends; the runner polls for ever.
FairSpec == Spec /\ WF_vars(Runs) /\ \A a \in Admins : WF_vars(Serves(a))

-----------------------------------------------------------------------------
(* Properties *)

\* However requests and the runner interleave, with only some of them locking
\* what they read, a channel never has two active events.
OneActiveEvent == Cardinality(Active) <= 1

\* An event whose deadline has passed ends, even when Redis lost its job, its
\* scheduling failed half-way or the runner died.
OverdueEnds ==
    \A e \in Events :
        e \in Overdue ~> e \notin Overdue

\* A due job leaves Redis: the runner does not take it up for ever.
DueJobsDrain ==
    \A i \in 1 .. MaxRequests :
        (\E j \in jobs : j.id = i /\ j.at <= now) ~> ~(\E j \in jobs : j.id = i)

\* What the README and the lifecycle service say of deadlines: PostgreSQL is
\* authoritative.  The runner ends an event only when the time it was last
\* asked to run for is over, and never one that was asked to run for ever.
EndedOnlyWhenOver ==
    [][\A e \in Events :
         e \in Active /\ runner.pc = "each" /\ runner'.pc = "asleep"
            /\ ~event'[e].active
         => asked[e] # None /\ asked[e] <= now]_vars
=============================================================================
