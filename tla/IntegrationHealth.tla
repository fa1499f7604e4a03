-------------------------- MODULE IntegrationHealth --------------------------
(***************************************************************************)
(* The StreamElements integration of one channel and what is believed of   *)
(* its credential.  Administrators connect, test and disconnect it,        *)
(* conversions report how their calls went, and the health runners of the  *)
(* worker process probe it when its next check is due.  The engine serves  *)
(* requests on one event loop with a synchronous database driver: a        *)
(* statement that waits for a lock stops the loop, and with it every other *)
(* request that awaits an answer.                                          *)
(***************************************************************************)
EXTENDS Integers, FiniteSets

CONSTANTS
    Requests,       \* requests the engine serves at a time
    May,            \* the operations each of them may be
    Runners,        \* health runners
    Tokens,         \* credentials
    None,
    MaxTime, MaxRequests, MaxFailures, MaxLosses    \* bounds

Operations == {"connect", "test", "disconnect", "convert"}

HealthAssumption ==
    /\ May \in [Requests -> SUBSET Operations]
    /\ None \notin Nat \union Requests \union Runners \union Tokens \union Operations
    /\ {MaxTime, MaxRequests, MaxFailures, MaxLosses} \subseteq Nat

VARIABLES
    row,        \* the channel_integrations row, disconnected while there is none
    locked,     \* who holds the rows of the channel and of the integration
    loop,       \* the request that runs on the engine's event loop
    req,        \* what each request does
    runner,     \* what each runner does
    lease,      \* who has the probe's lock in Redis
    due,        \* when the integration is due in Redis
    now,
    verdict,    \* history: the credential the row's status was found for
    spent       \* history: how much of each bound is used up

vars == <<row, locked, loop, req, runner, lease, due, now, verdict, spent>>

-----------------------------------------------------------------------------

Time == Nat \union {None}

Row == [status : {"connected", "degraded", "invalid", "disconnected"},
        version : Nat, token : Tokens \union {None}, next : Time, failures : Nat]

Answers == {"ok", "mismatch", "rejected", "busy"}

NoRow == [status |-> "disconnected", version |-> 0, token |-> None,
          next |-> None, failures |-> 0]

Idle == [op |-> None, pc |-> "idle", token |-> None, seen |-> NoRow,
         answer |-> None, at |-> None]

Asleep == [pc |-> "asleep", seen |-> NoRow, at |-> None]

TypeOK ==
    /\ row \in Row
    /\ locked \in [{"channel", "row"} -> Requests \union {None}]
    /\ loop \in Requests \union {None}
    /\ req \in [Requests ->
         [op : Operations \union {None},
          pc : {"idle", "authorize", "load", "call", "insert", "pay", "write",
                "callback"},
          token : Tokens \union {None}, seen : Row,
          answer : Answers \union {None}, at : Time]]
    /\ runner \in [Runners -> [pc : {"asleep", "rebuild", "read", "probe", "schedule"},
                               seen : Row, at : Time]]
    /\ lease \in Runners \union {None}
    /\ due \in Time /\ now \in 0 .. MaxTime
    /\ verdict \in Tokens \union {None}
    /\ spent \in [requests : 0 .. MaxRequests, failures : 0 .. MaxFailures,
                  losses : 0 .. MaxLosses]

\* No integration yet, or one from before checks were scheduled.
Init ==
    /\ row \in {NoRow} \union
         {[status |-> "connected", version |-> 1, token |-> t, next |-> None,
           failures |-> 0] : t \in Tokens}
    /\ locked = [x \in {"channel", "row"} |-> None]
    /\ loop = None
    /\ req = [q \in Requests |-> Idle]
    /\ runner = [r \in Runners |-> Asleep]
    /\ lease = None /\ due = None /\ now = 0
    /\ verdict = row.token
    /\ spent = [requests |-> 0, failures |-> 0, losses |-> 0]

-----------------------------------------------------------------------------
(* What an answer of the provider says of the credential *)

StatusOf(answer) ==
    CASE answer = "ok" -> "connected"
      [] answer = "busy" -> "degraded"
      [] OTHER -> "invalid"

\* Half an hour, or less after a few failures; six hours for an invalid one.
Delay(answer) == IF StatusOf(answer) = "invalid" THEN 2 ELSE 1

\* Plausible bug in place of Judged: a success forgives one failure only.
Forgiven(r, answer) ==
    [r EXCEPT !.status = StatusOf(answer), !.next = now + Delay(answer),
              !.failures = IF answer = "ok" THEN @ - 1 ELSE @ + 1]

Judged(r, answer) ==
    [r EXCEPT !.status = StatusOf(answer), !.next = now + Delay(answer),
              !.failures = IF answer = "ok" THEN 0 ELSE @ + 1]

\* Answers other than "ok" are bounded.
Answered(answer) ==
    /\ answer # "ok" => spent.failures < MaxFailures
    /\ spent' = [spent EXCEPT !.failures = @ + IF answer = "ok" THEN 0 ELSE 1]

-----------------------------------------------------------------------------
(* Requests.  Only disconnect is an ordinary function, which FastAPI runs in a *)
(* thread; the others run on the loop from one await to the next.              *)

\* Plausible bug in place of OnLoop: disconnect is made a coroutine too.
AlwaysOnLoop(op) == TRUE

OnLoop(op) == op # "disconnect"

HasLoop(q) == OnLoop(req[q].op) => loop = q
LeavesLoop(q) == loop' = IF loop = q THEN None ELSE loop

Take(x, q) == locked' = [locked EXCEPT ![x] = q]
Release(q) == locked' = [x \in DOMAIN locked |->
                            IF locked[x] = q THEN None ELSE locked[x]]

Begin(q, op, t) ==
    /\ req[q].pc = "idle" /\ op \in May[q]
    /\ OnLoop(op) => loop = None
    /\ spent.requests < MaxRequests
    /\ spent' = [spent EXCEPT !.requests = @ + 1]
    /\ loop' = IF OnLoop(op) THEN q ELSE loop
    /\ req' = [req EXCEPT ![q] =
         [Idle EXCEPT !.op = op, !.token = IF op = "connect" THEN t ELSE None,
                      !.pc = IF op \in {"connect", "disconnect"}
                             THEN "authorize" ELSE "load"]]
    /\ UNCHANGED <<row, locked, runner, lease, due, now, verdict>>

\* _authorize with for_update.  connect then awaits the provider's answer and
\* keeps the channel's row.
Authorize(q) ==
    /\ req[q].pc = "authorize" /\ HasLoop(q) /\ locked["channel"] = None
    /\ Take("channel", q)
    /\ req' = [req EXCEPT ![q].pc = IF req[q].op = "connect" THEN "call" ELSE "load"]
    /\ LeavesLoop(q)
    /\ UNCHANGED <<row, runner, lease, due, now, verdict, spent>>

Ends(q) ==
    /\ req' = [req EXCEPT ![q] = Idle]
    /\ Release(q) /\ LeavesLoop(q)

Usable == {"connected", "degraded"}

\* A request is refused unless the integration is usable.
Refused(q) ==
    /\ req[q].pc = "load" /\ HasLoop(q)
    /\ req[q].op # "convert" => locked["row"] = None
    /\ row.status \notin Usable
    /\ Ends(q)
    /\ UNCHANGED <<row, runner, lease, due, now, verdict, spent>>

\* Plausible bug in place of LoadTest: _integration without lock.
LoadTestUnlocked(q) ==
    /\ req[q].pc = "load" /\ req[q].op = "test" /\ HasLoop(q)
    /\ row.status \in Usable
    /\ req' = [req EXCEPT ![q].pc = "call", ![q].seen = row, ![q].token = row.token]
    /\ LeavesLoop(q)
    /\ UNCHANGED <<row, locked, runner, lease, due, now, verdict, spent>>

\* test keeps the integration's row while it awaits the provider.
LoadTest(q) ==
    /\ req[q].pc = "load" /\ req[q].op = "test" /\ HasLoop(q)
    /\ locked["row"] = None /\ row.status \in Usable
    /\ Take("row", q)
    /\ req' = [req EXCEPT ![q].pc = "call", ![q].seen = row, ![q].token = row.token]
    /\ LeavesLoop(q)
    /\ UNCHANGED <<row, runner, lease, due, now, verdict, spent>>

\* A conversion reads the row and ends its transaction before it awaits; its
\* session keeps the object as it was.
LoadConvert(q) ==
    /\ req[q].pc = "load" /\ req[q].op = "convert" /\ HasLoop(q)
    /\ row.status \in Usable
    /\ req' = [req EXCEPT ![q].pc = "call", ![q].seen = row, ![q].token = row.token]
    /\ LeavesLoop(q)
    /\ UNCHANGED <<row, locked, runner, lease, due, now, verdict, spent>>

Disconnect(q) ==
    /\ req[q].pc = "load" /\ req[q].op = "disconnect" /\ HasLoop(q)
    /\ locked["row"] = None /\ row.status \in Usable
    /\ row' = [row EXCEPT !.status = "disconnected", !.version = @ + 1, !.next = None]
    /\ req' = [req EXCEPT ![q].pc = "callback"]
    /\ Release(q) /\ LeavesLoop(q)
    /\ UNCHANGED <<runner, lease, due, now, verdict, spent>>

\* The provider answers and the coroutine goes on, once the loop is free.  A
\* refused connect is rolled back; a conversion whose balance is known is
\* recorded and then paid.
Answer(q, answer) ==
    /\ req[q].pc \in {"call", "pay"} /\ (OnLoop(req[q].op) => loop = None)
    /\ answer = "mismatch" => req[q].op = "test"
    /\ Answered(answer)
    /\ IF req[q].op = "connect" /\ answer # "ok"
       THEN Ends(q)
       ELSE /\ req' = [req EXCEPT ![q].answer = answer,
                  ![q].pc = IF req[q].op = "convert" /\ req[q].pc = "call" /\ answer = "ok"
                            THEN "insert" ELSE "write"]
            /\ loop' = q
            /\ UNCHANGED locked
    /\ UNCHANGED <<row, runner, lease, due, now, verdict>>

\* The operation's row refers to the channel's, which must not be locked.
Insert(q) ==
    /\ req[q].pc = "insert" /\ HasLoop(q) /\ locked["channel"] = None
    /\ req' = [req EXCEPT ![q].pc = "pay"]
    /\ LeavesLoop(q)
    /\ UNCHANGED <<row, locked, runner, lease, due, now, verdict, spent>>

\* Plausible bug in place of Connected: failures are left to the next probe.
ConnectedAsItWas(t) ==
    [row EXCEPT !.status = "connected", !.version = @ + 1, !.token = t,
                !.next = now + 1]

Connected(t) ==
    [status |-> "connected", version |-> row.version + 1, token |-> t,
     next |-> now + 1, failures |-> 0]

\* An UPDATE writes the columns the session's object changed, and no other.  The
\* time of the next check always changes.
Merged(seen, new) ==
    [c \in DOMAIN row |-> IF c # "next" /\ new[c] = seen[c] THEN row[c] ELSE new[c]]

\* connect, test and _record_provider_health, with the commit.
Write(q) ==
    LET seen == req[q].seen
        new == IF req[q].op = "connect" THEN Connected(req[q].token)
               ELSE Merged(seen, Judged(seen, req[q].answer))
    IN
    /\ req[q].pc = "write" /\ HasLoop(q) /\ locked["row"] \in {None, q}
    /\ row' = new
    /\ verdict' = IF new.status # row.status \/ req[q].op = "connect"
                  THEN req[q].token ELSE verdict
    /\ req' = [req EXCEPT ![q].pc = "callback", ![q].at = new.next]
    /\ Release(q) /\ LeavesLoop(q)
    /\ UNCHANGED <<runner, lease, due, now, spent>>

\* The after-commit callback, in a thread: zadd, or zrem for disconnect.
Callback(q) ==
    /\ req[q].pc = "callback"
    /\ due' = req[q].at
    /\ req' = [req EXCEPT ![q] = Idle]
    /\ UNCHANGED <<row, locked, loop, runner, lease, now, verdict, spent>>

\* The engine stops: what it did not commit is undone.
EngineStops ==
    /\ \E q \in Requests : req[q].pc # "idle"
    /\ spent.losses < MaxLosses
    /\ spent' = [spent EXCEPT !.losses = @ + 1]
    /\ req' = [q \in Requests |-> Idle]
    /\ locked' = [x \in DOMAIN locked |-> None]
    /\ loop' = None
    /\ UNCHANGED <<row, runner, lease, due, now, verdict>>

-----------------------------------------------------------------------------
(* StreamElementsHealthRunner *)

Sleeps(r) == runner' = [runner EXCEPT ![r] = Asleep]

Unleased(r) == IF lease = r THEN None ELSE lease

\* _rebuild_scheduler reads the row, which may lack the time of a check ...
RebuildRead(r) ==
    LET next == IF row.next = None THEN now ELSE row.next IN
    /\ runner[r].pc = "asleep" /\ row.status # "disconnected"
    /\ row.next = None => locked["row"] = None
    /\ row' = [row EXCEPT !.next = next]
    /\ runner' = [runner EXCEPT ![r].pc = "rebuild", ![r].at = next]
    /\ UNCHANGED <<locked, loop, req, lease, due, now, verdict, spent>>

\* Plausible bug in place of RebuildAdd: the zset is trusted.
RebuildTrusts(r) ==
    /\ runner[r].pc = "rebuild"
    /\ Sleeps(r)
    /\ UNCHANGED <<row, locked, loop, req, lease, due, now, verdict, spent>>

\* ... and enters what it read in Redis.
RebuildAdd(r) ==
    /\ runner[r].pc = "rebuild"
    /\ due' = runner[r].at
    /\ Sleeps(r)
    /\ UNCHANGED <<row, locked, loop, req, lease, now, verdict, spent>>

IsDue == due # None /\ due <= now

\* run_once takes a due integration whose lock it gets.
Acquire(r) ==
    /\ runner[r].pc = "asleep" /\ IsDue /\ lease = None
    /\ lease' = r
    /\ runner' = [runner EXCEPT ![r].pc = "read"]
    /\ UNCHANGED <<row, locked, loop, req, due, now, verdict, spent>>

\* Plausible bug in place of Snapshot: the entry of a disconnected one stays.
SnapshotKeeps(r) ==
    /\ runner[r].pc = "read"
    /\ IF row.status = "disconnected"
       THEN Sleeps(r) /\ lease' = Unleased(r)
       ELSE /\ runner' = [runner EXCEPT ![r].pc = "probe", ![r].seen = row]
            /\ UNCHANGED lease
    /\ UNCHANGED <<row, locked, loop, req, due, now, verdict, spent>>

\* _check_one: the credential is read, and the transaction ends.
Snapshot(r) ==
    /\ runner[r].pc = "read"
    /\ IF row.status = "disconnected"
       THEN Sleeps(r) /\ lease' = Unleased(r) /\ due' = None
       ELSE /\ runner' = [runner EXCEPT ![r].pc = "probe", ![r].seen = row]
            /\ UNCHANGED <<lease, due>>
    /\ UNCHANGED <<row, locked, loop, req, now, verdict, spent>>

\* Plausible bug in place of Superseded: the row is not compared.
NeverSuperseded(seen) == FALSE

Superseded(seen) == row.version # seen.version \/ row.token # seen.token

\* The result of a probe is applied to the row it was about.
Apply(r, answer) ==
    LET seen == runner[r].seen IN
    /\ runner[r].pc = "probe" /\ locked["row"] = None
    /\ Answered(answer)
    /\ IF row.status = "disconnected"
       THEN /\ row' = [row EXCEPT !.next = None]
            /\ runner' = [runner EXCEPT ![r].pc = "schedule", ![r].at = None]
            /\ UNCHANGED verdict
       ELSE IF Superseded(seen)
       THEN /\ runner' = [runner EXCEPT ![r].pc = "schedule", ![r].at = row.next]
            /\ UNCHANGED <<row, verdict>>
       ELSE /\ row' = Judged(row, answer)
            /\ verdict' = seen.token
            /\ runner' = [runner EXCEPT ![r].pc = "schedule", ![r].at = row'.next]
    /\ UNCHANGED <<locked, loop, req, lease, due, now>>

\* Redis follows the commit; the lock is given back if it is still the runner's.
Schedule(r) ==
    /\ runner[r].pc = "schedule"
    /\ due' = runner[r].at
    /\ lease' = Unleased(r)
    /\ Sleeps(r)
    /\ UNCHANGED <<row, locked, loop, req, now, verdict, spent>>

\* A runner dies, or a tick fails; its lock stays until it expires.
RunnerStops(r) ==
    /\ runner[r].pc # "asleep" /\ spent.losses < MaxLosses
    /\ spent' = [spent EXCEPT !.losses = @ + 1]
    /\ Sleeps(r)
    /\ UNCHANGED <<row, locked, loop, req, lease, due, now, verdict>>

LeaseExpires ==
    /\ lease # None /\ lease' = None
    /\ runner[lease].pc \notin {"asleep", "rebuild"} => spent.losses < MaxLosses
    /\ spent' = [spent EXCEPT !.losses = @ +
         IF runner[lease].pc \in {"asleep", "rebuild"} THEN 0 ELSE 1]
    /\ UNCHANGED <<row, locked, loop, req, runner, due, now, verdict>>

RedisLoses ==
    /\ spent.losses < MaxLosses
    /\ spent' = [spent EXCEPT !.losses = @ + 1]
    /\ due' = None /\ lease' = None
    /\ UNCHANGED <<row, locked, loop, req, runner, now, verdict>>

Tick ==
    /\ now < MaxTime
    /\ now' = now + 1
    /\ UNCHANGED <<row, locked, loop, req, runner, lease, due, verdict, spent>>

-----------------------------------------------------------------------------

Serves(q) ==
    \/ Authorize(q) \/ Refused(q) \/ LoadTest(q) \/ LoadConvert(q)
    \/ Disconnect(q) \/ Insert(q) \/ Write(q) \/ Callback(q)
    \/ \E answer \in Answers : Answer(q, answer)

Probes(r) ==
    \/ Acquire(r) \/ Snapshot(r) \/ Schedule(r)
    \/ \E answer \in Answers : Apply(r, answer)

Next ==
    \/ \E q \in Requests :
         \/ Serves(q)
         \/ \E op \in Operations, t \in Tokens : Begin(q, op, t)
    \/ \E r \in Runners :
         Probes(r) \/ RebuildRead(r) \/ RebuildAdd(r) \/ RunnerStops(r)
    \/ EngineStops \/ LeaseExpires \/ RedisLoses \/ Tick

Spec == Init /\ [][Next]_vars

\* The loop serves what it can, the provider answers or the call times out, the
\* runners poll for ever and rebuild now and then, and Redis expires a lock.
FairSpec ==
    /\ Spec /\ WF_vars(LeaseExpires /\ UNCHANGED spent)
    /\ \A q \in Requests : SF_vars(Serves(q))
    /\ \A r \in Runners : SF_vars(Probes(r)) /\ SF_vars(RebuildRead(r))
                          /\ WF_vars(RebuildAdd(r))

-----------------------------------------------------------------------------
(* Properties *)

\* What the row says of the credential was found with that credential: neither
\* a probe nor a test nor a conversion that was under way while it was replaced
\* speaks for the new one.
VerdictOfCredential == row.status # "disconnected" => verdict = row.token

\* The status and the count of failures never contradict each other, although
\* four programs write them.
ConnectedMeansHealthy ==
    row.status # "disconnected" => (row.status = "connected" <=> row.failures = 0)

\* One step of DisconnectStays.
DisconnectStaysStep ==
    row.status = "disconnected" /\ row'.status # "disconnected"
     => \E q \in Requests : req[q].op = "connect" /\ req[q].pc = "write"

\* An integration an administrator disconnected stays so until one is connected.
DisconnectStays == [][DisconnectStaysStep]_vars

\* What the row says of the credential was found with that credential, though
\* probes and tests were under way while it was replaced; its status and its count
\* of failures never contradict each other; and an integration that was
\* disconnected stays so until one is connected (EconomyIntegrationService,
\* EconomyHealthService).
IntegrationHolds ==
    /\ [](TypeOK /\ VerdictOfCredential /\ ConnectedMeansHealthy)
    /\ DisconnectStays

\* An integration that is due is checked, or its check is put off, whatever
\* Redis loses and whichever runner dies.
DueIsProbed ==
    LET overdue == /\ row.status # "disconnected"
                   /\ row.next = None \/ row.next <= now
    IN overdue ~> ~overdue

\* Redis forgets an integration that is disconnected.
DisconnectedDrains ==
    row.status = "disconnected" /\ IsDue ~> row.status # "disconnected" \/ ~IsDue

\* A request ends: the engine never waits for what only itself can give.
RequestsEnd == \A q \in Requests : req[q].pc # "idle" ~> req[q].pc = "idle"
=============================================================================
