----------------------------- MODULE ContentionMC -----------------------------
(***************************************************************************)
(* What must happen in the end where requests wait for one another: the    *)
(* health of an integration, checked by runners and changed by requests    *)
(* that lock its row, and casts that lock players, the stock and the       *)
(* ruleset.  A behaviour is of one component; the other stays as it        *)
(* begins.                                                                 *)
(***************************************************************************)
EXTENDS Integers, TLC

CONSTANTS
    Scenarios,  \* those that are checked
    None, h1, q1, q2, t1, v1, v2, w1, w2, r1, r2, Stock, Ruleset

VARIABLES
    scenario,   \* what this behaviour is about
    row, healthLock, loop, req, runner, lease, due, healthTime, verdict,
    healthUse,
    users, ledger, stock, ruleset, holder, redis, castTime, job, applied,
    castUse

health == <<row, healthLock, loop, req, runner, lease, due, healthTime,
    verdict, healthUse>>
casting == <<users, ledger, stock, ruleset, holder, redis, castTime, job,
    applied, castUse>>
vars == <<scenario, health, casting>>

-----------------------------------------------------------------------------
\* One request on the event loop, one in a thread.
OneCoroutine == q1 :> {"connect", "test"} @@ q2 :> {"disconnect"}

\* Two viewers, a request of each.
OwnerOfTwo == r1 :> v1 @@ r2 :> v2

Health == INSTANCE IntegrationHealth WITH
    Requests <- {q1, q2}, May <- OneCoroutine, Runners <- {h1},
    Tokens <- {t1}, MaxTime <- 1, MaxRequests <- 2, MaxFailures <- 1,
    MaxLosses <- 1, locked <- healthLock, now <- healthTime,
    spent <- healthUse
Casting == INSTANCE FishingCast WITH
    Viewers <- {v1, v2}, Known <- {FALSE}, Requests <- {r1, r2},
    Owner <- OwnerOfTwo, Workers <- {w1, w2}, Earlier <- {2}, Deltas <- {1},
    Cooldowns <- {0}, Stock0 <- 1, Slots <- 0, MaxTime <- 0, MaxCalls <- 2,
    MaxUses <- 1, MaxCrashes <- 0, MaxLosses <- 0, now <- castTime,
    spent <- castUse

\* The constants of the instances are what the components take them to be.
ASSUME InstancesAssumption ==
    /\ Health!HealthAssumption /\ Casting!FishingAssumption

-----------------------------------------------------------------------------
ButHealth == <<scenario, casting>>
ButCasting == <<scenario, health>>

Init ==
    /\ scenario \in Scenarios
    /\ Health!Init /\ (scenario # "health" => row = Health!NoRow)
    /\ Casting!Init /\ (scenario # "casts" => users = [v \in {v1, v2} |-> None])

Next ==
    \/ /\ scenario = "health" /\ Health!Next
       /\ UNCHANGED ButHealth
    \/ /\ scenario = "casts" /\ Casting!Next
       /\ UNCHANGED ButCasting

Spec == Init /\ [][Next]_vars

\* A lease in Redis runs out, and a read-ahead of a rebuild is written; requests and
\* the health runner go on when they can again and again (IntegrationHealth).  A cast
\* goes on, and gets a lock that is free again and again (FishingCast).  A behaviour
\* is of one component, so one condition serves both.
Fairness ==
    /\ WF_vars(\/ scenario = "health" /\ Health!LeaseExpires /\ UNCHANGED <<healthUse, ButHealth>>
               \/ scenario = "casts" /\ Casting!Works(w1) /\ UNCHANGED ButCasting)
    /\ WF_vars(\/ scenario = "health" /\ Health!RebuildAdd(h1) /\ UNCHANGED ButHealth
               \/ scenario = "casts" /\ Casting!Works(w2) /\ UNCHANGED ButCasting)
    /\ SF_vars(\/ scenario = "health" /\ Health!Serves(q1) /\ UNCHANGED ButHealth
               \/ scenario = "casts" /\ Casting!Waits(w1) /\ UNCHANGED ButCasting)
    /\ SF_vars(\/ scenario = "health" /\ Health!Serves(q2) /\ UNCHANGED ButHealth
               \/ scenario = "casts" /\ Casting!Waits(w2) /\ UNCHANGED ButCasting)
    /\ SF_vars(scenario = "health" /\ Health!Probes(h1) /\ UNCHANGED ButHealth)
    /\ SF_vars(scenario = "health" /\ Health!RebuildRead(h1) /\ UNCHANGED ButHealth)

FairSpec == Spec /\ Fairness

-----------------------------------------------------------------------------
\* An integration that is due is checked, or its check is put off, whatever Redis
\* loses and whichever runner dies; and Redis forgets an integration that is
\* disconnected (StreamElementsHealthRunner).
RunnerKeepsUp ==
    /\ Health!DueIsProbed
    /\ Health!DisconnectedDrains

\* No request waits for ever: the engine never waits for what only itself can
\* give while it connects, tests or disconnects, and every cast that was taken up
\* is answered, two viewers who rob each other at once included.
EveryRequestEnds ==
    /\ Health!RequestsEnd
    /\ Casting!EveryCallAnswered
=============================================================================
