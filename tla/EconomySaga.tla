---------------------------- MODULE EconomySaga -----------------------------
(***************************************************************************)
(* The fish economy: viewers convert the mass of their catch into          *)
(* StreamElements loyalty points (sell) and back (buy).  The points live   *)
(* at an external provider, the mass in PostgreSQL, so a conversion is a   *)
(* saga: a durable operation row and its outbox event record how far it    *)
(* got, a chat request carries it out, a worker retries what is safe to    *)
(* retry, and an administrator settles what nobody can know.               *)
(*                                                                         *)
(* One step is one stretch of code between two awaits (or between a        *)
(* commit and the next await): the database row locks taken inside such a  *)
(* stretch make it atomic for the other processes.                         *)
(*                                                                         *)
(* Time is abstracted.  A lease (60 s) and the Redis lock (120 s) run out  *)
(* at any moment once their holder is gone, and never before: every call   *)
(* is bounded by the client's connect, write, read and pool timeouts       *)
(* (19 s together), so a request is over before either one ends.           *)
(***************************************************************************)
EXTENDS EconomyPricing

CONSTANTS
    Users,          \* viewers of one channel
    Keys,           \* idempotency keys: one operation and one outbox event each
    Requests,       \* concurrent chat requests inside the engine
    Workers,        \* outbox runners
    None,           \* no holder, no argument
    Orphan,         \* lock token of a request that died
    All,            \* the argument "all"
    Amounts,        \* masses a viewer names in a command
    BuyRate, SellRate,
    MinMass, MaxMass,   \* the channel's transaction limits
    InitMass, InitPoints,
    MaxAttempts,    \* SEJobRunner.MAX_ATTEMPTS
    WriteOutcomes,  \* what a points PUT may come to, see below
    ReadOutcomes,   \* what a balance GET may come to
    MaxCatches,     \* bound: mass changes made by fishing
    MaxEarnings,    \* bound: point changes made outside the engine
    MaxInterventions \* bound: reconciliations sent back to the worker

\* A PUT may be applied and confirmed with the new balance (ok), applied with a
\* reply that has no usable balance (bare) or is not JSON (garbled), applied or
\* not with the reply lost or a 5xx (lostApplied, lost), or not applied.
AppliedOutcomes == {"ok", "bare", "garbled", "lostApplied"}
UnappliedOutcomes == {"lost", "notSent", "rateLimited", "rejected"}

ASSUME SagaAssumption ==
    /\ WriteOutcomes \subseteq AppliedOutcomes \union UnappliedOutcomes
    /\ "rejected" \in WriteOutcomes
    /\ ReadOutcomes \subseteq {"ok", "notSent", "rateLimited", "rejected"}
    /\ Amounts \subseteq Nat \ {0}
    /\ All \notin Amounts
    /\ None \notin Requests \union Users \union Amounts
    /\ Orphan \notin Requests \union {None}
    /\ BuyRate \in Nat \ {0} /\ SellRate \in Nat \ {0}
    /\ MinMass \in Nat \ {0} /\ MaxMass \in Nat /\ MinMass <= MaxMass
    /\ InitMass \in Nat /\ InitPoints \in 0 .. PointsMax
    /\ MaxAttempts \in Nat \ {0}

VARIABLES
    mass,       \* users_progress.current_mass
    points,     \* balances at the provider
    op,         \* economy_operations, by idempotency key
    event,      \* outbox_events, by the key of their operation
    lock,       \* Redis: economy:{channel}:{user}
    req,        \* the requests: program counter and what they remember
    worker,     \* the outbox runners
    paid,       \* history: net times the provider applied the operation
    moved,      \* history: net times the local mass moved for it
    owed,       \* history: the mass each viewer would have without races
    spent       \* history: how much of each bound is used up

sagaVars == <<op, event>>
historyVars == <<paid, moved, owed>>
vars == <<mass, points, op, event, lock, req, worker, paid, moved, owed, spent>>

-----------------------------------------------------------------------------

ActiveStates == {"pending", "queued", "processing", "external_pending",
                 "external_applied", "reconciliation_required"}
OpStates == ActiveStates \union
            {"none", "completed", "compensated", "failed", "dead_letter"}
EventStates == {"none", "pending", "processing", "processed", "dead_letter",
                "compensated", "reconciliation_required"}

Args == Amounts \union {All}

Operation ==
    [state : OpStates, kind : {"none", "sell", "buy"}, user : Users \union {None},
     arg : Args \union {None}, amt : Nat, pts : Int,
     applied : BOOLEAN, internal : BOOLEAN, comp : BOOLEAN, reply : BOOLEAN]

NoOperation ==
    [state |-> "none", kind |-> "none", user |-> None, arg |-> None, amt |-> 0,
     pts |-> 0, applied |-> FALSE, internal |-> FALSE, comp |-> FALSE, reply |-> FALSE]

Event == [state : EventStates, attempts : Nat]

RequestSteps == {"idle", "balance", "write", "answered",
                 "refundRead", "refundWrite", "refunded"}

Request ==
    [pc : RequestSteps, key : Keys \union {None}, kind : {"none", "sell", "buy"},
     user : Users \union {None}, arg : Args \union {None}, snap : Nat,
     out : AppliedOutcomes \union UnappliedOutcomes \union {"none"}]

IdleRequest ==
    [pc |-> "idle", key |-> None, kind |-> "none", user |-> None, arg |-> None,
     snap |-> 0, out |-> "none"]

Runner ==
    [pc : {"idle", "balance", "write", "answered"}, key : Keys \union {None},
     out : AppliedOutcomes \union UnappliedOutcomes \union {"none"}]

IdleRunner == [pc |-> "idle", key |-> None, out |-> "none"]

TypeOK ==
    /\ mass \in [Users -> Nat]
    /\ points \in [Users -> 0 .. PointsMax]
    /\ op \in [Keys -> Operation]
    /\ event \in [Keys -> Event]
    /\ lock \in [Users -> Requests \union {None, Orphan}]
    /\ req \in [Requests -> Request]
    /\ worker \in [Workers -> Runner]
    /\ paid \in [Keys -> Int]
    /\ moved \in [Keys -> Int]
    /\ owed \in [Users -> Nat]
    /\ spent \in [catches : Nat, earnings : Nat, interventions : Nat]

Init ==
    /\ mass = [u \in Users |-> InitMass]
    /\ points = [u \in Users |-> InitPoints]
    /\ op = [k \in Keys |-> NoOperation]
    /\ event = [k \in Keys |-> [state |-> "none", attempts |-> 0]]
    /\ lock = [u \in Users |-> None]
    /\ req = [r \in Requests |-> IdleRequest]
    /\ worker = [w \in Workers |-> IdleRunner]
    /\ paid = [k \in Keys |-> 0]
    /\ moved = [k \in Keys |-> 0]
    /\ owed = [u \in Users |-> InitMass]
    /\ spent = [catches |-> 0, earnings |-> 0, interventions |-> 0]

-----------------------------------------------------------------------------
(* Plausible bugs.  Each of these takes the place of the operator named above  *)
(* it in a mutation test: the property it is aimed at must notice.             *)

\* HasActiveOperation, without the states in which nobody works on it.
HasRunningOperation(u) ==
    \E k \in Keys : op[k].user = u /\ op[k].state \in {"processing", "external_pending"}

\* Verdict, a timeout taken for a refusal.
HastyVerdict(out, read) ==
    CASE out = "ok" -> "confirmed"
      [] out = "bare" -> IF read = "ok" THEN "confirmed" ELSE read
      [] out \in {"lost", "lostApplied", "garbled"} -> "rejected"
      [] OTHER -> out

\* InFlight, a lease too short for the request that holds it.
InFlightAtRunner(k) == \E w \in Workers : worker[w].key = k

\* SetReconciliation, an interrupted write simply tried again.
Requeue(k) ==
    /\ event' = [event EXCEPT ![k].state = "pending"]
    /\ op' = [op EXCEPT ![k].state = "pending"]

\* SetReconciliation, the operation row forgotten.
ReconcileEvent(k) ==
    /\ event' = [event EXCEPT ![k].state = "reconciliation_required"]
    /\ UNCHANGED op

\* FinalizeFailure, the mass of a sale kept.
FailWithoutReturn(k, attempts) ==
    /\ event' = [event EXCEPT ![k] = [state |-> "dead_letter", attempts |-> attempts]]
    /\ op' = [op EXCEPT ![k].state = "failed"]
    /\ UNCHANGED <<mass, owed, moved>>

\* Claimable, work that waits for a human included.
ClaimableOrUnsettled(k) == event[k].state \in {"pending", "reconciliation_required"}

\* Unsettled, dead letters offered to the administrator again.
UnsettledOrDead(k) == event[k].state \in {"reconciliation_required", "dead_letter"}

\* NextAttempt, the increment forgotten.
SameAttempt(k) == event[k].attempts

\* LockExpires, a key that was set without an expiry.
LockOutlivesHolder(u) == lock[u] = Orphan /\ UNCHANGED vars

-----------------------------------------------------------------------------
(* Helpers *)

Clamped(m) == IF m < 0 THEN 0 ELSE m

\* _ensure_no_active_operation: a column query, it always reads the database.
HasActiveOperation(u) ==
    \E k \in Keys : op[k].user = u /\ op[k].state \in ActiveStates

\* What the adapter's exceptions tell the caller about a PUT.  A reply without
\* a balance makes the request read it back, and the error of that read is
\* classified as if it were the error of the write.
Verdict(out, read) ==
    CASE out = "ok" -> "confirmed"
      [] out = "bare" -> IF read = "ok" THEN "confirmed" ELSE read
      [] out \in {"lost", "lostApplied"} -> "ambiguous"
      [] out = "garbled" -> "rejected"
      [] OTHER -> out

SafeRetry == {"notSent", "rateLimited"}

\* The provider's side of a PUT: a result outside its range is refused.
ProviderPut(k, u, delta, sign, out) ==
    IF out \in AppliedOutcomes
    THEN /\ ValidBalance(points[u] + delta)
         /\ points' = [points EXCEPT ![u] = @ + delta]
         /\ paid' = [paid EXCEPT ![k] = @ + sign]
    ELSE UNCHANGED <<points, paid>>

\* apply_mass_mutation on a row read under its lock.
MoveMass(k, u, delta, sign) ==
    /\ mass' = [mass EXCEPT ![u] = Clamped(@ + delta)]
    /\ owed' = [owed EXCEPT ![u] = Clamped(@ + delta)]
    /\ moved' = [moved EXCEPT ![k] = @ + sign]

\* The same call inside a request: SELECT ... FOR UPDATE returns the session's
\* own copy of the row, still holding the mass read before the first await,
\* and the commit writes the sum of that copy and the delta.
MoveCachedMass(r, k, u, delta, sign) ==
    /\ mass' = [mass EXCEPT ![u] = Clamped(req[r].snap + delta)]
    /\ owed' = [owed EXCEPT ![u] = Clamped(@ + delta)]
    /\ moved' = [moved EXCEPT ![k] = @ + sign]

\* Leaving the `with self._..._request_lock` block: the token is compared.
Released(r) == [u \in Users |-> IF lock[u] = r THEN None ELSE lock[u]]

Finish(r) ==
    /\ req' = [req EXCEPT ![r] = IdleRequest]
    /\ lock' = Released(r)

-----------------------------------------------------------------------------
(* A chat request, up to the operation row *)

\* Redis lock, replay lookup, durable check; the transaction is committed
\* before the balance is awaited, the loaded mass stays in the session.
Begin(r, k, u, kind, arg) ==
    /\ req[r].pc = "idle"
    /\ lock[u] = None
    /\ op[k].state = "none"
    /\ ~HasActiveOperation(u)
    /\ kind = "sell" => mass[u] > 0
    /\ lock' = [lock EXCEPT ![u] = r]
    /\ req' = [req EXCEPT ![r] =
                  [pc |-> "balance", key |-> k, kind |-> kind, user |-> u,
                   arg |-> arg, snap |-> mass[u], out |-> "none"]]
    /\ UNCHANGED <<mass, points, op, event, worker, paid, moved, owed, spent>>

SellMass(r) ==
    LET balance == points[req[r].user]
        wanted == IF req[r].arg = All
                  THEN MaxSellMass(balance, SellRate, req[r].snap)
                  ELSE req[r].arg
    IN  Least(Least(wanted, req[r].snap), MaxMass)

BuyMass(r) ==
    IF req[r].arg = All
    THEN MaxBuyMass(points[req[r].user], BuyRate, MaxMass)
    ELSE req[r].arg

\* The checks made again after the balance arrived, under the row lock; the
\* unique idempotency key refuses a second row.
MayCreate(r) ==
    /\ op[req[r].key].state = "none"
    /\ ~HasActiveOperation(req[r].user)

CanSell(r) ==
    /\ MayCreate(r)
    /\ req[r].snap > 0
    /\ SellMass(r) >= MinMass
    /\ SellPoints(SellMass(r), SellRate) > 0

CanBuy(r) ==
    /\ MayCreate(r)
    /\ BuyMass(r) \in MinMass .. MaxMass
    /\ BuyPoints(BuyMass(r), BuyRate) <= PointsMax
    /\ ValidDebit(points[req[r].user], BuyPoints(BuyMass(r), BuyRate))

SellFits(r) == ValidCredit(points[req[r].user], SellPoints(SellMass(r), SellRate))

\* An operation that is refused on the record, without touching either side.
OverCap(r) ==
    \/ /\ req[r].kind = "sell" /\ CanSell(r) /\ ~SellFits(r) /\ req[r].arg # All
    \/ /\ req[r].kind = "buy" /\ MayCreate(r)
       /\ BuyMass(r) >= (IF req[r].arg = All THEN MinMass ELSE 0)
       /\ BuyPoints(BuyMass(r), BuyRate) > PointsMax

\* A refused operation is over at once: its reply is stored with it.
NewOperation(r, state, amt, pts) ==
    [state |-> state, kind |-> req[r].kind, user |-> req[r].user,
     arg |-> req[r].arg, amt |-> amt, pts |-> pts, applied |-> FALSE,
     internal |-> FALSE, comp |-> FALSE, reply |-> state = "failed"]

\* Every way out that leaves no operation: a failed balance read, a refused
\* amount, not enough points, an active operation, a key already taken.
GiveUp(r) ==
    /\ req[r].pc = "balance"
    /\ \/ ReadOutcomes \ {"ok"} # {}
       \/ req[r].kind = "sell" /\ ~(CanSell(r) /\ SellFits(r)) /\ ~OverCap(r)
       \/ req[r].kind = "buy" /\ ~CanBuy(r) /\ ~OverCap(r)
    /\ Finish(r)
    /\ UNCHANGED <<mass, points, op, event, worker, paid, moved, owed, spent>>

RecordOverCap(r) ==
    /\ req[r].pc = "balance" /\ "ok" \in ReadOutcomes
    /\ OverCap(r)
    /\ LET k == req[r].key
           sell == req[r].kind = "sell"
       IN  /\ op' = [op EXCEPT ![k] =
                 NewOperation(r, "failed", IF sell THEN SellMass(r) ELSE BuyMass(r),
                              IF sell THEN SellPoints(SellMass(r), SellRate) ELSE 0)]
           /\ event' = [event EXCEPT ![k].state = "dead_letter"]
    /\ Finish(r)
    /\ UNCHANGED <<mass, points, worker, paid, moved, owed, spent>>

\* sell_fish: the mass is taken before the provider is asked for the points.
CreateSell(r) ==
    /\ req[r].pc = "balance" /\ req[r].kind = "sell" /\ "ok" \in ReadOutcomes
    /\ CanSell(r) /\ SellFits(r)
    /\ LET k == req[r].key
           amt == SellMass(r)
       IN  /\ op' = [op EXCEPT ![k] =
                 NewOperation(r, "processing", amt, SellPoints(amt, SellRate))]
           /\ event' = [event EXCEPT ![k].state = "processing"]
           /\ MoveCachedMass(r, k, req[r].user, -amt, 1)
           /\ req' = [req EXCEPT ![r].pc = "write",
                                 ![r].snap = Clamped(req[r].snap - amt)]
    /\ UNCHANGED <<points, lock, worker, paid, spent>>

\* buy_fish: the mass is given only after the provider took the points.
CreateBuy(r) ==
    /\ req[r].pc = "balance" /\ req[r].kind = "buy" /\ "ok" \in ReadOutcomes
    /\ CanBuy(r)
    /\ LET k == req[r].key
           amt == BuyMass(r)
       IN  /\ op' = [op EXCEPT ![k] =
                 NewOperation(r, "external_pending", amt, -BuyPoints(amt, BuyRate))]
           /\ event' = [event EXCEPT ![k].state = "processing"]
    /\ req' = [req EXCEPT ![r].pc = "write"]
    /\ UNCHANGED <<mass, points, lock, worker, paid, moved, owed, spent>>

-----------------------------------------------------------------------------
(* _execute_sell and _execute_buy *)

RequestWrites(r, out) ==
    /\ req[r].pc = "write"
    /\ ProviderPut(req[r].key, req[r].user, op[req[r].key].pts, 1, out)
    /\ req' = [req EXCEPT ![r].pc = "answered", ![r].out = out]
    /\ UNCHANGED <<mass, op, event, lock, worker, moved, owed, spent>>

\* The request learns `verdict`, after reading the balance back if it must.
Learns(r, verdict) ==
    /\ req[r].pc = "answered"
    /\ \E read \in ReadOutcomes : Verdict(req[r].out, read) = verdict

CompleteSell(r) ==
    /\ req[r].kind = "sell" /\ Learns(r, "confirmed")
    /\ LET k == req[r].key
       IN  /\ op' = [op EXCEPT ![k].state = "completed", ![k].applied = TRUE,
                               ![k].reply = TRUE]
           /\ event' = [event EXCEPT ![k].state = "processed"]
    /\ Finish(r)
    /\ UNCHANGED <<mass, points, worker, paid, moved, owed, spent>>

CompleteBuy(r) ==
    /\ req[r].kind = "buy" /\ Learns(r, "confirmed")
    /\ LET k == req[r].key
       IN  /\ op' = [op EXCEPT ![k].state = "completed", ![k].applied = TRUE,
                               ![k].internal = TRUE, ![k].reply = TRUE]
           /\ event' = [event EXCEPT ![k].state = "processed"]
           /\ MoveCachedMass(r, k, req[r].user, op[k].amt, 1)
    /\ Finish(r)
    /\ UNCHANGED <<points, worker, paid, spent>>

\* _ambiguous: nobody may repeat the write before a human looked.
DeclareAmbiguous(r) ==
    /\ Learns(r, "ambiguous")
    /\ LET k == req[r].key
       IN  /\ op' = [op EXCEPT ![k].state = "reconciliation_required",
                               ![k].reply = TRUE]
           /\ event' = [event EXCEPT ![k].state = "reconciliation_required"]
    /\ Finish(r)
    /\ UNCHANGED <<mass, points, worker, paid, moved, owed, spent>>

\* _queue_retry: hand the operation to the worker; no response is stored.
QueueRetry(r) ==
    /\ \E v \in SafeRetry : Learns(r, v)
    /\ LET k == req[r].key
       IN  /\ op' = [op EXCEPT ![k].state = "queued",
                               ![k].applied = req[r].out = "bare"]
           /\ event' = [event EXCEPT ![k].state = "pending"]
    /\ Finish(r)
    /\ UNCHANGED <<mass, points, worker, paid, moved, owed, spent>>

\* _restore_sell: give the mass back.
RestoreSell(r) ==
    /\ req[r].kind = "sell" /\ Learns(r, "rejected")
    /\ LET k == req[r].key
       IN  /\ op' = [op EXCEPT ![k].state = "compensated", ![k].comp = TRUE,
                               ![k].applied = FALSE, ![k].reply = TRUE]
           /\ event' = [event EXCEPT ![k].state = "compensated"]
           /\ MoveCachedMass(r, k, req[r].user, op[k].amt, -1)
    /\ Finish(r)
    /\ UNCHANGED <<points, worker, paid, spent>>

\* The external_applied flag the attempt may have set is saved with the rest.
FailBuy(r) ==
    /\ req[r].kind = "buy" /\ Learns(r, "rejected")
    /\ LET k == req[r].key
       IN  /\ op' = [op EXCEPT ![k].state = "failed", ![k].reply = TRUE,
                               ![k].applied = req[r].out = "bare"]
           /\ event' = [event EXCEPT ![k].state = "dead_letter"]
    /\ Finish(r)
    /\ UNCHANGED <<mass, points, worker, paid, moved, owed, spent>>

\* The write was confirmed but saving it failed: everything since the last
\* commit is rolled back.  A sale is left to reconciliation, a purchase is
\* refunded at the provider.
SaveOfSellFails(r) ==
    /\ req[r].kind = "sell" /\ Learns(r, "confirmed")
    /\ LET k == req[r].key
       IN  /\ op' = [op EXCEPT ![k].state = "reconciliation_required",
                               ![k].reply = TRUE]
           /\ event' = [event EXCEPT ![k].state = "reconciliation_required"]
    /\ Finish(r)
    /\ UNCHANGED <<mass, points, worker, paid, moved, owed, spent>>

SaveOfBuyFails(r) ==
    /\ req[r].kind = "buy" /\ Learns(r, "confirmed")
    /\ req' = [req EXCEPT ![r].pc = "refundRead", ![r].out = "none"]
    /\ UNCHANGED <<mass, points, op, event, lock, worker, paid, moved, owed, spent>>

\* _compensate_buy: a failed read or a refund over the cap needs a human.
RefundFits(r) ==
    /\ "ok" \in ReadOutcomes
    /\ ValidCredit(points[req[r].user], -op[req[r].key].pts)

RefundRefused(r) ==
    /\ req[r].pc = "refundRead"
    /\ ReadOutcomes \ {"ok"} # {} \/ ~RefundFits(r)
    /\ LET k == req[r].key
       IN  /\ op' = [op EXCEPT ![k].state = "reconciliation_required",
                               ![k].reply = TRUE]
           /\ event' = [event EXCEPT ![k].state = "reconciliation_required"]
    /\ Finish(r)
    /\ UNCHANGED <<mass, points, worker, paid, moved, owed, spent>>

RefundStarts(r) ==
    /\ req[r].pc = "refundRead" /\ RefundFits(r)
    /\ req' = [req EXCEPT ![r].pc = "refundWrite"]
    /\ UNCHANGED <<mass, points, op, event, lock, worker, paid, moved, owed, spent>>

RefundWrites(r, out) ==
    /\ req[r].pc = "refundWrite"
    /\ ProviderPut(req[r].key, req[r].user, -op[req[r].key].pts, -1, out)
    /\ req' = [req EXCEPT ![r].pc = "refunded", ![r].out = out]
    /\ UNCHANGED <<mass, op, event, lock, worker, moved, owed, spent>>

RefundVerdict(r) ==
    IF req[r].out \in {"ok", "bare"} THEN "compensated" ELSE "reconciliation_required"

RefundSettles(r) ==
    /\ req[r].pc = "refunded"
    /\ LET k == req[r].key
       IN  /\ op' = [op EXCEPT ![k].state = RefundVerdict(r), ![k].reply = TRUE]
           /\ event' = [event EXCEPT ![k].state = RefundVerdict(r)]
    /\ Finish(r)
    /\ UNCHANGED <<mass, points, worker, paid, moved, owed, spent>>

\* The engine dies: an open transaction is rolled back, the Redis key stays.
Crash(r) ==
    /\ req[r].pc # "idle"
    /\ req' = [req EXCEPT ![r] = IdleRequest]
    /\ lock' = [u \in Users |-> IF lock[u] = r THEN Orphan ELSE lock[u]]
    /\ UNCHANGED <<mass, points, op, event, worker, paid, moved, owed, spent>>

LockExpires(u) ==
    /\ lock[u] = Orphan
    /\ lock' = [lock EXCEPT ![u] = None]
    /\ UNCHANGED <<mass, points, op, event, req, worker, paid, moved, owed, spent>>

-----------------------------------------------------------------------------
(* SEJobRunner *)

InFlight(k) ==
    \/ \E r \in Requests : req[r].key = k /\ req[r].pc \notin {"idle", "balance"}
    \/ \E w \in Workers : worker[w].key = k

\* _set_reconciliation
SetReconciliation(k) ==
    /\ event' = [event EXCEPT ![k].state = "reconciliation_required"]
    /\ op' = [op EXCEPT ![k].state = "reconciliation_required"]

\* The lease is over only when its holder is gone (see the head of the module).
RecoverExpiredLease(w, k) ==
    /\ worker[w].pc = "idle"
    /\ event[k].state = "processing"
    /\ ~InFlight(k)
    /\ SetReconciliation(k)
    /\ UNCHANGED <<mass, points, lock, req, worker, paid, moved, owed, spent>>

\* _finalize_failure on operation k: a sale gets its mass back once, anything
\* else has merely failed.  The one to refund is always found: no code deletes a
\* user or a channel (se_job_runner.py:352).
FinalizeFailure(k, attempts) ==
    /\ event' = [event EXCEPT ![k] = [state |-> "dead_letter", attempts |-> attempts]]
    /\ IF op[k].kind = "sell"
       THEN IF op[k].comp
            THEN /\ op' = [op EXCEPT ![k].state = "compensated"]
                 /\ UNCHANGED <<mass, owed, moved>>
            ELSE /\ op' = [op EXCEPT ![k].state = "compensated", ![k].comp = TRUE,
                                     ![k].applied = FALSE, ![k].reply = TRUE]
                 /\ MoveMass(k, op[k].user, op[k].amt, -1)
       ELSE /\ op' = [op EXCEPT ![k].state = "failed"]
            /\ UNCHANGED <<mass, owed, moved>>

\* What the poll picks up; the delay until the next attempt is not modelled.
Claimable(k) == event[k].state = "pending"

\* The integration was disconnected or its credential cannot be decrypted.
ClaimUnconfigured(w, k) ==
    /\ worker[w].pc = "idle"
    /\ Claimable(k)
    /\ FinalizeFailure(k, event[k].attempts)
    /\ UNCHANGED <<points, lock, req, worker, paid, spent>>

\* The channel was rebound to another provider account meanwhile.
ClaimRebound(w, k) ==
    /\ worker[w].pc = "idle"
    /\ Claimable(k)
    /\ SetReconciliation(k)
    /\ UNCHANGED <<mass, points, lock, req, worker, paid, moved, owed, spent>>

Claim(w, k) ==
    /\ worker[w].pc = "idle"
    /\ Claimable(k)
    /\ event' = [event EXCEPT ![k].state = "processing"]
    /\ op' = [op EXCEPT ![k].state = "processing"]
    /\ worker' = [worker EXCEPT ![w] = [pc |-> "balance", key |-> k, out |-> "none"]]
    /\ UNCHANGED <<mass, points, lock, req, paid, moved, owed, spent>>

Rest(w) == worker' = [worker EXCEPT ![w] = IdleRunner]

WorkerFits(k) ==
    LET balance == points[op[k].user]
    IN  IF op[k].pts >= 0 THEN ValidCredit(balance, op[k].pts)
        ELSE ValidDebit(balance, -op[k].pts)

WorkerReads(w) ==
    /\ worker[w].pc = "balance" /\ "ok" \in ReadOutcomes
    /\ WorkerFits(worker[w].key)
    /\ worker' = [worker EXCEPT ![w].pc = "write"]
    /\ UNCHANGED <<mass, points, op, event, lock, req, paid, moved, owed, spent>>

WorkerWrites(w, out) ==
    /\ worker[w].pc = "write"
    /\ LET k == worker[w].key
       IN  ProviderPut(k, op[k].user, op[k].pts, 1, out)
    /\ worker' = [worker EXCEPT ![w].pc = "answered", ![w].out = out]
    /\ UNCHANGED <<mass, op, event, lock, req, moved, owed, spent>>

\* A confirmed write completes the operation; apply_confirmed_buy_mass gives the
\* mass of a purchase unless it has been given before.
ConfirmOperation(k) ==
    LET buys == op[k].kind = "buy" /\ ~op[k].internal
    IN  /\ event' = [event EXCEPT ![k].state = "processed"]
        /\ op' = [op EXCEPT ![k].state = "completed", ![k].applied = TRUE,
                            ![k].internal = @ \/ buys]
        /\ IF buys THEN MoveMass(k, op[k].user, op[k].amt, 1)
           ELSE UNCHANGED <<mass, owed, moved>>

\* The worker never reads the balance back: a bare reply is a success.
WorkerVerdict(w) == Verdict(worker[w].out, "ok")

WorkerCompletes(w) ==
    /\ worker[w].pc = "answered" /\ WorkerVerdict(w) = "confirmed"
    /\ ConfirmOperation(worker[w].key)
    /\ Rest(w)
    /\ UNCHANGED <<points, lock, req, paid, spent>>

\* A lost reply, a failure to save what the provider confirmed, or a failure of
\* the flush that precedes the write.
WorkerAmbiguous(w) ==
    /\ \/ worker[w].pc = "balance" /\ "ok" \in ReadOutcomes
       \/ worker[w].pc = "answered" /\ WorkerVerdict(w) \in {"ambiguous", "confirmed"}
    /\ SetReconciliation(worker[w].key)
    /\ Rest(w)
    /\ UNCHANGED <<mass, points, lock, req, paid, moved, owed, spent>>

NextAttempt(k) == event[k].attempts + 1

\* _schedule_retry: the failed read or write did not reach the provider.
ScheduleRetry(w) ==
    /\ \/ worker[w].pc = "balance" /\ SafeRetry \intersect ReadOutcomes # {}
       \/ worker[w].pc = "answered" /\ WorkerVerdict(w) \in SafeRetry
    /\ LET k == worker[w].key
           attempts == NextAttempt(k)
       IN  IF attempts >= MaxAttempts
           THEN FinalizeFailure(k, attempts)
           ELSE /\ event' = [event EXCEPT ![k] =
                                [state |-> "pending", attempts |-> attempts]]
                /\ op' = [op EXCEPT ![k].state = "pending"]
                /\ UNCHANGED <<mass, owed, moved>>
    /\ Rest(w)
    /\ UNCHANGED <<points, lock, req, paid, spent>>

\* _dead_letter: any other provider error, or a balance that no longer fits.
DeadLetter(w) ==
    /\ \/ /\ worker[w].pc = "balance"
          /\ "rejected" \in ReadOutcomes \/ ~WorkerFits(worker[w].key)
       \/ worker[w].pc = "answered" /\ WorkerVerdict(w) = "rejected"
    /\ FinalizeFailure(worker[w].key, event[worker[w].key].attempts)
    /\ Rest(w)
    /\ UNCHANGED <<points, lock, req, paid, spent>>

WorkerCrash(w) ==
    /\ worker[w].pc # "idle"
    /\ Rest(w)
    /\ UNCHANGED <<mass, points, op, event, lock, req, paid, moved, owed, spent>>

-----------------------------------------------------------------------------
(* The administrator's reconciliation actions.  Whoever decides has looked   *)
(* at the provider: only a write that was applied is completed, only one     *)
(* that was not is repeated or given back.                                   *)

Unsettled(k) == event[k].state = "reconciliation_required"

AdminRetry(k) ==
    /\ Unsettled(k) /\ paid[k] = 0
    /\ spent.interventions < MaxInterventions
    /\ event' = [event EXCEPT ![k].state = "pending"]
    /\ op' = [op EXCEPT ![k].state = "pending"]
    /\ spent' = [spent EXCEPT !.interventions = @ + 1]
    /\ UNCHANGED <<mass, points, lock, req, worker, paid, moved, owed>>

AdminComplete(k) ==
    /\ Unsettled(k) /\ paid[k] = 1
    /\ ConfirmOperation(k)
    /\ UNCHANGED <<points, lock, req, worker, paid, spent>>

AdminCompensate(k) ==
    /\ Unsettled(k) /\ paid[k] = 0
    /\ op[k].kind = "sell"
    /\ event' = [event EXCEPT ![k].state = "compensated"]
    /\ op' = [op EXCEPT ![k].state = "compensated", ![k].comp = TRUE,
                        ![k].applied = FALSE]
    /\ IF op[k].comp THEN UNCHANGED <<mass, owed, moved>>
       ELSE MoveMass(k, op[k].user, op[k].amt, -1)
    /\ UNCHANGED <<points, lock, req, worker, paid, spent>>

AdminDeadLetter(k) ==
    /\ Unsettled(k)
    /\ event' = [event EXCEPT ![k].state = "dead_letter"]
    /\ op' = [op EXCEPT ![k].state = "dead_letter"]
    /\ UNCHANGED <<mass, points, lock, req, worker, paid, moved, owed, spent>>

-----------------------------------------------------------------------------
(* Everything else that moves the two balances *)

\* A cast or a robbery commits its own change of mass, under the row lock.
Catch(u, delta) ==
    /\ spent.catches < MaxCatches
    /\ mass[u] + delta >= 0
    /\ mass' = [mass EXCEPT ![u] = @ + delta]
    /\ owed' = [owed EXCEPT ![u] = Clamped(@ + delta)]
    /\ spent' = [spent EXCEPT !.catches = @ + 1]
    /\ UNCHANGED <<points, op, event, lock, req, worker, paid, moved>>

\* Points are earned and spent on the stream without the engine.
Earn(u, delta) ==
    /\ spent.earnings < MaxEarnings
    /\ ValidBalance(points[u] + delta)
    /\ points' = [points EXCEPT ![u] = @ + delta]
    /\ spent' = [spent EXCEPT !.earnings = @ + 1]
    /\ UNCHANGED <<mass, op, event, lock, req, worker, paid, moved, owed>>

-----------------------------------------------------------------------------

RequestContinues(r) ==
    \/ GiveUp(r) \/ RecordOverCap(r) \/ CreateSell(r) \/ CreateBuy(r)
    \/ \E out \in WriteOutcomes : RequestWrites(r, out) \/ RefundWrites(r, out)
    \/ CompleteSell(r) \/ CompleteBuy(r) \/ DeclareAmbiguous(r) \/ QueueRetry(r)
    \/ RestoreSell(r) \/ FailBuy(r) \/ SaveOfSellFails(r) \/ SaveOfBuyFails(r)
    \/ RefundRefused(r) \/ RefundStarts(r) \/ RefundSettles(r)

WorkerStep(w) ==
    \/ \E k \in Keys : \/ RecoverExpiredLease(w, k) \/ ClaimUnconfigured(w, k)
                      \/ ClaimRebound(w, k) \/ Claim(w, k)
    \/ WorkerReads(w)
    \/ \E out \in WriteOutcomes : WorkerWrites(w, out)
    \/ WorkerCompletes(w) \/ WorkerAmbiguous(w) \/ ScheduleRetry(w) \/ DeadLetter(w)

AdminStep ==
    \E k \in Keys : \/ AdminRetry(k) \/ AdminComplete(k)
                   \/ AdminCompensate(k) \/ AdminDeadLetter(k)

Environment ==
    \/ \E r \in Requests : Crash(r)
    \/ \E w \in Workers : WorkerCrash(w)
    \/ \E u \in Users, delta \in {-1, 1} : Catch(u, delta) \/ Earn(u, delta)

Next ==
    \/ \E r \in Requests, k \in Keys, u \in Users, kind \in {"sell", "buy"}, arg \in Args :
          Begin(r, k, u, kind, arg)
    \/ \E r \in Requests : RequestContinues(r)
    \/ \E w \in Workers : WorkerStep(w)
    \/ AdminStep
    \/ \E u \in Users : LockExpires(u)
    \/ Environment

Spec == Init /\ [][Next]_vars

\* Every await of a request is bounded by a client timeout, the worker polls
\* every second, and Redis drops a key at its expiry.  Nobody has to send a
\* command, nothing has to crash, and no administrator has to act.
Fairness ==
    /\ \A r \in Requests : WF_vars(RequestContinues(r))
    /\ \A w \in Workers : WF_vars(WorkerStep(w))
    /\ \A u \in Users : WF_vars(LockExpires(u))

FairSpec == Spec /\ Fairness

-----------------------------------------------------------------------------
(* Properties *)

\* A viewer has at most one conversion that is not settled, whatever requests,
\* retries and restarts interleave: the durable check of a new conversion
\* (_ensure_no_active_operation) is made twice around an await.
OneActiveOperation ==
    \A u \in Users, k1, k2 \in Keys :
        /\ op[k1].user = u /\ op[k1].state \in ActiveStates
        /\ op[k2].user = u /\ op[k2].state \in ActiveStates
        => k1 = k2

\* A settled conversion happened on both sides or on neither: completed means
\* the provider applied it once and the mass moved once; compensated or failed
\* means both are as before (economy_service and se_job_runner, all outcomes).
AtomicSettlement ==
    \A k \in Keys :
        /\ op[k].state = "completed" => paid[k] = 1 /\ moved[k] = 1
        /\ op[k].state \in {"compensated", "failed"} => paid[k] = 0 /\ moved[k] = 0

\* Nobody ever holds both sides of a conversion, not even while it runs: points
\* are paid only for mass already taken, mass is given only for points already
\* taken, and neither happens twice.
NeverBothSides ==
    \A k \in Keys :
        /\ paid[k] \in {0, 1} /\ moved[k] \in {0, 1}
        /\ op[k].kind = "sell" /\ paid[k] = 1 => moved[k] = 1
        /\ op[k].kind = "buy" /\ moved[k] = 1 => paid[k] = 1

\* What an outbox event in state e says of its operation's state o.
Agrees(e, o) ==
    CASE e = "none" -> o = "none"
      [] e = "pending" -> o \in {"queued", "pending"}
      [] e = "processing" -> o \in {"processing", "external_pending"}
      [] e = "processed" -> o = "completed"
      [] e = "dead_letter" -> o \in {"failed", "compensated", "dead_letter"}
      [] OTHER -> o = e

\* The outbox event and the operation row, written together by three different
\* programs, never tell two stories.
EventAgreesWithOperation ==
    \A k \in Keys : Agrees(event[k].state, op[k].state)

\* No race loses a change of mass: the row holds what adding every change to
\* the value it found would have given.
NoLostMass == mass = owed

\* A purchase that the provider debited is refunded or left to a human, it is
\* never just given up (the boundary _execute_buy draws around its errors).
DebitIsRefundedOrReconciled ==
    \A k \in Keys : op[k].kind = "buy" /\ paid[k] = 1 => op[k].state # "failed"

\* A command that is sent again after its conversion was settled is answered
\* with the stored reply, whoever settled it (_stored_response).
SettledOperationReplays ==
    \A k \in Keys :
        op[k].state \in {"completed", "compensated", "failed"} => op[k].reply

\* While no human acts, a write whose outcome is unknown is neither repeated
\* nor settled (ProviderAmbiguousWriteError, expired leases).
AmbiguityIsLeftToHumans ==
    [][\A k \in Keys : Unsettled(k) /\ op'[k] # op[k] => AdminStep]_vars

\* A settled conversion stays settled: no late answer, retry or recovery moves
\* points or mass for it again.
SettledIsFinal ==
    [][\A k \in Keys : op[k].state \in OpStates \ (ActiveStates \union {"none"})
          => op'[k] = op[k] /\ paid'[k] = paid[k] /\ moved'[k] = moved[k]]_vars

\* Whatever fails, an operation that was handed to the outbox leaves it: it is
\* settled or a human is asked, and nothing stays pending or leased for ever.  Nor
\* is a viewer locked out: the Redis lock of a request is given back or runs out.
ConversionsSettle ==
    /\ \A k \in Keys : event[k].state \in {"pending", "processing"}
                        ~> event[k].state \notin {"pending", "processing"}
    /\ \A u \in Users : lock[u] # None ~> lock[u] = None

=============================================================================
