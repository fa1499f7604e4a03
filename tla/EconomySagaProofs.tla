-------------------------- MODULE EconomySagaProofs -------------------------
(***************************************************************************)
(* The safety of the conversion saga, for any number of viewers, keys,     *)
(* requests and runners.  The inductive invariant is SagaInv: its          *)
(* ProtocolInv is preserved whatever the provider answers, SettlementInv   *)
(* needs a provider whose replies are clean (CleanProvider).               *)
(*                                                                         *)
(* Two thirds of the actions do the same to the invariant: one operation   *)
(* moves to its next state and whoever carried it lets go.  Settles says   *)
(* so, each of those actions is shown to settle its operation, and the     *)
(* invariant is shown once to survive a step that settles.                 *)
(***************************************************************************)
EXTENDS EconomySagaRefinement, WellFoundedInduction, TLAPS

-----------------------------------------------------------------------------
(* A step that settles *)

\* Operation k moves to state s and its event to state t; the flags that guard
\* against moving its mass twice are set exactly where its mass has moved.
Amends(k, s, t) ==
    \E o \in Operation, e \in Event :
        /\ op' = [op EXCEPT ![k] = o] /\ event' = [event EXCEPT ![k] = e]
        /\ o.state = s /\ e.state = t
        /\ o.user = op[k].user /\ o.kind = op[k].kind
        /\ o.kind = "sell" => (o.comp <=> s = "compensated")
        /\ o.kind = "buy" => (o.internal <=> s = "completed")

\* The mass of operation k moves by the sign d, if at all.
Moves(k, d) ==
    /\ moved' = [moved EXCEPT ![k] = @ + d]
    /\ mass' \in [Users -> Nat] /\ owed' \in [Users -> Nat]
    /\ op[k].kind = "sell" =>
          moved[k] + d = Count(op'[k].state \notin {"compensated", "failed"})
    /\ op[k].kind = "buy" => moved[k] + d = Count(op'[k].state = "completed")

\* Nobody carries operation k afterwards, and nobody starts to.
LetsGo(k) ==
    /\ \A q \in Requests :
          \/ req'[q] = IdleRequest
          \/ req'[q] = req[q] /\ (Carrying(q) => req[q].key # k)
    /\ \A v \in Workers :
          \/ worker'[v] = IdleRunner
          \/ worker'[v] = worker[v] /\ (Working(v) => worker[v].key # k)

\* What no settling step disturbs, and the types of the rest.
Elsewhere ==
    /\ UNCHANGED <<points, paid>>
    /\ req' \in [Requests -> Request]
    /\ worker' \in [Workers -> Runner]
    /\ lock' \in [Users -> Requests \union {None, Orphan}]
    /\ spent' \in [catches : Nat, earnings : Nat, interventions : Nat]

Settles(k, s, t, d) ==
    /\ k \in Keys /\ op[k].state \in ActiveStates
    /\ s # "none" /\ t # "processing" /\ Agrees(t, s)
    /\ Amends(k, s, t) /\ Moves(k, d) /\ LetsGo(k) /\ Elsewhere

\* A step that settles one operation preserves the protocol invariant.
LEMMA SettlingKeepsProtocol ==
    ASSUME ProtocolInv, NEW k, NEW s, NEW t, NEW d \in Int, Settles(k, s, t, d)
    PROVE  ProtocolInv'
<1>1. PICK o \in Operation, e \in Event :
          /\ op' = [op EXCEPT ![k] = o] /\ event' = [event EXCEPT ![k] = e]
          /\ o.state = s /\ e.state = t
          /\ o.user = op[k].user /\ o.kind = op[k].kind
          /\ o.kind = "sell" => (o.comp <=> s = "compensated")
          /\ o.kind = "buy" => (o.internal <=> s = "completed")
    BY DEF Settles, Amends
<1>2. /\ k \in Keys /\ op[k].state \in ActiveStates
      /\ s # "none" /\ t # "processing" /\ Agrees(t, s)
    BY DEF Settles
<1>3. /\ op \in [Keys -> Operation] /\ event \in [Keys -> Event]
      /\ op'[k] = o /\ event'[k] = e
      /\ \A j \in Keys \ {k} : op'[j] = op[j] /\ event'[j] = event[j]
    BY <1>1, <1>2 DEF ProtocolInv, TypeOK
<1>4. TypeOK'
    BY <1>1, <1>2 DEF ProtocolInv, TypeOK, Settles, Moves, Elsewhere
<1>5. RequestWaits'
    BY DEF ProtocolInv, RequestWaits, Settles, LetsGo, IdleRequest
<1>6. EventAgreesWithOperation'
    BY <1>1, <1>2, <1>3 DEF ProtocolInv, EventAgreesWithOperation
<1>7. \A q \in Requests : Carrying(q)' =>
          Carrying(q) /\ req'[q] = req[q] /\ req[q].key # k
    BY DEF Settles, LetsGo, Carrying, IdleRequest, RequestSteps
<1>8. \A v \in Workers : Working(v)' =>
          Working(v) /\ worker'[v] = worker[v] /\ worker[v].key # k
    BY DEF Settles, LetsGo, Working, IdleRunner
<1>9. RequestCarries'
    BY <1>3, <1>7 DEF ProtocolInv, RequestCarries
<1>10. RunnerCarries'
    BY <1>3, <1>8 DEF ProtocolInv, RunnerCarries
<1>11. OneCarrier'
    BY <1>7, <1>8 DEF ProtocolInv, OneCarrier
<1>12. OneActiveOperation'
    BY <1>1, <1>2, <1>3 DEF ProtocolInv, OneActiveOperation
<1>13. MovedByState'
    <2>1. moved' = [moved EXCEPT ![k] = @ + d] /\ moved \in [Keys -> Int]
        BY DEF Settles, Moves, ProtocolInv, TypeOK
    <2>2. moved'[k] = moved[k] + d /\ \A j \in Keys \ {k} : moved'[j] = moved[j]
        BY <1>2, <2>1
    <2>3. op[k].kind # "none" /\ op[k].user \in Users
        BY <1>2 DEF ProtocolInv, MovedByState, ActiveStates
    <2>4. /\ op[k].kind = "sell" => moved'[k] = Count(op'[k].state \notin {"compensated", "failed"})
          /\ op[k].kind = "buy" => moved'[k] = Count(op'[k].state = "completed")
        BY <2>2 DEF Settles, Moves
    <2>5. MovedByState!(k)'
        BY <1>1, <1>2, <1>3, <2>3, <2>4
    <2>6. ASSUME NEW j \in Keys \ {k} PROVE MovedByState!(j)'
        BY <1>3, <2>2 DEF ProtocolInv, MovedByState
    <2>7. QED
        BY <2>5, <2>6 DEF MovedByState
<1>14. QED
    BY <1>4, <1>5, <1>6, <1>9, <1>10, <1>11, <1>12, <1>13 DEF ProtocolInv

-----------------------------------------------------------------------------
(* Who lets go *)

\* A request that is over leaves its operation to nobody.
LEMMA RequestLetsGo ==
    ASSUME ProtocolInv, NEW r \in Requests, Carrying(r), Finish(r), UNCHANGED worker
    PROVE  LetsGo(req[r].key)
  BY DEF ProtocolInv, TypeOK, OneCarrier, LetsGo, Finish

\* So does a runner that goes back to polling.
LEMMA RunnerLetsGo ==
    ASSUME ProtocolInv, NEW w \in Workers, Working(w), Rest(w), UNCHANGED req
    PROVE  LetsGo(worker[w].key)
  BY DEF ProtocolInv, TypeOK, OneCarrier, LetsGo, Rest

\* An operation whose event is not leased is carried by nobody.
LEMMA UnleasedLetsGo ==
    ASSUME ProtocolInv, NEW k, event[k].state # "processing", UNCHANGED <<req, worker>>
    PROVE  LetsGo(k)
  BY DEF ProtocolInv, RequestCarries, RunnerCarries, LetsGo

\* What a request or a runner knows of the operation it carries.
LEMMA CarriedOperation ==
    ASSUME ProtocolInv, NEW r \in Requests, Carrying(r)
    PROVE  LET k == req[r].key
           IN  /\ k \in Keys /\ op[k] \in Operation /\ event[k] \in Event
               /\ event[k].state = "processing"
               /\ op[k].state \in {"processing", "external_pending"}
               /\ op[k].state \in ActiveStates
               /\ op[k].user = req[r].user /\ req[r].user \in Users
               /\ op[k].kind = req[r].kind /\ op[k].kind \in {"sell", "buy"}
               /\ op[k].kind = "sell" => moved[k] = 1 /\ ~op[k].comp
               /\ op[k].kind = "buy" => moved[k] = 0 /\ ~op[k].internal
  BY DEF ProtocolInv, TypeOK, RequestCarries, MovedByState, Count, ActiveStates

\* What is known of an operation that waits in the outbox.
LEMMA ClaimedOperation ==
    ASSUME ProtocolInv, NEW k \in Keys,
           event[k].state \in {"pending", "processing", "reconciliation_required"}
    PROVE  /\ op[k] \in Operation /\ event[k] \in Event
           /\ op[k].state \in ActiveStates /\ op[k].user \in Users
           /\ op[k].kind \in {"sell", "buy"}
           /\ op[k].kind = "sell" => moved[k] = 1 /\ ~op[k].comp
           /\ op[k].kind = "buy" => moved[k] = 0 /\ ~op[k].internal
<1>1. op[k] \in Operation /\ event[k] \in Event
    BY DEF ProtocolInv, TypeOK
<1>2. op[k].state \in {"queued", "pending", "processing", "external_pending",
                       "reconciliation_required"}
    BY DEF ProtocolInv, EventAgreesWithOperation, Agrees
<1>3. QED
    BY <1>1, <1>2 DEF ProtocolInv, MovedByState, Count, ActiveStates, Operation

\* Where a step leaves the local mass alone, nothing moves.
LEMMA NothingMoves ==
    ASSUME ProtocolInv, NEW k \in Keys, UNCHANGED <<mass, owed, moved>>,
           op[k].kind = "sell" =>
              moved[k] = 1 /\ op'[k].state \notin {"compensated", "failed"},
           op[k].kind = "buy" => moved[k] = 0 /\ op'[k].state # "completed"
    PROVE  Moves(k, 0)
<1>1. moved \in [Keys -> Int] /\ mass \in [Users -> Nat] /\ owed \in [Users -> Nat]
    BY DEF ProtocolInv, TypeOK
<1>2. moved = [moved EXCEPT ![k] = @ + 0]
    BY <1>1
<1>3. QED
    BY <1>1, <1>2 DEF Moves, Count

\* The mass of a sale that is given back, the mass of a purchase that arrives.
LEMMA MassMoves ==
    ASSUME ProtocolInv, NEW k \in Keys, op[k].user \in Users, op[k] \in Operation,
           NEW d \in {-1, 1},
           \/ MoveMass(k, op[k].user, op[k].amt, d)
           \/ \E r \in Requests : MoveCachedMass(r, k, op[k].user, op[k].amt, d),
           \/ /\ op[k].kind = "sell" /\ d = -1 /\ moved[k] = 1
              /\ op'[k].state \in {"compensated", "failed"}
           \/ /\ op[k].kind = "buy" /\ d = 1 /\ moved[k] = 0
              /\ op'[k].state = "completed"
    PROVE  Moves(k, d)
<1>1. /\ moved \in [Keys -> Int] /\ mass \in [Users -> Nat] /\ owed \in [Users -> Nat]
      /\ \A r \in Requests : req[r].snap \in Nat
      /\ op[k].amt \in Nat
    BY DEF ProtocolInv, TypeOK, Request, Operation
<1>2. mass' \in [Users -> Nat] /\ owed' \in [Users -> Nat]
      /\ moved' = [moved EXCEPT ![k] = @ + d]
    BY <1>1 DEF MoveMass, MoveCachedMass, Clamped
<1>3. QED
    BY <1>2 DEF Moves, Count

-----------------------------------------------------------------------------
(* The actions that settle *)

\* A request that is over disturbs nothing else.
LEMMA RequestElsewhere ==
    ASSUME ProtocolInv, NEW r \in Requests, Finish(r),
           UNCHANGED <<points, worker, paid, spent>>
    PROVE  Elsewhere
  BY DEF ProtocolInv, TypeOK, Elsewhere, Finish, Released, IdleRequest, Request, RequestSteps

\* A sale is completed once the provider has paid for it.
LEMMA CompleteSellSettles ==
    ASSUME ProtocolInv, NEW r \in Requests, CompleteSell(r)
    PROVE  Settles(req[r].key, "completed", "processed", 0)
<1> DEFINE k == req[r].key
           o == [op[k] EXCEPT !.state = "completed", !.applied = TRUE, !.reply = TRUE]
           e == [event[k] EXCEPT !.state = "processed"]
<1>1. Carrying(r) /\ req[r].kind = "sell"
    BY DEF CompleteSell, Learns, Carrying, RequestSteps
<1>2. /\ k \in Keys /\ op[k] \in Operation /\ event[k] \in Event
      /\ op[k].state \in ActiveStates
      /\ op[k].kind = req[r].kind /\ op[k].user = req[r].user /\ op[k].user \in Users
      /\ op[k].kind = "sell" => moved[k] = 1 /\ ~op[k].comp
      /\ op[k].kind = "buy" => moved[k] = 0 /\ ~op[k].internal
    BY <1>1, CarriedOperation
<1>3. /\ o \in Operation /\ o.state = "completed"
      /\ o.user = op[k].user /\ o.kind = op[k].kind
      /\ o.kind = "sell" => (o.comp <=> o.state = "compensated")
      /\ o.kind = "buy" => (o.internal <=> o.state = "completed")
      /\ e \in Event /\ e.state = "processed"
    BY <1>1, <1>2 DEF Operation, OpStates, ActiveStates, Event, EventStates
<1>4. op' = [op EXCEPT ![k] = o] /\ event' = [event EXCEPT ![k] = e]
    BY DEF CompleteSell
<1> HIDE DEF o, e
<1>5. op'[k].state = "completed"
    BY <1>2, <1>3, <1>4 DEF ProtocolInv, TypeOK
<1>6. Moves(k, 0)
    BY <1>1, <1>2, <1>5, NothingMoves DEF CompleteSell
<1>7. Finish(r) /\ UNCHANGED <<points, worker, paid, spent>>
    BY DEF CompleteSell
<1>8. LetsGo(k) /\ Elsewhere
    BY <1>1, <1>7, RequestLetsGo, RequestElsewhere
<1>9. Amends(k, "completed", "processed")
    BY <1>3, <1>4 DEF Amends
<1>10. QED
    BY <1>2, <1>6, <1>8, <1>9 DEF Settles, Agrees

\* A purchase is completed, and only then its mass arrives.
LEMMA CompleteBuySettles ==
    ASSUME ProtocolInv, NEW r \in Requests, CompleteBuy(r)
    PROVE  Settles(req[r].key, "completed", "processed", 1)
<1> DEFINE k == req[r].key
           o == [op[k] EXCEPT !.state = "completed", !.applied = TRUE, !.internal = TRUE, !.reply = TRUE]
           e == [event[k] EXCEPT !.state = "processed"]
<1>1. Carrying(r) /\ req[r].kind = "buy"
    BY DEF CompleteBuy, Learns, Carrying, RequestSteps
<1>2. /\ k \in Keys /\ op[k] \in Operation /\ event[k] \in Event
      /\ op[k].state \in ActiveStates
      /\ op[k].kind = req[r].kind /\ op[k].user = req[r].user /\ op[k].user \in Users
      /\ op[k].kind = "sell" => moved[k] = 1 /\ ~op[k].comp
      /\ op[k].kind = "buy" => moved[k] = 0 /\ ~op[k].internal
    BY <1>1, CarriedOperation
<1>3. /\ o \in Operation /\ o.state = "completed"
      /\ o.user = op[k].user /\ o.kind = op[k].kind
      /\ o.kind = "sell" => (o.comp <=> o.state = "compensated")
      /\ o.kind = "buy" => (o.internal <=> o.state = "completed")
      /\ e \in Event /\ e.state = "processed"
    BY <1>1, <1>2 DEF Operation, OpStates, ActiveStates, Event, EventStates
<1>4. op' = [op EXCEPT ![k] = o] /\ event' = [event EXCEPT ![k] = e]
    BY DEF CompleteBuy
<1> HIDE DEF o, e
<1>5. op'[k].state = "completed"
    BY <1>2, <1>3, <1>4 DEF ProtocolInv, TypeOK
<1>6. Moves(k, 1)
    BY <1>1, <1>2, <1>5, MassMoves DEF CompleteBuy
<1>7. Finish(r) /\ UNCHANGED <<points, worker, paid, spent>>
    BY DEF CompleteBuy
<1>8. LetsGo(k) /\ Elsewhere
    BY <1>1, <1>7, RequestLetsGo, RequestElsewhere
<1>9. Amends(k, "completed", "processed")
    BY <1>3, <1>4 DEF Amends
<1>10. QED
    BY <1>2, <1>6, <1>8, <1>9 DEF Settles, Agrees

\* An unknown outcome is left to a human, the mass where it is.
LEMMA DeclareAmbiguousSettles ==
    ASSUME ProtocolInv, NEW r \in Requests, DeclareAmbiguous(r)
    PROVE  Settles(req[r].key, "reconciliation_required", "reconciliation_required", 0)
<1> DEFINE k == req[r].key
           o == [op[k] EXCEPT !.state = "reconciliation_required", !.reply = TRUE]
           e == [event[k] EXCEPT !.state = "reconciliation_required"]
<1>1. Carrying(r) /\ TRUE
    BY DEF DeclareAmbiguous, Learns, Carrying, RequestSteps
<1>2. /\ k \in Keys /\ op[k] \in Operation /\ event[k] \in Event
      /\ op[k].state \in ActiveStates
      /\ op[k].kind = req[r].kind /\ op[k].user = req[r].user /\ op[k].user \in Users
      /\ op[k].kind = "sell" => moved[k] = 1 /\ ~op[k].comp
      /\ op[k].kind = "buy" => moved[k] = 0 /\ ~op[k].internal
    BY <1>1, CarriedOperation
<1>3. /\ o \in Operation /\ o.state = "reconciliation_required"
      /\ o.user = op[k].user /\ o.kind = op[k].kind
      /\ o.kind = "sell" => (o.comp <=> o.state = "compensated")
      /\ o.kind = "buy" => (o.internal <=> o.state = "completed")
      /\ e \in Event /\ e.state = "reconciliation_required"
    BY <1>1, <1>2 DEF Operation, OpStates, ActiveStates, Event, EventStates
<1>4. op' = [op EXCEPT ![k] = o] /\ event' = [event EXCEPT ![k] = e]
    BY DEF DeclareAmbiguous
<1> HIDE DEF o, e
<1>5. op'[k].state = "reconciliation_required"
    BY <1>2, <1>3, <1>4 DEF ProtocolInv, TypeOK
<1>6. Moves(k, 0)
    BY <1>1, <1>2, <1>5, NothingMoves DEF DeclareAmbiguous
<1>7. Finish(r) /\ UNCHANGED <<points, worker, paid, spent>>
    BY DEF DeclareAmbiguous
<1>8. LetsGo(k) /\ Elsewhere
    BY <1>1, <1>7, RequestLetsGo, RequestElsewhere
<1>9. Amends(k, "reconciliation_required", "reconciliation_required")
    BY <1>3, <1>4 DEF Amends
<1>10. QED
    BY <1>2, <1>6, <1>8, <1>9 DEF Settles, Agrees

\* A write that was not sent is queued for the worker.
LEMMA QueueRetrySettles ==
    ASSUME ProtocolInv, NEW r \in Requests, QueueRetry(r)
    PROVE  Settles(req[r].key, "queued", "pending", 0)
<1> DEFINE k == req[r].key
           o == [op[k] EXCEPT !.state = "queued", !.applied = (req[r].out = "bare")]
           e == [event[k] EXCEPT !.state = "pending"]
<1>1. Carrying(r) /\ TRUE
    BY DEF QueueRetry, Learns, Carrying, RequestSteps
<1>2. /\ k \in Keys /\ op[k] \in Operation /\ event[k] \in Event
      /\ op[k].state \in ActiveStates
      /\ op[k].kind = req[r].kind /\ op[k].user = req[r].user /\ op[k].user \in Users
      /\ op[k].kind = "sell" => moved[k] = 1 /\ ~op[k].comp
      /\ op[k].kind = "buy" => moved[k] = 0 /\ ~op[k].internal
    BY <1>1, CarriedOperation
<1>3. /\ o \in Operation /\ o.state = "queued"
      /\ o.user = op[k].user /\ o.kind = op[k].kind
      /\ o.kind = "sell" => (o.comp <=> o.state = "compensated")
      /\ o.kind = "buy" => (o.internal <=> o.state = "completed")
      /\ e \in Event /\ e.state = "pending"
    BY <1>1, <1>2 DEF Operation, OpStates, ActiveStates, Event, EventStates
<1>4. op' = [op EXCEPT ![k] = o] /\ event' = [event EXCEPT ![k] = e]
    BY DEF QueueRetry
<1> HIDE DEF o, e
<1>5. op'[k].state = "queued"
    BY <1>2, <1>3, <1>4 DEF ProtocolInv, TypeOK
<1>6. Moves(k, 0)
    BY <1>1, <1>2, <1>5, NothingMoves DEF QueueRetry
<1>7. Finish(r) /\ UNCHANGED <<points, worker, paid, spent>>
    BY DEF QueueRetry
<1>8. LetsGo(k) /\ Elsewhere
    BY <1>1, <1>7, RequestLetsGo, RequestElsewhere
<1>9. Amends(k, "queued", "pending")
    BY <1>3, <1>4 DEF Amends
<1>10. QED
    BY <1>2, <1>6, <1>8, <1>9 DEF Settles, Agrees

\* A refused sale gets its mass back.
LEMMA RestoreSellSettles ==
    ASSUME ProtocolInv, NEW r \in Requests, RestoreSell(r)
    PROVE  Settles(req[r].key, "compensated", "compensated", -1)
<1> DEFINE k == req[r].key
           o == [op[k] EXCEPT !.state = "compensated", !.comp = TRUE, !.applied = FALSE, !.reply = TRUE]
           e == [event[k] EXCEPT !.state = "compensated"]
<1>1. Carrying(r) /\ req[r].kind = "sell"
    BY DEF RestoreSell, Learns, Carrying, RequestSteps
<1>2. /\ k \in Keys /\ op[k] \in Operation /\ event[k] \in Event
      /\ op[k].state \in ActiveStates
      /\ op[k].kind = req[r].kind /\ op[k].user = req[r].user /\ op[k].user \in Users
      /\ op[k].kind = "sell" => moved[k] = 1 /\ ~op[k].comp
      /\ op[k].kind = "buy" => moved[k] = 0 /\ ~op[k].internal
    BY <1>1, CarriedOperation
<1>3. /\ o \in Operation /\ o.state = "compensated"
      /\ o.user = op[k].user /\ o.kind = op[k].kind
      /\ o.kind = "sell" => (o.comp <=> o.state = "compensated")
      /\ o.kind = "buy" => (o.internal <=> o.state = "completed")
      /\ e \in Event /\ e.state = "compensated"
    BY <1>1, <1>2 DEF Operation, OpStates, ActiveStates, Event, EventStates
<1>4. op' = [op EXCEPT ![k] = o] /\ event' = [event EXCEPT ![k] = e]
    BY DEF RestoreSell
<1> HIDE DEF o, e
<1>5. op'[k].state = "compensated"
    BY <1>2, <1>3, <1>4 DEF ProtocolInv, TypeOK
<1>6. Moves(k, -1)
    BY <1>1, <1>2, <1>5, MassMoves DEF RestoreSell
<1>7. Finish(r) /\ UNCHANGED <<points, worker, paid, spent>>
    BY DEF RestoreSell
<1>8. LetsGo(k) /\ Elsewhere
    BY <1>1, <1>7, RequestLetsGo, RequestElsewhere
<1>9. Amends(k, "compensated", "compensated")
    BY <1>3, <1>4 DEF Amends
<1>10. QED
    BY <1>2, <1>6, <1>8, <1>9 DEF Settles, Agrees

\* A refused purchase fails; no mass was given.
LEMMA FailBuySettles ==
    ASSUME ProtocolInv, NEW r \in Requests, FailBuy(r)
    PROVE  Settles(req[r].key, "failed", "dead_letter", 0)
<1> DEFINE k == req[r].key
           o == [op[k] EXCEPT !.state = "failed", !.reply = TRUE, !.applied = (req[r].out = "bare")]
           e == [event[k] EXCEPT !.state = "dead_letter"]
<1>1. Carrying(r) /\ req[r].kind = "buy"
    BY DEF FailBuy, Learns, Carrying, RequestSteps
<1>2. /\ k \in Keys /\ op[k] \in Operation /\ event[k] \in Event
      /\ op[k].state \in ActiveStates
      /\ op[k].kind = req[r].kind /\ op[k].user = req[r].user /\ op[k].user \in Users
      /\ op[k].kind = "sell" => moved[k] = 1 /\ ~op[k].comp
      /\ op[k].kind = "buy" => moved[k] = 0 /\ ~op[k].internal
    BY <1>1, CarriedOperation
<1>3. /\ o \in Operation /\ o.state = "failed"
      /\ o.user = op[k].user /\ o.kind = op[k].kind
      /\ o.kind = "sell" => (o.comp <=> o.state = "compensated")
      /\ o.kind = "buy" => (o.internal <=> o.state = "completed")
      /\ e \in Event /\ e.state = "dead_letter"
    BY <1>1, <1>2 DEF Operation, OpStates, ActiveStates, Event, EventStates
<1>4. op' = [op EXCEPT ![k] = o] /\ event' = [event EXCEPT ![k] = e]
    BY DEF FailBuy
<1> HIDE DEF o, e
<1>5. op'[k].state = "failed"
    BY <1>2, <1>3, <1>4 DEF ProtocolInv, TypeOK
<1>6. Moves(k, 0)
    BY <1>1, <1>2, <1>5, NothingMoves DEF FailBuy
<1>7. Finish(r) /\ UNCHANGED <<points, worker, paid, spent>>
    BY DEF FailBuy
<1>8. LetsGo(k) /\ Elsewhere
    BY <1>1, <1>7, RequestLetsGo, RequestElsewhere
<1>9. Amends(k, "failed", "dead_letter")
    BY <1>3, <1>4 DEF Amends
<1>10. QED
    BY <1>2, <1>6, <1>8, <1>9 DEF Settles, Agrees

\* A paid sale that could not be saved is left to a human.
LEMMA SaveOfSellFailsSettles ==
    ASSUME ProtocolInv, NEW r \in Requests, SaveOfSellFails(r)
    PROVE  Settles(req[r].key, "reconciliation_required", "reconciliation_required", 0)
<1> DEFINE k == req[r].key
           o == [op[k] EXCEPT !.state = "reconciliation_required", !.reply = TRUE]
           e == [event[k] EXCEPT !.state = "reconciliation_required"]
<1>1. Carrying(r) /\ req[r].kind = "sell"
    BY DEF SaveOfSellFails, Learns, Carrying, RequestSteps
<1>2. /\ k \in Keys /\ op[k] \in Operation /\ event[k] \in Event
      /\ op[k].state \in ActiveStates
      /\ op[k].kind = req[r].kind /\ op[k].user = req[r].user /\ op[k].user \in Users
      /\ op[k].kind = "sell" => moved[k] = 1 /\ ~op[k].comp
      /\ op[k].kind = "buy" => moved[k] = 0 /\ ~op[k].internal
    BY <1>1, CarriedOperation
<1>3. /\ o \in Operation /\ o.state = "reconciliation_required"
      /\ o.user = op[k].user /\ o.kind = op[k].kind
      /\ o.kind = "sell" => (o.comp <=> o.state = "compensated")
      /\ o.kind = "buy" => (o.internal <=> o.state = "completed")
      /\ e \in Event /\ e.state = "reconciliation_required"
    BY <1>1, <1>2 DEF Operation, OpStates, ActiveStates, Event, EventStates
<1>4. op' = [op EXCEPT ![k] = o] /\ event' = [event EXCEPT ![k] = e]
    BY DEF SaveOfSellFails
<1> HIDE DEF o, e
<1>5. op'[k].state = "reconciliation_required"
    BY <1>2, <1>3, <1>4 DEF ProtocolInv, TypeOK
<1>6. Moves(k, 0)
    BY <1>1, <1>2, <1>5, NothingMoves DEF SaveOfSellFails
<1>7. Finish(r) /\ UNCHANGED <<points, worker, paid, spent>>
    BY DEF SaveOfSellFails
<1>8. LetsGo(k) /\ Elsewhere
    BY <1>1, <1>7, RequestLetsGo, RequestElsewhere
<1>9. Amends(k, "reconciliation_required", "reconciliation_required")
    BY <1>3, <1>4 DEF Amends
<1>10. QED
    BY <1>2, <1>6, <1>8, <1>9 DEF Settles, Agrees

\* A refund that cannot be made is left to a human.
LEMMA RefundRefusedSettles ==
    ASSUME ProtocolInv, NEW r \in Requests, RefundRefused(r)
    PROVE  Settles(req[r].key, "reconciliation_required", "reconciliation_required", 0)
<1> DEFINE k == req[r].key
           o == [op[k] EXCEPT !.state = "reconciliation_required", !.reply = TRUE]
           e == [event[k] EXCEPT !.state = "reconciliation_required"]
<1>1. Carrying(r) /\ req[r].pc = "refundRead"
    BY DEF RefundRefused, Learns, Carrying, RequestSteps
<1>2. /\ k \in Keys /\ op[k] \in Operation /\ event[k] \in Event
      /\ op[k].state \in ActiveStates
      /\ op[k].kind = req[r].kind /\ op[k].user = req[r].user /\ op[k].user \in Users
      /\ op[k].kind = "sell" => moved[k] = 1 /\ ~op[k].comp
      /\ op[k].kind = "buy" => moved[k] = 0 /\ ~op[k].internal
    BY <1>1, CarriedOperation
<1>3. /\ o \in Operation /\ o.state = "reconciliation_required"
      /\ o.user = op[k].user /\ o.kind = op[k].kind
      /\ o.kind = "sell" => (o.comp <=> o.state = "compensated")
      /\ o.kind = "buy" => (o.internal <=> o.state = "completed")
      /\ e \in Event /\ e.state = "reconciliation_required"
    BY <1>1, <1>2 DEF Operation, OpStates, ActiveStates, Event, EventStates
<1>4. op' = [op EXCEPT ![k] = o] /\ event' = [event EXCEPT ![k] = e]
    BY DEF RefundRefused
<1> HIDE DEF o, e
<1>5. op'[k].state = "reconciliation_required"
    BY <1>2, <1>3, <1>4 DEF ProtocolInv, TypeOK
<1>6. Moves(k, 0)
    BY <1>1, <1>2, <1>5, NothingMoves DEF RefundRefused
<1>7. Finish(r) /\ UNCHANGED <<points, worker, paid, spent>>
    BY DEF RefundRefused
<1>8. LetsGo(k) /\ Elsewhere
    BY <1>1, <1>7, RequestLetsGo, RequestElsewhere
<1>9. Amends(k, "reconciliation_required", "reconciliation_required")
    BY <1>3, <1>4 DEF Amends
<1>10. QED
    BY <1>2, <1>6, <1>8, <1>9 DEF Settles, Agrees

\* A refund that was confirmed settles the purchase, any other outcome does not.
LEMMA RefundSettlesSettles ==
    ASSUME ProtocolInv, NEW r \in Requests, RefundSettles(r)
    PROVE  Settles(req[r].key, RefundVerdict(r), RefundVerdict(r), 0)
<1> DEFINE k == req[r].key
           o == [op[k] EXCEPT !.state = RefundVerdict(r), !.reply = TRUE]
           e == [event[k] EXCEPT !.state = RefundVerdict(r)]
<1>1. /\ Carrying(r) /\ req[r].kind = "buy"
      /\ RefundVerdict(r) \in {"compensated", "reconciliation_required"}
    BY DEF RefundSettles, Carrying, RequestSteps, ProtocolInv, RequestCarries, RefundVerdict
<1>2. /\ k \in Keys /\ op[k] \in Operation /\ event[k] \in Event
      /\ op[k].state \in ActiveStates
      /\ op[k].kind = req[r].kind /\ op[k].user = req[r].user /\ op[k].user \in Users
      /\ op[k].kind = "sell" => moved[k] = 1 /\ ~op[k].comp
      /\ op[k].kind = "buy" => moved[k] = 0 /\ ~op[k].internal
    BY <1>1, CarriedOperation
<1>3. /\ o \in Operation /\ o.state = RefundVerdict(r)
      /\ o.user = op[k].user /\ o.kind = op[k].kind
      /\ o.kind = "sell" => (o.comp <=> o.state = "compensated")
      /\ o.kind = "buy" => (o.internal <=> o.state = "completed")
      /\ e \in Event /\ e.state = RefundVerdict(r)
    BY <1>1, <1>2 DEF Operation, OpStates, ActiveStates, Event, EventStates
<1>4. op' = [op EXCEPT ![k] = o] /\ event' = [event EXCEPT ![k] = e]
    BY DEF RefundSettles
<1> HIDE DEF o, e
<1>5. op'[k].state = RefundVerdict(r)
    BY <1>2, <1>3, <1>4 DEF ProtocolInv, TypeOK
<1>6. Moves(k, 0)
    BY <1>1, <1>2, <1>5, NothingMoves DEF RefundSettles
<1>7. Finish(r) /\ UNCHANGED <<points, worker, paid, spent>>
    BY DEF RefundSettles
<1>8. LetsGo(k) /\ Elsewhere
    BY <1>1, <1>7, RequestLetsGo, RequestElsewhere
<1>9. Amends(k, RefundVerdict(r), RefundVerdict(r))
    BY <1>3, <1>4 DEF Amends
<1>10. QED
    BY <1>1, <1>2, <1>6, <1>8, <1>9 DEF Settles, Agrees

\* A runner that goes back to polling disturbs nothing else.
LEMMA RunnerElsewhere ==
    ASSUME ProtocolInv, NEW w \in Workers, Rest(w),
           UNCHANGED <<points, lock, req, paid, spent>>
    PROVE  Elsewhere
  BY DEF ProtocolInv, TypeOK, Elsewhere, Rest, IdleRunner, Runner

\* What becomes of an operation that failed for good.
FailedState(k) == IF op[k].kind = "sell" THEN "compensated" ELSE "failed"
FailedMove(k) == IF op[k].kind = "sell" THEN -1 ELSE 0

\* A failure for good gives the mass of a sale back, exactly once.
LEMMA FinalFailure ==
    ASSUME ProtocolInv, NEW k \in Keys, event[k].state \in {"pending", "processing"},
           NEW n \in Nat, FinalizeFailure(k, n)
    PROVE  /\ Amends(k, FailedState(k), "dead_letter") /\ Moves(k, FailedMove(k))
           /\ op[k].state \in ActiveStates /\ FailedState(k) \in {"compensated", "failed"}
           /\ FailedMove(k) \in Int
<1> DEFINE e == [state |-> "dead_letter", attempts |-> n]
<1>1. /\ op[k] \in Operation /\ op[k].state \in ActiveStates /\ op[k].user \in Users
      /\ op[k].kind \in {"sell", "buy"}
      /\ op[k].kind = "sell" => moved[k] = 1 /\ ~op[k].comp
      /\ op[k].kind = "buy" => moved[k] = 0 /\ ~op[k].internal
    BY ClaimedOperation
<1>2. e \in Event /\ e.state = "dead_letter" /\ event' = [event EXCEPT ![k] = e]
    BY DEF Event, EventStates, FinalizeFailure
<1> HIDE DEF e
<1>3. CASE op[k].kind = "sell"
    <2> DEFINE o == [op[k] EXCEPT !.state = "compensated", !.comp = TRUE,
                                  !.applied = FALSE, !.reply = TRUE]
    <2>1. /\ o \in Operation /\ o.state = "compensated" /\ o.comp
          /\ o.user = op[k].user /\ o.kind = op[k].kind
        BY <1>1 DEF Operation, OpStates, ActiveStates
    <2>2. op' = [op EXCEPT ![k] = o] /\ MoveMass(k, op[k].user, op[k].amt, -1)
        BY <1>1, <1>3 DEF FinalizeFailure
    <2> HIDE DEF o
    <2>3. op'[k].state = "compensated"
        BY <2>1, <2>2 DEF ProtocolInv, TypeOK
    <2>4. Moves(k, -1)
        BY <1>1, <1>3, <2>2, <2>3, MassMoves
    <2>5. Amends(k, "compensated", "dead_letter")
        BY <1>2, <1>3, <2>1, <2>2 DEF Amends
    <2>6. QED
        BY <1>1, <1>3, <2>4, <2>5 DEF FailedState, FailedMove
<1>4. CASE op[k].kind = "buy"
    <2> DEFINE o == [op[k] EXCEPT !.state = "failed"]
    <2>1. /\ o \in Operation /\ o.state = "failed" /\ ~o.internal
          /\ o.user = op[k].user /\ o.kind = op[k].kind
        BY <1>1, <1>4 DEF Operation, OpStates, ActiveStates
    <2>2. op' = [op EXCEPT ![k] = o] /\ UNCHANGED <<mass, owed, moved>>
        BY <1>4 DEF FinalizeFailure
    <2> HIDE DEF o
    <2>3. op'[k].state = "failed"
        BY <2>1, <2>2 DEF ProtocolInv, TypeOK
    <2>4. Moves(k, 0)
        BY <1>1, <1>4, <2>2, <2>3, NothingMoves
    <2>5. Amends(k, "failed", "dead_letter")
        BY <1>2, <1>4, <2>1, <2>2 DEF Amends
    <2>6. QED
        BY <1>1, <1>4, <2>4, <2>5 DEF FailedState, FailedMove
<1>5. QED
    BY <1>1, <1>3, <1>4

\* A confirmed write completes the operation and gives a purchase its mass.
ConfirmedMove(k) == IF op[k].kind = "buy" THEN 1 ELSE 0

\* ConfirmOperation amends the operation as a settling step does.
LEMMA Confirmation ==
    ASSUME ProtocolInv, NEW k \in Keys, ConfirmOperation(k),
           event[k].state \in {"processing", "reconciliation_required"}
    PROVE  /\ Amends(k, "completed", "processed") /\ Moves(k, ConfirmedMove(k))
           /\ op[k].state \in ActiveStates /\ ConfirmedMove(k) \in Int
<1> DEFINE buys == op[k].kind = "buy" /\ ~op[k].internal
           o == [op[k] EXCEPT !.state = "completed", !.applied = TRUE,
                              !.internal = @ \/ buys]
           e == [event[k] EXCEPT !.state = "processed"]
<1>1. /\ op[k] \in Operation /\ event[k] \in Event
      /\ op[k].state \in ActiveStates /\ op[k].user \in Users
      /\ op[k].kind \in {"sell", "buy"}
      /\ op[k].kind = "sell" => moved[k] = 1 /\ ~op[k].comp
      /\ op[k].kind = "buy" => moved[k] = 0 /\ ~op[k].internal
    BY ClaimedOperation
<1>2. /\ o \in Operation /\ o.state = "completed"
      /\ o.user = op[k].user /\ o.kind = op[k].kind
      /\ o.kind = "sell" => ~o.comp
      /\ o.kind = "buy" => o.internal
    BY <1>1 DEF Operation, OpStates, ActiveStates
<1>3. e \in Event /\ e.state = "processed"
    BY <1>1 DEF Event, EventStates
<1>4. op' = [op EXCEPT ![k] = o] /\ event' = [event EXCEPT ![k] = e]
    BY DEF ConfirmOperation
<1>5. IF buys THEN MoveMass(k, op[k].user, op[k].amt, 1)
      ELSE UNCHANGED <<mass, owed, moved>>
    BY DEF ConfirmOperation
<1> HIDE DEF o, e
<1>6. op'[k].state = "completed"
    BY <1>2, <1>4 DEF ProtocolInv, TypeOK
<1>7. Moves(k, ConfirmedMove(k))
    <2>1. CASE op[k].kind = "buy"
        BY <1>1, <1>5, <1>6, <2>1, MassMoves DEF ConfirmedMove
    <2>2. CASE op[k].kind = "sell"
        BY <1>1, <1>5, <1>6, <2>2, NothingMoves DEF ConfirmedMove
    <2>3. QED
        BY <1>1, <2>1, <2>2
<1>8. Amends(k, "completed", "processed")
    BY <1>2, <1>3, <1>4 DEF Amends
<1>9. QED
    BY <1>1, <1>7, <1>8 DEF ConfirmedMove

\* An operation left to a human keeps its mass where it is.
LEMMA Reconciliation ==
    ASSUME ProtocolInv, NEW k \in Keys, SetReconciliation(k),
           event[k].state \in {"pending", "processing"}, UNCHANGED <<mass, owed, moved>>
    PROVE  /\ Amends(k, "reconciliation_required", "reconciliation_required")
           /\ Moves(k, 0) /\ op[k].state \in ActiveStates
<1> DEFINE s == "reconciliation_required"
           o == [op[k] EXCEPT !.state = s]
           e == [event[k] EXCEPT !.state = s]
<1>1. /\ op[k] \in Operation /\ event[k] \in Event
      /\ op[k].state \in ActiveStates
      /\ op[k].kind = "sell" => moved[k] = 1 /\ ~op[k].comp
      /\ op[k].kind = "buy" => moved[k] = 0 /\ ~op[k].internal
    BY ClaimedOperation
<1>2. /\ o \in Operation /\ o.state = s /\ o.user = op[k].user /\ o.kind = op[k].kind
      /\ o.comp = op[k].comp /\ o.internal = op[k].internal
      /\ e \in Event /\ e.state = s
    BY <1>1 DEF Operation, OpStates, ActiveStates, Event, EventStates
<1>3. op' = [op EXCEPT ![k] = o] /\ event' = [event EXCEPT ![k] = e]
    BY DEF SetReconciliation
<1> HIDE DEF o, e
<1>4. op'[k].state = s
    BY <1>2, <1>3 DEF ProtocolInv, TypeOK
<1>5. Moves(k, 0)
    BY <1>1, <1>4, NothingMoves
<1>6. Amends(k, s, s)
    BY <1>1, <1>2, <1>3 DEF Amends
<1>7. QED
    BY <1>1, <1>5, <1>6

\* The worker completes what the provider confirmed.
LEMMA WorkerCompletesSettles ==
    ASSUME ProtocolInv, NEW w \in Workers, WorkerCompletes(w)
    PROVE  Settles(worker[w].key, "completed", "processed", ConfirmedMove(worker[w].key))
<1> DEFINE k == worker[w].key
<1>1. Working(w) /\ k \in Keys /\ event[k].state = "processing" /\ event[k] \in Event
    BY DEF WorkerCompletes, Working, ProtocolInv, RunnerCarries, TypeOK
<1>2. Amends(k, "completed", "processed") /\ Moves(k, ConfirmedMove(k))
      /\ op[k].state \in ActiveStates
    BY <1>1, Confirmation DEF WorkerCompletes
<1>3. Rest(w) /\ UNCHANGED <<points, lock, req, paid, spent>>
    BY DEF WorkerCompletes
<1>4. LetsGo(k) /\ Elsewhere
    BY <1>1, <1>3, RunnerLetsGo, RunnerElsewhere
<1>5. QED
    BY <1>1, <1>2, <1>4 DEF Settles, Agrees

\* The worker leaves what it cannot know to a human.
LEMMA WorkerAmbiguousSettles ==
    ASSUME ProtocolInv, NEW w \in Workers, WorkerAmbiguous(w)
    PROVE  Settles(worker[w].key, "reconciliation_required", "reconciliation_required", 0)
<1> DEFINE k == worker[w].key
<1>1. Working(w) /\ k \in Keys /\ event[k].state = "processing" /\ event[k] \in Event
    BY DEF WorkerAmbiguous, Working, ProtocolInv, RunnerCarries, TypeOK
<1>2. Amends(k, "reconciliation_required", "reconciliation_required")
      /\ Moves(k, 0) /\ op[k].state \in ActiveStates
    BY <1>1, Reconciliation DEF WorkerAmbiguous
<1>3. Rest(w) /\ UNCHANGED <<points, lock, req, paid, spent>>
    BY DEF WorkerAmbiguous
<1>4. LetsGo(k) /\ Elsewhere
    BY <1>1, <1>3, RunnerLetsGo, RunnerElsewhere
<1>5. QED
    BY <1>1, <1>2, <1>4 DEF Settles, Agrees

\* The worker gives up on what the provider refused.
LEMMA DeadLetterSettles ==
    ASSUME ProtocolInv, NEW w \in Workers, DeadLetter(w)
    PROVE  Settles(worker[w].key, FailedState(worker[w].key), "dead_letter", FailedMove(worker[w].key))
<1> DEFINE k == worker[w].key
<1>1. Working(w) /\ k \in Keys /\ event[k].state = "processing" /\ event[k] \in Event
    BY DEF DeadLetter, Working, ProtocolInv, RunnerCarries, TypeOK
<1>2. Amends(k, FailedState(k), "dead_letter") /\ Moves(k, FailedMove(k))
      /\ op[k].state \in ActiveStates /\ FailedState(k) \in {"compensated", "failed"}
    BY <1>1, FinalFailure DEF DeadLetter, Event
<1>3. Rest(w) /\ UNCHANGED <<points, lock, req, paid, spent>>
    BY DEF DeadLetter
<1>4. LetsGo(k) /\ Elsewhere
    BY <1>1, <1>3, RunnerLetsGo, RunnerElsewhere
<1>5. QED
    BY <1>1, <1>2, <1>4 DEF Settles, Agrees

\* Without an integration a queued operation fails for good.
LEMMA ClaimUnconfiguredSettles ==
    ASSUME ProtocolInv, NEW w, NEW k \in Keys, ClaimUnconfigured(w, k)
    PROVE  Settles(k, FailedState(k), "dead_letter", FailedMove(k))
<1>1. event[k].state = "pending" /\ event[k] \in Event
    BY DEF ClaimUnconfigured, Claimable, ProtocolInv, TypeOK
<1>2. Amends(k, FailedState(k), "dead_letter") /\ Moves(k, FailedMove(k))
      /\ op[k].state \in ActiveStates /\ FailedState(k) \in {"compensated", "failed"}
    BY <1>1, FinalFailure DEF ClaimUnconfigured, Event
<1>3. UNCHANGED <<points, lock, req, worker, paid>>
      /\ spent' \in [catches : Nat, earnings : Nat, interventions : Nat]
    BY DEF ClaimUnconfigured, ProtocolInv, TypeOK
<1>4. LetsGo(k) /\ Elsewhere
    BY <1>1, <1>3, UnleasedLetsGo DEF Elsewhere, ProtocolInv, TypeOK
<1>5. QED
    BY <1>1, <1>2, <1>4 DEF Settles, Agrees

\* A queued operation of another provider account is left to a human.
LEMMA ClaimReboundSettles ==
    ASSUME ProtocolInv, NEW w, NEW k \in Keys, ClaimRebound(w, k)
    PROVE  Settles(k, "reconciliation_required", "reconciliation_required", 0)
<1>1. event[k].state = "pending" /\ event[k] \in Event
    BY DEF ClaimRebound, Claimable, ProtocolInv, TypeOK
<1>2. Amends(k, "reconciliation_required", "reconciliation_required")
      /\ Moves(k, 0) /\ op[k].state \in ActiveStates
    BY <1>1, Reconciliation DEF ClaimRebound
<1>3. UNCHANGED <<points, lock, req, worker, paid>>
      /\ spent' \in [catches : Nat, earnings : Nat, interventions : Nat]
    BY DEF ClaimRebound, ProtocolInv, TypeOK
<1>4. LetsGo(k) /\ Elsewhere
    BY <1>1, <1>3, UnleasedLetsGo DEF Elsewhere, ProtocolInv, TypeOK
<1>5. QED
    BY <1>1, <1>2, <1>4 DEF Settles, Agrees

\* The administrator confirms a write.
LEMMA AdminCompleteSettles ==
    ASSUME ProtocolInv, NEW k \in Keys, AdminComplete(k)
    PROVE  Settles(k, "completed", "processed", ConfirmedMove(k))
<1>1. event[k].state = "reconciliation_required" /\ event[k] \in Event
    BY DEF AdminComplete, Unsettled, ProtocolInv, TypeOK
<1>2. Amends(k, "completed", "processed") /\ Moves(k, ConfirmedMove(k))
      /\ op[k].state \in ActiveStates
    BY <1>1, Confirmation DEF AdminComplete
<1>3. UNCHANGED <<points, lock, req, worker, paid>>
      /\ spent' \in [catches : Nat, earnings : Nat, interventions : Nat]
    BY DEF AdminComplete, ProtocolInv, TypeOK
<1>4. LetsGo(k) /\ Elsewhere
    BY <1>1, <1>3, UnleasedLetsGo DEF Elsewhere, ProtocolInv, TypeOK
<1>5. QED
    BY <1>1, <1>2, <1>4 DEF Settles, Agrees

\* A lease nobody holds any more is left to a human.
LEMMA RecoverExpiredLeaseSettles ==
    ASSUME ProtocolInv, NEW w, NEW k \in Keys, RecoverExpiredLease(w, k)
    PROVE  Settles(k, "reconciliation_required", "reconciliation_required", 0)
<1>1. event[k].state = "processing" /\ event[k] \in Event
    BY DEF RecoverExpiredLease, ProtocolInv, TypeOK
<1>2. Amends(k, "reconciliation_required", "reconciliation_required")
      /\ Moves(k, 0) /\ op[k].state \in ActiveStates
    BY <1>1, Reconciliation DEF RecoverExpiredLease
<1>3. UNCHANGED <<points, lock, req, worker, paid>>
      /\ spent' \in [catches : Nat, earnings : Nat, interventions : Nat]
    BY DEF RecoverExpiredLease, ProtocolInv, TypeOK
<1>4. LetsGo(k) /\ Elsewhere
    BY <1>3 DEF RecoverExpiredLease, InFlight, LetsGo, Carrying, Working, Elsewhere,
               ProtocolInv, TypeOK, RequestSteps
<1>5. QED
    BY <1>1, <1>2, <1>4 DEF Settles, Agrees

\* The administrator sends an operation back to the worker.
LEMMA AdminRetrySettles ==
    ASSUME ProtocolInv, NEW k \in Keys, AdminRetry(k)
    PROVE  Settles(k, "pending", "pending", 0)
<1> DEFINE o == [op[k] EXCEPT !.state = "pending"]
           e == [event[k] EXCEPT !.state = "pending"]
<1>1. event[k].state = "reconciliation_required"
    BY DEF AdminRetry, Unsettled
<1>2. /\ op[k] \in Operation /\ event[k] \in Event
      /\ op[k].state \in ActiveStates /\ op[k].user \in Users
      /\ op[k].kind = "sell" => moved[k] = 1 /\ ~op[k].comp
      /\ op[k].kind = "buy" => moved[k] = 0 /\ ~op[k].internal
    BY <1>1, ClaimedOperation
<1>3. /\ o \in Operation /\ o.state = "pending" /\ o.user = op[k].user /\ o.kind = op[k].kind
      /\ o.internal = op[k].internal /\ o.comp = op[k].comp
      /\ e \in Event /\ e.state = "pending"
    BY <1>2 DEF Operation, OpStates, ActiveStates, Event, EventStates
<1>4. op' = [op EXCEPT ![k] = o] /\ event' = [event EXCEPT ![k] = e]
    BY DEF AdminRetry
<1> HIDE DEF o, e
<1>5. op'[k].state = "pending"
    BY <1>3, <1>4 DEF ProtocolInv, TypeOK
<1>6. Moves(k, 0)
    BY <1>1, <1>2, <1>5, NothingMoves DEF AdminRetry
<1>7. Amends(k, "pending", "pending")
    BY <1>1, <1>2, <1>3, <1>4 DEF Amends
<1>8. UNCHANGED <<points, lock, req, worker, paid>>
      /\ spent' \in [catches : Nat, earnings : Nat, interventions : Nat]
    BY DEF AdminRetry, ProtocolInv, TypeOK
<1>9. LetsGo(k) /\ Elsewhere
    BY <1>1, <1>8, UnleasedLetsGo DEF Elsewhere, ProtocolInv, TypeOK
<1>10. QED
    BY <1>2, <1>6, <1>7, <1>9 DEF Settles, Agrees

\* The administrator abandons an operation; its mass stays where it is.
LEMMA AdminDeadLetterSettles ==
    ASSUME ProtocolInv, NEW k \in Keys, AdminDeadLetter(k)
    PROVE  Settles(k, "dead_letter", "dead_letter", 0)
<1> DEFINE o == [op[k] EXCEPT !.state = "dead_letter"]
           e == [event[k] EXCEPT !.state = "dead_letter"]
<1>1. event[k].state = "reconciliation_required"
    BY DEF AdminDeadLetter, Unsettled
<1>2. /\ op[k] \in Operation /\ event[k] \in Event
      /\ op[k].state \in ActiveStates /\ op[k].user \in Users
      /\ op[k].kind = "sell" => moved[k] = 1 /\ ~op[k].comp
      /\ op[k].kind = "buy" => moved[k] = 0 /\ ~op[k].internal
    BY <1>1, ClaimedOperation
<1>3. /\ o \in Operation /\ o.state = "dead_letter" /\ o.user = op[k].user /\ o.kind = op[k].kind
      /\ o.internal = op[k].internal /\ o.comp = op[k].comp
      /\ e \in Event /\ e.state = "dead_letter"
    BY <1>2 DEF Operation, OpStates, ActiveStates, Event, EventStates
<1>4. op' = [op EXCEPT ![k] = o] /\ event' = [event EXCEPT ![k] = e]
    BY DEF AdminDeadLetter
<1> HIDE DEF o, e
<1>5. op'[k].state = "dead_letter"
    BY <1>3, <1>4 DEF ProtocolInv, TypeOK
<1>6. Moves(k, 0)
    BY <1>1, <1>2, <1>5, NothingMoves DEF AdminDeadLetter
<1>7. Amends(k, "dead_letter", "dead_letter")
    BY <1>1, <1>2, <1>3, <1>4 DEF Amends
<1>8. UNCHANGED <<points, lock, req, worker, paid>>
      /\ spent' \in [catches : Nat, earnings : Nat, interventions : Nat]
    BY DEF AdminDeadLetter, ProtocolInv, TypeOK
<1>9. LetsGo(k) /\ Elsewhere
    BY <1>1, <1>8, UnleasedLetsGo DEF Elsewhere, ProtocolInv, TypeOK
<1>10. QED
    BY <1>2, <1>6, <1>7, <1>9 DEF Settles, Agrees

\* The administrator gives the mass of a sale back.
LEMMA AdminCompensateSettles ==
    ASSUME ProtocolInv, NEW k \in Keys, AdminCompensate(k)
    PROVE  Settles(k, "compensated", "compensated", -1)
<1> DEFINE o == [op[k] EXCEPT !.state = "compensated", !.comp = TRUE, !.applied = FALSE]
           e == [event[k] EXCEPT !.state = "compensated"]
<1>1. event[k].state = "reconciliation_required" /\ op[k].kind = "sell"
    BY DEF AdminCompensate, Unsettled
<1>2. /\ op[k] \in Operation /\ event[k] \in Event
      /\ op[k].state \in ActiveStates /\ op[k].user \in Users
      /\ op[k].kind = "sell" => moved[k] = 1 /\ ~op[k].comp
      /\ op[k].kind = "buy" => moved[k] = 0 /\ ~op[k].internal
    BY <1>1, ClaimedOperation
<1>3. /\ o \in Operation /\ o.state = "compensated" /\ o.user = op[k].user /\ o.kind = op[k].kind
      /\ o.internal = op[k].internal /\ o.comp
      /\ e \in Event /\ e.state = "compensated"
    BY <1>2 DEF Operation, OpStates, ActiveStates, Event, EventStates
<1>4. op' = [op EXCEPT ![k] = o] /\ event' = [event EXCEPT ![k] = e]
    BY DEF AdminCompensate
<1> HIDE DEF o, e
<1>5. op'[k].state = "compensated"
    BY <1>3, <1>4 DEF ProtocolInv, TypeOK
<1>6. Moves(k, -1)
    BY <1>1, <1>2, <1>5, MassMoves DEF AdminCompensate
<1>7. Amends(k, "compensated", "compensated")
    BY <1>1, <1>2, <1>3, <1>4 DEF Amends
<1>8. UNCHANGED <<points, lock, req, worker, paid>>
      /\ spent' \in [catches : Nat, earnings : Nat, interventions : Nat]
    BY DEF AdminCompensate, ProtocolInv, TypeOK
<1>9. LetsGo(k) /\ Elsewhere
    BY <1>1, <1>8, UnleasedLetsGo DEF Elsewhere, ProtocolInv, TypeOK
<1>10. QED
    BY <1>2, <1>6, <1>7, <1>9 DEF Settles, Agrees

\* A retry goes back to the queue until the attempts are used up.
LEMMA ScheduleRetrySettles ==
    ASSUME ProtocolInv, NEW w \in Workers, ScheduleRetry(w)
    PROVE  LET k == worker[w].key
           IN  \/ Settles(k, "pending", "pending", 0)
               \/ Settles(k, FailedState(k), "dead_letter", FailedMove(k))
<1> DEFINE k == worker[w].key
           n == NextAttempt(k)
           o == [op[k] EXCEPT !.state = "pending"]
           e == [state |-> "pending", attempts |-> n]
<1>1. Working(w) /\ k \in Keys /\ event[k].state = "processing" /\ event[k] \in Event
    BY DEF ScheduleRetry, Working, ProtocolInv, RunnerCarries, TypeOK
<1>2. Rest(w) /\ UNCHANGED <<points, lock, req, paid, spent>>
    BY DEF ScheduleRetry
<1>3. LetsGo(k) /\ Elsewhere
    BY <1>1, <1>2, RunnerLetsGo, RunnerElsewhere
<1>4. n \in Nat
    BY <1>1 DEF NextAttempt, Event
<1>5. CASE n >= MaxAttempts
    <2>1. FinalizeFailure(k, n)
        BY <1>5 DEF ScheduleRetry
    <2>2. /\ Amends(k, FailedState(k), "dead_letter") /\ Moves(k, FailedMove(k))
          /\ op[k].state \in ActiveStates /\ FailedState(k) \in {"compensated", "failed"}
        BY <1>1, <1>4, <2>1, FinalFailure
    <2>3. QED
        BY <1>1, <1>3, <2>2 DEF Settles, Agrees
<1>6. CASE ~(n >= MaxAttempts)
    <2>1. op' = [op EXCEPT ![k] = o] /\ event' = [event EXCEPT ![k] = e]
          /\ UNCHANGED <<mass, owed, moved>>
        BY <1>6 DEF ScheduleRetry
    <2>2. /\ op[k] \in Operation /\ op[k].state \in ActiveStates
          /\ op[k].kind = "sell" => moved[k] = 1 /\ ~op[k].comp
          /\ op[k].kind = "buy" => moved[k] = 0 /\ ~op[k].internal
        BY <1>1, ClaimedOperation
    <2>3. /\ o \in Operation /\ o.state = "pending" /\ o.user = op[k].user
          /\ o.kind = op[k].kind /\ o.comp = op[k].comp /\ o.internal = op[k].internal
          /\ e \in Event /\ e.state = "pending"
        BY <1>4, <2>2 DEF Operation, OpStates, ActiveStates, Event, EventStates
    <2> HIDE DEF o, e
    <2>4. op'[k].state = "pending"
        BY <1>1, <2>1, <2>3 DEF ProtocolInv, TypeOK
    <2>5. Moves(k, 0)
        BY <1>1, <2>1, <2>2, <2>4, NothingMoves
    <2>6. Amends(k, "pending", "pending")
        BY <2>1, <2>2, <2>3 DEF Amends
    <2>7. QED
        BY <1>1, <1>3, <2>2, <2>5, <2>6 DEF Settles, Agrees
<1>7. QED
    BY <1>5, <1>6

-----------------------------------------------------------------------------
(* The actions that create an operation *)

\* The largest of some numbers up to a bound is a number up to it: counted down
\* from the bound, some of them is the least.
LEMMA LargestIsWithin ==
    ASSUME NEW n \in Nat, NEW S \in SUBSET (0 .. n), S # {}
    PROVE  Max(S) \in 0 .. n
<1> DEFINE R == OpToRel(<, Nat)
           T == {t \in Nat : n - t \in S}
<1>1. T # {}
    <2>1. PICK s \in S : TRUE
        OBVIOUS
    <2>2. n - s \in Nat /\ n - (n - s) = s
        OBVIOUS
    <2>3. n - s \in T
        BY <2>2
    <2>4. QED
        BY <2>3
<1>2. PICK t \in T : \A y \in T : ~(<<y, t>> \in R)
    <2>1. IsWellFoundedOn(R, Nat) /\ T \subseteq Nat
        BY NatLessThanWellFounded
    <2> HIDE DEF T, R
    <2>2. QED
        BY <1>1, <2>1, WFMin
<1>3. ASSUME NEW s \in S PROVE n - t >= s
    <2>1. s \in 0 .. n /\ t \in Nat /\ n - s \in Nat /\ n - (n - s) = s
        OBVIOUS
    <2>2. n - s \in T
        BY <2>1
    <2>3. ~(n - s < t)
        BY <1>2, <2>1, <2>2 DEF OpToRel
    <2>4. QED
        BY <2>1, <2>3
<1>4. \E m \in S : \A s \in S : m >= s
    BY <1>3
<1>5. Max(S) \in S
    BY <1>4 DEF Max
<1>6. QED
    BY <1>5

\* The loops of max_sell_mass and max_buy_mass end at a mass.
LEMMA LoopsEndAtAMass ==
    ASSUME NEW balance \in 0 .. PointsMax, NEW rate \in Nat \ {0}, NEW limit \in Nat
    PROVE  MaxSellMass(balance, rate, limit) \in Nat /\ MaxBuyMass(balance, rate, limit) \in Nat
<1>1. ASSUME NEW room \in Nat
      PROVE  Least(MassFor(room, rate), limit) \in Nat
    <2>1. room * RateScale \in Nat
        BY PricingAssumption
    <2>2. MassFor(room, rate) \in Nat
        BY <2>1 DEF MassFor
    <2>3. QED
        BY <2>2 DEF Least
<1>2. Headroom(balance) \in Nat /\ balance \in Nat
    BY PricingAssumption DEF Headroom
<1> DEFINE start == Least(MassFor(Headroom(balance), rate), limit)
           S == {m \in 0 .. start : m = 0 \/ SellPoints(m, rate) <= Headroom(balance)}
           first == Least(MassFor(balance, rate), limit)
           B == {m \in 0 .. first : m = 0 \/ BuyPoints(m, rate) <= balance}
<1>3. start \in Nat /\ first \in Nat
    BY <1>1, <1>2
<1>4. Max(S) \in 0 .. start /\ Max(B) \in 0 .. first
    <2>1. S \subseteq 0 .. start /\ 0 \in S /\ B \subseteq 0 .. first /\ 0 \in B
        BY <1>3
    <2> HIDE DEF S, B, start, first
    <2>2. QED
        BY <1>3, <2>1, LargestIsWithin
<1>5. MaxSellMass(balance, rate, limit) = Max(S) /\ MaxBuyMass(balance, rate, limit) = Max(B)
    BY DEF MaxSellMass, MaxBuyMass, LargestFitting
<1>6. QED
    BY <1>3, <1>4, <1>5

\* The resolved amounts of a waiting request are natural numbers.
LEMMA AmountsAreNatural ==
    ASSUME ProtocolInv, NEW r \in Requests, req[r].pc = "balance"
    PROVE  /\ SellMass(r) \in Nat /\ SellPoints(SellMass(r), SellRate) \in Nat
           /\ BuyMass(r) \in Nat /\ BuyPoints(BuyMass(r), BuyRate) \in Nat
<1>1. /\ req[r].key \in Keys /\ req[r].user \in Users /\ req[r].arg \in Args
      /\ req[r].snap \in Nat
      /\ points[req[r].user] \in 0 .. PointsMax
    BY DEF ProtocolInv, TypeOK, RequestWaits, Request
<1>2. /\ SellRate \in Nat \ {0} /\ BuyRate \in Nat \ {0} /\ MaxMass \in Nat
      /\ Amounts \subseteq Nat /\ RateScale \in Nat \ {0}
    BY SagaAssumption, PricingAssumption
<1>3. /\ MaxSellMass(points[req[r].user], SellRate, req[r].snap) \in Nat
      /\ MaxBuyMass(points[req[r].user], BuyRate, MaxMass) \in Nat
    BY <1>1, <1>2, LoopsEndAtAMass
<1>4. SellMass(r) \in Nat /\ BuyMass(r) \in Nat
    BY <1>1, <1>2, <1>3 DEF SellMass, BuyMass, Least, Args
<1>5. ASSUME NEW m \in Nat, NEW rate \in Nat
      PROVE  SellPoints(m, rate) \in Nat /\ BuyPoints(m, rate) \in Nat
    <2>1. m * rate \in Nat
        OBVIOUS
    <2>2. m * rate + RateScale - 1 \in Nat
        BY <1>2, <2>1
    <2>3. QED
        BY <1>2, <2>1, <2>2 DEF SellPoints, BuyPoints
<1>6. QED
    BY <1>2, <1>4, <1>5

\* Request r creates operation o and event e, and keeps it or is over.
Creates(r, o, e, d) ==
    /\ op' = [op EXCEPT ![req[r].key] = o] /\ event' = [event EXCEPT ![req[r].key] = e]
    /\ o.user = req[r].user /\ o.kind = req[r].kind /\ ~o.comp /\ ~o.internal
    /\ moved' = [moved EXCEPT ![req[r].key] = @ + d]
    /\ mass' \in [Users -> Nat] /\ owed' \in [Users -> Nat]
    /\ Elsewhere /\ UNCHANGED worker
    /\ \A q \in Requests \ {r} : req'[q] = req[q]
    /\ \/ o.state = "failed" /\ e.state = "dead_letter" /\ req'[r] = IdleRequest /\ d = 0
       \/ /\ e.state = "processing" /\ req'[r].pc = "write" /\ req'[r].key = req[r].key
          /\ req'[r].user = req[r].user /\ req'[r].kind = req[r].kind
          /\ \/ req[r].kind = "sell" /\ o.state = "processing" /\ d = 1
             \/ req[r].kind = "buy" /\ o.state = "external_pending" /\ d = 0

\* Creating an operation for a viewer without an active one preserves the
\* protocol invariant.
LEMMA CreatingKeepsProtocol ==
    ASSUME ProtocolInv, NEW r \in Requests, req[r].pc = "balance", MayCreate(r),
           NEW o \in Operation, NEW e \in Event, NEW d \in Int, Creates(r, o, e, d)
    PROVE  ProtocolInv'
<1> DEFINE k == req[r].key
<1>1. /\ k \in Keys /\ req[r].user \in Users /\ req[r].kind \in {"sell", "buy"}
      /\ op[k].state = "none" /\ op[k].kind = "none" /\ moved[k] = 0
      /\ event[k].state # "processing"
    BY DEF ProtocolInv, RequestWaits, MayCreate, MovedByState, EventAgreesWithOperation, Agrees
<1>2. /\ op \in [Keys -> Operation] /\ event \in [Keys -> Event]
      /\ moved \in [Keys -> Int]
    BY DEF ProtocolInv, TypeOK
<1>3. /\ op'[k] = o /\ event'[k] = e /\ moved'[k] = d
      /\ \A j \in Keys \ {k} :
            op'[j] = op[j] /\ event'[j] = event[j] /\ moved'[j] = moved[j]
    BY <1>1, <1>2 DEF Creates
<1>4. Agrees(e.state, o.state) /\ o.state # "none"
      /\ o.state \notin {"completed", "compensated"}
    BY DEF Creates, Agrees
<1>5. TypeOK'
    BY <1>1 DEF ProtocolInv, TypeOK, Creates, Elsewhere
<1>6. \A q \in Requests \ {r} : req'[q] = req[q] /\ (Carrying(q) => req[q].key # k)
    BY <1>1 DEF Creates, ProtocolInv, RequestCarries
<1>7. \A v \in Workers : worker'[v] = worker[v] /\ (Working(v) => worker[v].key # k)
    BY <1>1 DEF Creates, ProtocolInv, RunnerCarries
<1>8. RequestWaits'
    BY <1>6 DEF ProtocolInv, RequestWaits, Creates, IdleRequest
<1>9. EventAgreesWithOperation'
    BY <1>3, <1>4 DEF ProtocolInv, EventAgreesWithOperation
<1>10. RequestCarries'
    <2>1. ASSUME NEW q \in Requests \ {r} PROVE RequestCarries!(q)'
        BY <1>3, <1>6 DEF ProtocolInv, RequestCarries, Carrying
    <2>2. RequestCarries!(r)'
        BY <1>1, <1>3 DEF Creates, Carrying, IdleRequest
    <2>3. QED
        BY <2>1, <2>2 DEF RequestCarries
<1>11. RunnerCarries'
    BY <1>3, <1>7 DEF ProtocolInv, RunnerCarries, Working
<1>12. OneCarrier'
    <2>1. Carrying(r)' => req'[r].key = k
        BY DEF Creates, Carrying, IdleRequest
    <2>2. QED
        BY <1>6, <1>7, <2>1 DEF ProtocolInv, OneCarrier, Carrying, Working
<1>13. OneActiveOperation'
    <2>1. \A j \in Keys : op[j].user = req[r].user => op[j].state \notin ActiveStates
        BY DEF MayCreate, HasActiveOperation
    <2>2. o.user = req[r].user
        BY DEF Creates
    <2>3. QED
        BY <1>3, <2>1, <2>2 DEF ProtocolInv, OneActiveOperation
<1>14. MovedByState'
    <2>1. /\ o.user \in Users /\ o.kind \in {"sell", "buy"}
          /\ o.kind = "sell" => d = Count(o.state \notin {"compensated", "failed"})
          /\ o.kind = "buy" => d = Count(o.state = "completed")
          /\ ~o.comp /\ ~o.internal
        BY <1>1, <1>4 DEF Creates, Count
    <2> HIDE DEF k
    <2>2. ASSUME NEW j \in Keys PROVE MovedByState!(j)'
        <3>1. CASE j = k
            BY <1>3, <1>4, <2>1, <3>1
        <3>2. CASE j # k
            BY <1>3, <3>2 DEF ProtocolInv, MovedByState
        <3>3. QED
            BY <3>1, <3>2
    <2>3. QED
        BY <2>2 DEF MovedByState
<1>15. QED
    BY <1>5, <1>8, <1>9, <1>10, <1>11, <1>12, <1>13, <1>14 DEF ProtocolInv

\* A sale over the provider's cap is recorded as failed, with its reply.
LEMMA RecordOverCapKeepsProtocol ==
    ASSUME ProtocolInv, NEW r \in Requests, RecordOverCap(r)
    PROVE  ProtocolInv'
<1> DEFINE k == req[r].key
           sell == req[r].kind = "sell"
           amt == IF sell THEN SellMass(r) ELSE BuyMass(r)
           pts == IF sell THEN SellPoints(SellMass(r), SellRate) ELSE 0
           o == NewOperation(r, "failed", amt, pts)
           e == [event[k] EXCEPT !.state = "dead_letter"]
<1>1. req[r].pc = "balance" /\ MayCreate(r)
    BY DEF RecordOverCap, OverCap, CanSell
<1>2. /\ k \in Keys /\ event[k] \in Event /\ moved[k] = 0
      /\ amt \in Nat /\ pts \in Int
      /\ req[r].user \in Users /\ req[r].arg \in Args /\ req[r].kind \in {"sell", "buy"}
    BY <1>1, AmountsAreNatural
    DEF ProtocolInv, TypeOK, RequestWaits, MayCreate, MovedByState
<1>3. op' = [op EXCEPT ![k] = o] /\ event' = [event EXCEPT ![k] = e]
    BY DEF RecordOverCap
<1>4. moved' = [moved EXCEPT ![k] = @ + 0]
    BY <1>2 DEF RecordOverCap, ProtocolInv, TypeOK
<1> HIDE DEF amt, pts
<1>5. /\ o \in Operation /\ o.state = "failed" /\ o.user = req[r].user
      /\ o.kind = req[r].kind /\ ~o.comp /\ ~o.internal
      /\ e \in Event /\ e.state = "dead_letter"
    BY <1>2 DEF NewOperation, Operation, OpStates, ActiveStates, Event, EventStates
<1>6. Finish(r) /\ UNCHANGED <<mass, points, worker, paid, owed, spent>>
    BY DEF RecordOverCap
<1>7. Elsewhere
    BY <1>6, RequestElsewhere
<1>8. \A q \in Requests : req'[q] = IF q = r THEN IdleRequest ELSE req[q]
    BY <1>6 DEF Finish, ProtocolInv, TypeOK
<1> HIDE DEF o, e
<1>9. Creates(r, o, e, 0)
    BY <1>3, <1>4, <1>5, <1>6, <1>7, <1>8 DEF Creates, ProtocolInv, TypeOK
<1>10. QED
    BY <1>1, <1>5, <1>9, CreatingKeepsProtocol

\* A sale starts with its mass taken, so that it cannot be sold twice.
LEMMA CreateSellKeepsProtocol ==
    ASSUME ProtocolInv, NEW r \in Requests, CreateSell(r)
    PROVE  ProtocolInv'
<1> DEFINE k == req[r].key
           amt == SellMass(r)
           pts == SellPoints(amt, SellRate)
           o == NewOperation(r, "processing", amt, pts)
           e == [event[k] EXCEPT !.state = "processing"]
           left == Clamped(req[r].snap - amt)
           q == [req[r] EXCEPT !.pc = "write", !.snap = left]
<1>1. req[r].pc = "balance" /\ req[r].kind = "sell" /\ MayCreate(r)
    BY DEF CreateSell, CanSell
<1>2. /\ k \in Keys /\ event[k] \in Event /\ req[r] \in Request
      /\ amt \in Nat /\ pts \in Int
      /\ req[r].user \in Users /\ req[r].arg \in Args /\ req[r].snap \in Nat
    BY <1>1, AmountsAreNatural DEF ProtocolInv, TypeOK, RequestWaits, Request
<1>3. /\ op' = [op EXCEPT ![k] = o] /\ event' = [event EXCEPT ![k] = e]
      /\ req' = [req EXCEPT ![r] = q] /\ MoveCachedMass(r, k, req[r].user, -amt, 1)
      /\ UNCHANGED <<points, lock, worker, paid, spent>>
    BY DEF CreateSell
<1>a. left \in Nat
    BY <1>2 DEF Clamped
<1> HIDE DEF amt, pts, left
<1>4. /\ o \in Operation /\ o.state = "processing" /\ o.user = req[r].user
      /\ o.kind = req[r].kind /\ ~o.comp /\ ~o.internal
      /\ e \in Event /\ e.state = "processing"
    BY <1>1, <1>2 DEF NewOperation, Operation, OpStates, ActiveStates, Event, EventStates
<1>5. /\ q \in Request /\ q.pc = "write" /\ q.key = req[r].key
      /\ q.user = req[r].user /\ q.kind = req[r].kind
    BY <1>2, <1>a DEF Request, RequestSteps
<1>6. /\ mass' \in [Users -> Nat] /\ owed' \in [Users -> Nat]
      /\ moved' = [moved EXCEPT ![k] = @ + 1]
    BY <1>2, <1>3 DEF MoveCachedMass, Clamped, ProtocolInv, TypeOK
<1> HIDE DEF o, e, q
<1>7. req' \in [Requests -> Request] /\ req'[r] = q /\ \A p \in Requests \ {r} : req'[p] = req[p]
    BY <1>3, <1>5 DEF ProtocolInv, TypeOK
<1>8. Elsewhere
    BY <1>3, <1>7 DEF Elsewhere, ProtocolInv, TypeOK
<1>9. Creates(r, o, e, 1)
    BY <1>1, <1>3, <1>4, <1>5, <1>6, <1>7, <1>8 DEF Creates
<1>10. QED
    BY <1>1, <1>4, <1>9, CreatingKeepsProtocol

\* A purchase starts without any mass.
LEMMA CreateBuyKeepsProtocol ==
    ASSUME ProtocolInv, NEW r \in Requests, CreateBuy(r)
    PROVE  ProtocolInv'
<1> DEFINE k == req[r].key
           amt == BuyMass(r)
           pts == -BuyPoints(amt, BuyRate)
           o == NewOperation(r, "external_pending", amt, pts)
           e == [event[k] EXCEPT !.state = "processing"]
           q == [req[r] EXCEPT !.pc = "write"]
<1>1. req[r].pc = "balance" /\ req[r].kind = "buy" /\ MayCreate(r)
    BY DEF CreateBuy, CanBuy
<1>2. /\ k \in Keys /\ event[k] \in Event /\ req[r] \in Request
      /\ amt \in Nat /\ pts \in Int
      /\ req[r].user \in Users /\ req[r].arg \in Args
    BY <1>1, AmountsAreNatural DEF ProtocolInv, TypeOK, RequestWaits, Request
<1>3. /\ op' = [op EXCEPT ![k] = o] /\ event' = [event EXCEPT ![k] = e]
      /\ req' = [req EXCEPT ![r] = q]
      /\ UNCHANGED <<mass, points, lock, worker, paid, moved, owed, spent>>
    BY DEF CreateBuy
<1> HIDE DEF amt, pts
<1>4. /\ o \in Operation /\ o.state = "external_pending" /\ o.user = req[r].user
      /\ o.kind = req[r].kind /\ ~o.comp /\ ~o.internal
      /\ e \in Event /\ e.state = "processing"
    BY <1>1, <1>2 DEF NewOperation, Operation, OpStates, ActiveStates, Event, EventStates
<1>5. /\ q \in Request /\ q.pc = "write" /\ q.key = req[r].key
      /\ q.user = req[r].user /\ q.kind = req[r].kind
    BY <1>2 DEF Request, RequestSteps
<1>6. /\ mass' \in [Users -> Nat] /\ owed' \in [Users -> Nat]
      /\ moved' = [moved EXCEPT ![k] = @ + 0]
    BY <1>2, <1>3 DEF ProtocolInv, TypeOK
<1> HIDE DEF o, e, q
<1>7. req' \in [Requests -> Request] /\ req'[r] = q /\ \A p \in Requests \ {r} : req'[p] = req[p]
    BY <1>3, <1>5 DEF ProtocolInv, TypeOK
<1>8. Elsewhere
    BY <1>3, <1>7 DEF Elsewhere, ProtocolInv, TypeOK
<1>9. Creates(r, o, e, 0)
    BY <1>1, <1>3, <1>4, <1>5, <1>6, <1>7, <1>8 DEF Creates
<1>10. QED
    BY <1>1, <1>4, <1>9, CreatingKeepsProtocol

-----------------------------------------------------------------------------
(* The actions that leave the operations alone, and the worker's claim *)

\* Steps that change no operation and no event, and after which a request or a
\* runner carries only what it carried before, preserve the protocol invariant.
LEMMA QuietKeepsProtocol ==
    ASSUME ProtocolInv, TypeOK', RequestWaits', UNCHANGED <<op, event, moved>>,
           \A q \in Requests : Carrying(q)' =>
              /\ Carrying(q) /\ req'[q].key = req[q].key /\ req'[q].user = req[q].user
              /\ req'[q].kind = req[q].kind
              /\ req'[q].pc \in {"write", "answered"} \/ req[q].kind = "buy"
              /\ req'[q].pc \in {"answered", "refunded"} => req'[q].out \in WriteOutcomes,
           \A v \in Workers : Working(v)' =>
              /\ Working(v) /\ worker'[v].key = worker[v].key
              /\ worker'[v].pc = "answered" => worker'[v].out \in WriteOutcomes
    PROVE  ProtocolInv'
<1>1. EventAgreesWithOperation' /\ OneActiveOperation' /\ MovedByState'
    BY DEF ProtocolInv, EventAgreesWithOperation, OneActiveOperation, MovedByState
<1>2. RequestCarries'
    BY DEF ProtocolInv, RequestCarries
<1>3. RunnerCarries'
    BY DEF ProtocolInv, RunnerCarries
<1>4. OneCarrier'
    BY DEF ProtocolInv, OneCarrier
<1>5. QED
    BY <1>1, <1>2, <1>3, <1>4 DEF ProtocolInv

\* A new command only waits for a balance.
LEMMA BeginKeepsProtocol ==
    ASSUME ProtocolInv, NEW r \in Requests, NEW k \in Keys, NEW u \in Users,
           NEW kind \in {"sell", "buy"}, NEW arg \in Args, Begin(r, k, u, kind, arg)
    PROVE  ProtocolInv'
<1> DEFINE q == [pc |-> "balance", key |-> k, kind |-> kind, user |-> u,
                 arg |-> arg, snap |-> mass[u], out |-> "none"]
<1>1. q \in Request /\ q.pc = "balance" /\ q.key = k /\ q.user = u /\ q.kind = kind /\ q.arg = arg
    BY DEF Request, RequestSteps, ProtocolInv, TypeOK
<1>2. req' = [req EXCEPT ![r] = q] /\ lock' = [lock EXCEPT ![u] = r]
      /\ UNCHANGED <<mass, points, op, event, worker, paid, moved, owed, spent>>
    BY DEF Begin
<1> HIDE DEF q
<1>3. TypeOK'
    BY <1>1, <1>2 DEF ProtocolInv, TypeOK
<1>4. \A p \in Requests : req'[p] = IF p = r THEN q ELSE req[p]
    BY <1>2 DEF ProtocolInv, TypeOK
<1>5. RequestWaits'
    BY <1>1, <1>4 DEF ProtocolInv, RequestWaits
<1>6. QED
    BY <1>1, <1>2, <1>3, <1>4, <1>5, QuietKeepsProtocol
    DEF Carrying, Working, ProtocolInv, RequestCarries, RunnerCarries

\* The provider answers a request.
LEMMA RequestWritesKeepsProtocol ==
    ASSUME ProtocolInv, NEW r \in Requests, NEW out \in WriteOutcomes, RequestWrites(r, out)
    PROVE  ProtocolInv'
<1> DEFINE q == [req[r] EXCEPT !.pc = "answered", !.out = out]
<1>1. req[r] \in Request /\ Carrying(r)
    BY DEF RequestWrites, Learns, Carrying, RequestSteps, ProtocolInv, TypeOK
<1>2. /\ q \in Request /\ q.key = req[r].key /\ q.user = req[r].user
      /\ q.kind = req[r].kind /\ q.pc # "balance"
    BY <1>1, SagaAssumption DEF Request, RequestSteps, AppliedOutcomes, UnappliedOutcomes
<1>3. /\ req' = [req EXCEPT ![r] = q]
      /\ UNCHANGED <<mass, op, event, lock, worker, moved, owed, spent>>
    BY DEF RequestWrites
<1>4. \A p \in Requests : req'[p] = IF p = r THEN q ELSE req[p]
    BY <1>3 DEF ProtocolInv, TypeOK
<1>5. q.pc \in {"write", "answered"} \/ req[r].kind = "buy"
    BY <1>1 DEF RequestWrites, ProtocolInv, RequestCarries
<1>6. q.pc \in {"answered", "refunded"} => q.out \in WriteOutcomes
    BY <1>1
<1> HIDE DEF q
<1>7. points' \in [Users -> 0 .. PointsMax] /\ paid' \in [Keys -> Int]
    BY DEF RequestWrites, ProviderPut, ValidBalance, ProtocolInv, TypeOK
<1>8. TypeOK'
    BY <1>2, <1>3, <1>7 DEF ProtocolInv, TypeOK
<1>9. RequestWaits'
    BY <1>2, <1>4 DEF ProtocolInv, RequestWaits
<1>10. QED
    BY <1>1, <1>2, <1>3, <1>4, <1>5, <1>6, <1>8, <1>9, QuietKeepsProtocol
    DEF Carrying, Working, ProtocolInv, RequestCarries, RunnerCarries

\* A purchase that could not be saved is about to be refunded.
LEMMA SaveOfBuyFailsKeepsProtocol ==
    ASSUME ProtocolInv, NEW r \in Requests, SaveOfBuyFails(r)
    PROVE  ProtocolInv'
<1> DEFINE q == [req[r] EXCEPT !.pc = "refundRead", !.out = "none"]
<1>1. req[r] \in Request /\ Carrying(r)
    BY DEF SaveOfBuyFails, Learns, Carrying, RequestSteps, ProtocolInv, TypeOK
<1>2. /\ q \in Request /\ q.key = req[r].key /\ q.user = req[r].user
      /\ q.kind = req[r].kind /\ q.pc # "balance"
    BY <1>1, SagaAssumption DEF Request, RequestSteps, AppliedOutcomes, UnappliedOutcomes
<1>3. /\ req' = [req EXCEPT ![r] = q]
      /\ UNCHANGED <<mass, op, event, lock, worker, moved, owed, spent>>
    BY DEF SaveOfBuyFails
<1>4. \A p \in Requests : req'[p] = IF p = r THEN q ELSE req[p]
    BY <1>3 DEF ProtocolInv, TypeOK
<1>5. q.pc \in {"write", "answered"} \/ req[r].kind = "buy"
    BY <1>1 DEF SaveOfBuyFails, ProtocolInv, RequestCarries
<1>6. q.pc \in {"answered", "refunded"} => q.out \in WriteOutcomes
    BY <1>1
<1> HIDE DEF q
<1>7. points' \in [Users -> 0 .. PointsMax] /\ paid' \in [Keys -> Int]
    BY DEF SaveOfBuyFails, ProtocolInv, TypeOK
<1>8. TypeOK'
    BY <1>2, <1>3, <1>7 DEF ProtocolInv, TypeOK
<1>9. RequestWaits'
    BY <1>2, <1>4 DEF ProtocolInv, RequestWaits
<1>10. QED
    BY <1>1, <1>2, <1>3, <1>4, <1>5, <1>6, <1>8, <1>9, QuietKeepsProtocol
    DEF Carrying, Working, ProtocolInv, RequestCarries, RunnerCarries

\* The refund fits.
LEMMA RefundStartsKeepsProtocol ==
    ASSUME ProtocolInv, NEW r \in Requests, RefundStarts(r)
    PROVE  ProtocolInv'
<1> DEFINE q == [req[r] EXCEPT !.pc = "refundWrite"]
<1>1. req[r] \in Request /\ Carrying(r)
    BY DEF RefundStarts, Learns, Carrying, RequestSteps, ProtocolInv, TypeOK
<1>2. /\ q \in Request /\ q.key = req[r].key /\ q.user = req[r].user
      /\ q.kind = req[r].kind /\ q.pc # "balance"
    BY <1>1, SagaAssumption DEF Request, RequestSteps, AppliedOutcomes, UnappliedOutcomes
<1>3. /\ req' = [req EXCEPT ![r] = q]
      /\ UNCHANGED <<mass, op, event, lock, worker, moved, owed, spent>>
    BY DEF RefundStarts
<1>4. \A p \in Requests : req'[p] = IF p = r THEN q ELSE req[p]
    BY <1>3 DEF ProtocolInv, TypeOK
<1>5. q.pc \in {"write", "answered"} \/ req[r].kind = "buy"
    BY <1>1 DEF RefundStarts, ProtocolInv, RequestCarries
<1>6. q.pc \in {"answered", "refunded"} => q.out \in WriteOutcomes
    BY <1>1
<1> HIDE DEF q
<1>7. points' \in [Users -> 0 .. PointsMax] /\ paid' \in [Keys -> Int]
    BY DEF RefundStarts, ProtocolInv, TypeOK
<1>8. TypeOK'
    BY <1>2, <1>3, <1>7 DEF ProtocolInv, TypeOK
<1>9. RequestWaits'
    BY <1>2, <1>4 DEF ProtocolInv, RequestWaits
<1>10. QED
    BY <1>1, <1>2, <1>3, <1>4, <1>5, <1>6, <1>8, <1>9, QuietKeepsProtocol
    DEF Carrying, Working, ProtocolInv, RequestCarries, RunnerCarries

\* The provider answers a refund.
LEMMA RefundWritesKeepsProtocol ==
    ASSUME ProtocolInv, NEW r \in Requests, NEW out \in WriteOutcomes, RefundWrites(r, out)
    PROVE  ProtocolInv'
<1> DEFINE q == [req[r] EXCEPT !.pc = "refunded", !.out = out]
<1>1. req[r] \in Request /\ Carrying(r)
    BY DEF RefundWrites, Learns, Carrying, RequestSteps, ProtocolInv, TypeOK
<1>2. /\ q \in Request /\ q.key = req[r].key /\ q.user = req[r].user
      /\ q.kind = req[r].kind /\ q.pc # "balance"
    <2>1. out \in AppliedOutcomes \union UnappliedOutcomes \union {"none"}
        BY SagaAssumption
    <2>2. "refunded" \in RequestSteps
        BY DEF RequestSteps
    <2>3. q \in Request
        BY <1>1, <2>1, <2>2 DEF Request
    <2>4. /\ q.pc = "refunded" /\ q.key = req[r].key /\ q.user = req[r].user
          /\ q.kind = req[r].kind
        BY <1>1 DEF Request
    <2>5. QED
        BY <2>3, <2>4
<1>3. /\ req' = [req EXCEPT ![r] = q]
      /\ UNCHANGED <<mass, op, event, lock, worker, moved, owed, spent>>
    BY DEF RefundWrites
<1>4. \A p \in Requests : req'[p] = IF p = r THEN q ELSE req[p]
    BY <1>3 DEF ProtocolInv, TypeOK
<1>5. q.pc \in {"write", "answered"} \/ req[r].kind = "buy"
    BY <1>1 DEF RefundWrites, ProtocolInv, RequestCarries
<1>6. q.pc \in {"answered", "refunded"} => q.out \in WriteOutcomes
    BY <1>1
<1> HIDE DEF q
<1>7. points' \in [Users -> 0 .. PointsMax] /\ paid' \in [Keys -> Int]
    BY DEF RefundWrites, ProviderPut, ValidBalance, ProtocolInv, TypeOK
<1>8. TypeOK'
    BY <1>2, <1>3, <1>7 DEF ProtocolInv, TypeOK
<1>9. RequestWaits'
    BY <1>2, <1>4 DEF ProtocolInv, RequestWaits
<1>10. QED
    BY <1>1, <1>2, <1>3, <1>4, <1>5, <1>6, <1>8, <1>9, QuietKeepsProtocol
    DEF Carrying, Working, ProtocolInv, RequestCarries, RunnerCarries

\* A request that is over, or dies, without amending its operation.
LEMMA RequestEndKeepsProtocol ==
    ASSUME ProtocolInv, NEW r \in Requests, GiveUp(r) \/ Crash(r)
    PROVE  ProtocolInv'
<1>1. /\ req' = [req EXCEPT ![r] = IdleRequest]
      /\ UNCHANGED <<mass, points, op, event, worker, paid, moved, owed, spent>>
    BY DEF GiveUp, Finish, Crash
<1>2. lock' \in [Users -> Requests \union {None, Orphan}]
    BY DEF GiveUp, Finish, Released, Crash, ProtocolInv, TypeOK
<1>3. \A p \in Requests : req'[p] = IF p = r THEN IdleRequest ELSE req[p]
    BY <1>1 DEF ProtocolInv, TypeOK
<1>4. TypeOK'
    BY <1>1, <1>2 DEF ProtocolInv, TypeOK, IdleRequest, Request, RequestSteps
<1>5. RequestWaits'
    BY <1>3 DEF ProtocolInv, RequestWaits, IdleRequest
<1>6. QED
    BY <1>1, <1>3, <1>4, <1>5, QuietKeepsProtocol
    DEF Carrying, Working, IdleRequest, ProtocolInv, RequestCarries, RunnerCarries

\* The worker reads a balance that fits.
LEMMA WorkerReadsKeepsProtocol ==
    ASSUME ProtocolInv, NEW w \in Workers, WorkerReads(w)
    PROVE  ProtocolInv'
<1> DEFINE x == [worker[w] EXCEPT !.pc = "write"]
<1>1. worker[w] \in Runner /\ Working(w)
    BY DEF WorkerReads, Working, ProtocolInv, TypeOK
<1>2. x \in Runner /\ x.key = worker[w].key /\ x.pc = "write"
    BY <1>1, SagaAssumption DEF Runner, IdleRunner, AppliedOutcomes, UnappliedOutcomes
<1>3. worker' = [worker EXCEPT ![w] = x]
      /\ UNCHANGED <<mass, op, event, lock, req, moved, owed, spent>>
    BY DEF WorkerReads, Rest
<1> HIDE DEF x
<1>4. points' \in [Users -> 0 .. PointsMax] /\ paid' \in [Keys -> Int]
    BY DEF WorkerReads, ProtocolInv, TypeOK
<1>5. TypeOK' /\ RequestWaits'
    BY <1>2, <1>3, <1>4 DEF ProtocolInv, TypeOK, RequestWaits
<1>6. \A v \in Workers : worker'[v] = IF v = w THEN x ELSE worker[v]
    BY <1>3 DEF ProtocolInv, TypeOK
<1>7. QED
    BY <1>1, <1>2, <1>3, <1>5, <1>6, QuietKeepsProtocol
    DEF Carrying, Working, ProtocolInv, RequestCarries, RunnerCarries

\* The provider answers the worker.
LEMMA WorkerWritesKeepsProtocol ==
    ASSUME ProtocolInv, NEW w \in Workers, NEW out \in WriteOutcomes, WorkerWrites(w, out)
    PROVE  ProtocolInv'
<1> DEFINE x == [worker[w] EXCEPT !.pc = "answered", !.out = out]
<1>1. worker[w] \in Runner /\ Working(w)
    BY DEF WorkerWrites, Working, ProtocolInv, TypeOK
<1>2. x \in Runner /\ x.key = worker[w].key /\ x.out \in WriteOutcomes
    BY <1>1, SagaAssumption DEF Runner, IdleRunner, AppliedOutcomes, UnappliedOutcomes
<1>3. worker' = [worker EXCEPT ![w] = x]
      /\ UNCHANGED <<mass, op, event, lock, req, moved, owed, spent>>
    BY DEF WorkerWrites, Rest
<1> HIDE DEF x
<1>4. points' \in [Users -> 0 .. PointsMax] /\ paid' \in [Keys -> Int]
    BY DEF WorkerWrites, ProviderPut, ValidBalance, ProtocolInv, TypeOK
<1>5. TypeOK' /\ RequestWaits'
    BY <1>2, <1>3, <1>4 DEF ProtocolInv, TypeOK, RequestWaits
<1>6. \A v \in Workers : worker'[v] = IF v = w THEN x ELSE worker[v]
    BY <1>3 DEF ProtocolInv, TypeOK
<1>7. QED
    BY <1>1, <1>2, <1>3, <1>5, <1>6, QuietKeepsProtocol
    DEF Carrying, Working, ProtocolInv, RequestCarries, RunnerCarries

\* The worker dies.
LEMMA WorkerCrashKeepsProtocol ==
    ASSUME ProtocolInv, NEW w \in Workers, WorkerCrash(w)
    PROVE  ProtocolInv'
<1> DEFINE x == IdleRunner
<1>1. worker[w] \in Runner
    BY DEF WorkerCrash, ProtocolInv, TypeOK
<1>2. x \in Runner /\ x.pc = "idle"
    BY <1>1, SagaAssumption DEF Runner, IdleRunner, AppliedOutcomes, UnappliedOutcomes
<1>3. worker' = [worker EXCEPT ![w] = x]
      /\ UNCHANGED <<mass, op, event, lock, req, moved, owed, spent>>
    BY DEF WorkerCrash, Rest
<1> HIDE DEF x
<1>4. points' \in [Users -> 0 .. PointsMax] /\ paid' \in [Keys -> Int]
    BY DEF WorkerCrash, ProtocolInv, TypeOK
<1>5. TypeOK' /\ RequestWaits'
    BY <1>2, <1>3, <1>4 DEF ProtocolInv, TypeOK, RequestWaits
<1>6. \A v \in Workers : worker'[v] = IF v = w THEN x ELSE worker[v]
    BY <1>3 DEF ProtocolInv, TypeOK
<1>7. QED
    BY <1>1, <1>2, <1>3, <1>5, <1>6, QuietKeepsProtocol
    DEF Carrying, Working, ProtocolInv, RequestCarries, RunnerCarries

\* What happens outside the engine, an expiring lock, and stuttering.
LEMMA OutsideKeepsProtocol ==
    ASSUME ProtocolInv,
           \/ \E u \in Users : LockExpires(u)
           \/ \E u \in Users, delta \in {-1, 1} : Catch(u, delta) \/ Earn(u, delta)
           \/ UNCHANGED vars
    PROVE  ProtocolInv'
<1>1. UNCHANGED <<op, event, req, worker, moved, paid>>
    BY DEF LockExpires, Catch, Earn, vars
<1>2. /\ mass' \in [Users -> Nat] /\ owed' \in [Users -> Nat]
      /\ points' \in [Users -> 0 .. PointsMax]
      /\ lock' \in [Users -> Requests \union {None, Orphan}]
      /\ spent' \in [catches : Nat, earnings : Nat, interventions : Nat]
    BY DEF LockExpires, Catch, Earn, vars, Clamped, ValidBalance, ProtocolInv, TypeOK
<1>3. TypeOK' /\ RequestWaits'
    BY <1>1, <1>2 DEF ProtocolInv, TypeOK, RequestWaits
<1>4. QED
    BY <1>1, <1>3, QuietKeepsProtocol
    DEF Carrying, Working, ProtocolInv, RequestCarries, RunnerCarries

\* The worker leases an operation that is queued, which nobody carries.
LEMMA ClaimKeepsProtocol ==
    ASSUME ProtocolInv, NEW w \in Workers, NEW k \in Keys, Claim(w, k)
    PROVE  ProtocolInv'
<1> DEFINE o == [op[k] EXCEPT !.state = "processing"]
           e == [event[k] EXCEPT !.state = "processing"]
           x == [pc |-> "balance", key |-> k, out |-> "none"]
<1>1. event[k].state = "pending"
    BY DEF Claim, Claimable
<1>2. /\ op[k] \in Operation /\ event[k] \in Event /\ op[k].state \in ActiveStates
      /\ op[k].kind = "sell" => moved[k] = 1 /\ ~op[k].comp
      /\ op[k].kind = "buy" => moved[k] = 0 /\ ~op[k].internal
      /\ op[k].kind \in {"sell", "buy"} /\ op[k].user \in Users
    BY <1>1, ClaimedOperation
<1>3. /\ o \in Operation /\ o.state = "processing" /\ o.user = op[k].user
      /\ o.kind = op[k].kind /\ o.comp = op[k].comp /\ o.internal = op[k].internal
      /\ e \in Event /\ e.state = "processing"
    BY <1>2 DEF Operation, OpStates, ActiveStates, Event, EventStates
<1>4. x \in Runner /\ x.pc = "balance" /\ x.key = k
    BY DEF Runner
<1>5. /\ op' = [op EXCEPT ![k] = o] /\ event' = [event EXCEPT ![k] = e]
      /\ worker' = [worker EXCEPT ![w] = x]
      /\ UNCHANGED <<mass, points, lock, req, paid, moved, owed, spent>>
    BY DEF Claim
<1> HIDE DEF o, e, x
<1>6. /\ op'[k] = o /\ event'[k] = e /\ worker'[w] = x
      /\ \A j \in Keys \ {k} : op'[j] = op[j] /\ event'[j] = event[j]
      /\ \A v \in Workers \ {w} : worker'[v] = worker[v]
    BY <1>5 DEF ProtocolInv, TypeOK
<1>7. TypeOK' /\ RequestWaits'
    BY <1>3, <1>4, <1>5 DEF ProtocolInv, TypeOK, RequestWaits
<1>8. EventAgreesWithOperation'
    BY <1>3, <1>6 DEF ProtocolInv, EventAgreesWithOperation, Agrees
<1>9. /\ \A q \in Requests : Carrying(q) => req[q].key # k
      /\ \A v \in Workers : Working(v) => worker[v].key # k
    BY <1>1 DEF ProtocolInv, RequestCarries, RunnerCarries
<1>10. RequestCarries'
    BY <1>5, <1>6, <1>9 DEF ProtocolInv, RequestCarries, Carrying
<1>11. RunnerCarries'
    BY <1>3, <1>4, <1>6, <1>9 DEF ProtocolInv, RunnerCarries, Working
<1>12. OneCarrier'
    BY <1>4, <1>5, <1>6, <1>9 DEF ProtocolInv, OneCarrier, Carrying, Working
<1>13. OneActiveOperation'
    BY <1>2, <1>3, <1>6 DEF ProtocolInv, OneActiveOperation
<1>14. MovedByState'
    <2>1. ASSUME NEW j \in Keys PROVE MovedByState!(j)'
        <3>1. CASE j = k
            BY <1>2, <1>3, <1>5, <1>6, <3>1 DEF Count
        <3>2. CASE j # k
            BY <1>5, <1>6, <3>2 DEF ProtocolInv, MovedByState
        <3>3. QED
            BY <3>1, <3>2
    <2>2. QED
        BY <2>1 DEF MovedByState
<1>15. QED
    BY <1>7, <1>8, <1>10, <1>11, <1>12, <1>13, <1>14 DEF ProtocolInv

-----------------------------------------------------------------------------
(* The protocol invariant *)

\* In the beginning there is no operation.
LEMMA ProtocolInit == Init => ProtocolInv
<1> SUFFICES ASSUME Init PROVE ProtocolInv
    OBVIOUS
<1>1. TypeOK
    BY SagaAssumption, PricingAssumption
    DEF Init, TypeOK, Operation, NoOperation, OpStates, Event, EventStates, Request,
        RequestSteps, IdleRequest, Runner, IdleRunner
<1>2. RequestWaits /\ RequestCarries /\ RunnerCarries /\ OneCarrier
    BY DEF Init, RequestWaits, RequestCarries, RunnerCarries, OneCarrier, Carrying,
           Working, IdleRequest, IdleRunner
<1>3. EventAgreesWithOperation /\ OneActiveOperation
    BY DEF Init, EventAgreesWithOperation, Agrees, OneActiveOperation, NoOperation,
           ActiveStates
<1>4. MovedByState
    BY DEF Init, MovedByState, NoOperation
<1>5. QED
    BY <1>1, <1>2, <1>3, <1>4 DEF ProtocolInv

\* Every step of a request after its command began.
LEMMA RequestKeepsProtocol ==
    ASSUME ProtocolInv, NEW r \in Requests, RequestContinues(r)
    PROVE  ProtocolInv'
<1>1. CASE GiveUp(r)
    BY <1>1, RequestEndKeepsProtocol
<1>2. CASE RecordOverCap(r)
    BY <1>2, RecordOverCapKeepsProtocol
<1>3. CASE CreateSell(r)
    BY <1>3, CreateSellKeepsProtocol
<1>4. CASE CreateBuy(r)
    BY <1>4, CreateBuyKeepsProtocol
<1>5. CASE \E out \in WriteOutcomes : RequestWrites(r, out) \/ RefundWrites(r, out)
    BY <1>5, RequestWritesKeepsProtocol, RefundWritesKeepsProtocol
<1>6. CASE CompleteSell(r)
    BY <1>6, CompleteSellSettles, SettlingKeepsProtocol
<1>7. CASE CompleteBuy(r)
    BY <1>7, CompleteBuySettles, SettlingKeepsProtocol
<1>8. CASE DeclareAmbiguous(r)
    BY <1>8, DeclareAmbiguousSettles, SettlingKeepsProtocol
<1>9. CASE QueueRetry(r)
    BY <1>9, QueueRetrySettles, SettlingKeepsProtocol
<1>10. CASE RestoreSell(r)
    BY <1>10, RestoreSellSettles, SettlingKeepsProtocol
<1>11. CASE FailBuy(r)
    BY <1>11, FailBuySettles, SettlingKeepsProtocol
<1>12. CASE SaveOfSellFails(r)
    BY <1>12, SaveOfSellFailsSettles, SettlingKeepsProtocol
<1>13. CASE SaveOfBuyFails(r)
    BY <1>13, SaveOfBuyFailsKeepsProtocol
<1>14. CASE RefundRefused(r)
    BY <1>14, RefundRefusedSettles, SettlingKeepsProtocol
<1>15. CASE RefundStarts(r)
    BY <1>15, RefundStartsKeepsProtocol
<1>16. CASE RefundSettles(r)
    BY <1>16, RefundSettlesSettles, SettlingKeepsProtocol
<1>17. QED
    BY <1>1, <1>2, <1>3, <1>4, <1>5, <1>6, <1>7, <1>8, <1>9, <1>10, <1>11, <1>12,
       <1>13, <1>14, <1>15, <1>16 DEF RequestContinues

\* Every step of a runner.
LEMMA WorkerKeepsProtocol ==
    ASSUME ProtocolInv, NEW w \in Workers, WorkerStep(w)
    PROVE  ProtocolInv'
<1>0. \A k \in Keys : FailedMove(k) \in Int /\ ConfirmedMove(k) \in Int
    BY DEF FailedMove, ConfirmedMove
<1>1. ASSUME NEW k \in Keys, RecoverExpiredLease(w, k) PROVE ProtocolInv'
    BY <1>1, RecoverExpiredLeaseSettles, SettlingKeepsProtocol
<1>2. ASSUME NEW k \in Keys, ClaimUnconfigured(w, k) PROVE ProtocolInv'
    BY <1>0, <1>2, ClaimUnconfiguredSettles, SettlingKeepsProtocol
<1>3. ASSUME NEW k \in Keys, ClaimRebound(w, k) PROVE ProtocolInv'
    BY <1>3, ClaimReboundSettles, SettlingKeepsProtocol
<1>4. ASSUME NEW k \in Keys, Claim(w, k) PROVE ProtocolInv'
    BY <1>4, ClaimKeepsProtocol
<1>5. CASE WorkerReads(w)
    BY <1>5, WorkerReadsKeepsProtocol
<1>6. ASSUME NEW out \in WriteOutcomes, WorkerWrites(w, out) PROVE ProtocolInv'
    BY <1>6, WorkerWritesKeepsProtocol
<1>7. CASE WorkerCompletes(w)
    <2>1. Settles(worker[w].key, "completed", "processed", ConfirmedMove(worker[w].key))
        BY <1>7, WorkerCompletesSettles
    <2>2. QED
        BY <1>0, <2>1, SettlingKeepsProtocol DEF Settles
<1>8. CASE WorkerAmbiguous(w)
    BY <1>8, WorkerAmbiguousSettles, SettlingKeepsProtocol
<1>9. CASE ScheduleRetry(w)
    <2>1. CASE Settles(worker[w].key, "pending", "pending", 0)
        BY <2>1, SettlingKeepsProtocol
    <2>2. CASE Settles(worker[w].key, FailedState(worker[w].key), "dead_letter",
                       FailedMove(worker[w].key))
        BY <1>0, <2>2, SettlingKeepsProtocol DEF Settles
    <2>3. QED
        BY <1>9, <2>1, <2>2, ScheduleRetrySettles
<1>10. CASE DeadLetter(w)
    <2>1. Settles(worker[w].key, FailedState(worker[w].key), "dead_letter",
                  FailedMove(worker[w].key))
        BY <1>10, DeadLetterSettles
    <2>2. QED
        BY <1>0, <2>1, SettlingKeepsProtocol DEF Settles
<1>11. QED
    BY <1>1, <1>2, <1>3, <1>4, <1>5, <1>6, <1>7, <1>8, <1>9, <1>10 DEF WorkerStep

\* Every step of the administrator.
LEMMA AdminKeepsProtocol ==
    ASSUME ProtocolInv, AdminStep
    PROVE  ProtocolInv'
<1>1. ASSUME NEW k \in Keys, AdminRetry(k) PROVE ProtocolInv'
    BY <1>1, AdminRetrySettles, SettlingKeepsProtocol
<1>2. ASSUME NEW k \in Keys, AdminComplete(k) PROVE ProtocolInv'
    <2>1. ConfirmedMove(k) \in Int
        BY DEF ConfirmedMove
    <2>2. QED
        BY <1>2, <2>1, AdminCompleteSettles, SettlingKeepsProtocol
<1>3. ASSUME NEW k \in Keys, AdminCompensate(k) PROVE ProtocolInv'
    BY <1>3, AdminCompensateSettles, SettlingKeepsProtocol
<1>4. ASSUME NEW k \in Keys, AdminDeadLetter(k) PROVE ProtocolInv'
    BY <1>4, AdminDeadLetterSettles, SettlingKeepsProtocol
<1>5. QED
    BY <1>1, <1>2, <1>3, <1>4 DEF AdminStep

\* No step of the system breaks the protocol invariant.
LEMMA ProtocolStep == ProtocolInv /\ [Next]_vars => ProtocolInv'
<1> SUFFICES ASSUME ProtocolInv, [Next]_vars PROVE ProtocolInv'
    OBVIOUS
<1>1. ASSUME NEW r \in Requests, NEW k \in Keys, NEW u \in Users,
             NEW kind \in {"sell", "buy"}, NEW arg \in Args, Begin(r, k, u, kind, arg)
      PROVE  ProtocolInv'
    BY <1>1, BeginKeepsProtocol
<1>2. ASSUME NEW r \in Requests, RequestContinues(r) PROVE ProtocolInv'
    BY <1>2, RequestKeepsProtocol
<1>3. ASSUME NEW w \in Workers, WorkerStep(w) PROVE ProtocolInv'
    BY <1>3, WorkerKeepsProtocol
<1>4. CASE AdminStep
    BY <1>4, AdminKeepsProtocol
<1>5. CASE (\E u \in Users : LockExpires(u)) \/ UNCHANGED vars
    BY <1>5, OutsideKeepsProtocol
<1>6. CASE Environment
    BY <1>6, RequestEndKeepsProtocol, WorkerCrashKeepsProtocol, OutsideKeepsProtocol
    DEF Environment
<1>7. QED
    BY <1>1, <1>2, <1>3, <1>4, <1>5, <1>6 DEF Next

\* The protocol invariant holds whatever the provider answers.
LEMMA ProtocolHolds == Spec => []ProtocolInv
  BY ProtocolInit, ProtocolStep, PTL DEF Spec

\* Every variable keeps its type: no handler writes a row, a request or a
\* balance that is not one, for any number of actors.
THEOREM TypeCorrect == Spec => []TypeOK
<1>1. ProtocolInv => TypeOK
    BY DEF ProtocolInv
<1>2. QED
    BY <1>1, ProtocolHolds, PTL

\* A viewer has at most one unsettled conversion, whatever the provider answers
\* and whatever dies (_ensure_no_active_operation).
THEOREM OneActive == Spec => []OneActiveOperation
<1>1. ProtocolInv => OneActiveOperation
    BY DEF ProtocolInv
<1>2. QED
    BY <1>1, ProtocolHolds, PTL

\* The outbox event and its operation row never disagree (_mark_outbox,
\* _set_reconciliation, _finalize_failure and the administrator's actions).
THEOREM EventAgrees == Spec => []EventAgreesWithOperation
<1>1. ProtocolInv => EventAgreesWithOperation
    BY DEF ProtocolInv
<1>2. QED
    BY <1>1, ProtocolHolds, PTL

-----------------------------------------------------------------------------
(* What a step may touch *)

\* The step touches at most one operation, and not one that is settled; one
\* that waits for a human is touched by the administrator only.
TouchesOne ==
    \/ UNCHANGED <<op, paid, moved>>
    \/ \E k \in Keys :
          /\ op[k].state \in ActiveStates \union {"none"}
          /\ event[k].state # "reconciliation_required" \/ AdminStep
          /\ \A j \in Keys \ {k} :
                op'[j] = op[j] /\ paid'[j] = paid[j] /\ moved'[j] = moved[j]

\* A step that settles touches the operation it settles.
LEMMA SettlingTouchesOne ==
    ASSUME ProtocolInv, NEW k, NEW s, NEW t, NEW d, Settles(k, s, t, d),
           event[k].state # "reconciliation_required" \/ AdminStep
    PROVE  TouchesOne
<1>1. k \in Keys /\ op[k].state \in ActiveStates
    BY DEF Settles
<1>2. \A j \in Keys \ {k} :
          op'[j] = op[j] /\ paid'[j] = paid[j] /\ moved'[j] = moved[j]
    BY <1>1 DEF Settles, Amends, Moves, Elsewhere, ProtocolInv, TypeOK
<1>3. QED
    BY <1>1, <1>2 DEF TouchesOne

\* A request touches the operation it carries or creates.
LEMMA RequestTouchesOne ==
    ASSUME ProtocolInv, NEW r \in Requests, RequestContinues(r)
    PROVE  TouchesOne
<1> DEFINE k == req[r].key
<1>1. CASE GiveUp(r) \/ SaveOfBuyFails(r) \/ RefundStarts(r)
    BY <1>1 DEF GiveUp, SaveOfBuyFails, RefundStarts, TouchesOne
<1>2. CASE RecordOverCap(r) \/ CreateSell(r) \/ CreateBuy(r)
    <2>1. req[r].pc = "balance" /\ MayCreate(r)
        BY <1>2 DEF RecordOverCap, OverCap, CreateSell, CanSell, CreateBuy, CanBuy
    <2>2. k \in Keys /\ op[k].state = "none" /\ event[k].state # "reconciliation_required"
        BY <2>1 DEF MayCreate, ProtocolInv, RequestWaits, EventAgreesWithOperation, Agrees
    <2>3. \A j \in Keys \ {k} :
              op'[j] = op[j] /\ paid'[j] = paid[j] /\ moved'[j] = moved[j]
        BY <1>2, <2>2 DEF RecordOverCap, CreateSell, CreateBuy, MoveCachedMass, ProtocolInv, TypeOK
    <2>4. QED
        BY <2>2, <2>3 DEF TouchesOne
<1>3. CASE Carrying(r)
    <2>1. /\ k \in Keys /\ op[k].state \in ActiveStates
          /\ event[k].state # "reconciliation_required"
        BY <1>3, CarriedOperation
    <2>2. CASE \E out \in WriteOutcomes : RequestWrites(r, out) \/ RefundWrites(r, out)
        <3>1. \A j \in Keys \ {k} :
                  op'[j] = op[j] /\ paid'[j] = paid[j] /\ moved'[j] = moved[j]
            BY <2>1, <2>2 DEF RequestWrites, RefundWrites, ProviderPut, ProtocolInv, TypeOK
        <3>2. QED
            BY <2>1, <3>1 DEF TouchesOne
    <2>3. CASE CompleteSell(r) \/ CompleteBuy(r) \/ DeclareAmbiguous(r) \/ QueueRetry(r)
        BY <2>1, <2>3, SettlingTouchesOne, CompleteSellSettles, CompleteBuySettles,
           DeclareAmbiguousSettles, QueueRetrySettles
    <2>4. CASE RestoreSell(r) \/ FailBuy(r) \/ SaveOfSellFails(r) \/ RefundRefused(r)
               \/ RefundSettles(r)
        BY <2>1, <2>4, SettlingTouchesOne, RestoreSellSettles, FailBuySettles,
           SaveOfSellFailsSettles, RefundRefusedSettles, RefundSettlesSettles
    <2>5. QED
        BY <1>1, <1>2, <2>2, <2>3, <2>4 DEF RequestContinues
<1>4. QED
    <2>1. ~Carrying(r) => req[r].pc \in {"idle", "balance"}
        BY DEF Carrying, ProtocolInv, TypeOK, Request
    <2>2. ~Carrying(r) => GiveUp(r) \/ RecordOverCap(r) \/ CreateSell(r) \/ CreateBuy(r)
        BY <2>1 DEF RequestContinues, RequestWrites, RefundWrites, CompleteSell, CompleteBuy,
           DeclareAmbiguous, QueueRetry, RestoreSell, FailBuy, SaveOfSellFails,
           SaveOfBuyFails, RefundRefused, RefundStarts, RefundSettles, Learns
    <2>3. QED
        BY <1>1, <1>2, <1>3, <2>2

\* A runner touches the operation it claims or carries.
LEMMA WorkerTouchesOne ==
    ASSUME ProtocolInv, NEW w \in Workers, WorkerStep(w)
    PROVE  TouchesOne
<1>1. Working(w) => /\ worker[w].key \in Keys
                    /\ op[worker[w].key].state \in ActiveStates
                    /\ event[worker[w].key].state # "reconciliation_required"
    BY DEF ProtocolInv, RunnerCarries, ActiveStates
<1>2. ASSUME NEW k \in Keys,
             RecoverExpiredLease(w, k) \/ ClaimUnconfigured(w, k) \/ ClaimRebound(w, k)
      PROVE  TouchesOne
    <2>1. event[k].state # "reconciliation_required"
        BY <1>2 DEF RecoverExpiredLease, ClaimUnconfigured, ClaimRebound, Claimable
    <2>2. QED
        BY <1>2, <2>1, SettlingTouchesOne, RecoverExpiredLeaseSettles,
           ClaimUnconfiguredSettles, ClaimReboundSettles
<1>3. ASSUME NEW k \in Keys, Claim(w, k) PROVE TouchesOne
    <2>1. event[k].state = "pending" /\ op[k].state \in ActiveStates
        BY <1>3, ClaimedOperation DEF Claim, Claimable
    <2>2. \A j \in Keys \ {k} :
              op'[j] = op[j] /\ paid'[j] = paid[j] /\ moved'[j] = moved[j]
        BY <1>3 DEF Claim, ProtocolInv, TypeOK
    <2>3. QED
        BY <2>1, <2>2 DEF TouchesOne
<1>4. CASE WorkerReads(w)
    BY <1>4 DEF WorkerReads, TouchesOne
<1>5. ASSUME NEW out \in WriteOutcomes, WorkerWrites(w, out) PROVE TouchesOne
    <2>1. Working(w)
        BY <1>5 DEF WorkerWrites, Working
    <2>2. \A j \in Keys \ {worker[w].key} :
              op'[j] = op[j] /\ paid'[j] = paid[j] /\ moved'[j] = moved[j]
        BY <1>1, <1>5, <2>1 DEF WorkerWrites, ProviderPut, ProtocolInv, TypeOK
    <2>3. QED
        BY <1>1, <2>1, <2>2 DEF TouchesOne
<1>6. CASE WorkerCompletes(w) \/ WorkerAmbiguous(w) \/ ScheduleRetry(w) \/ DeadLetter(w)
    <2>1. Working(w)
        BY <1>6 DEF WorkerCompletes, WorkerAmbiguous, ScheduleRetry, DeadLetter, Working
    <2>2. QED
        BY <1>1, <1>6, <2>1, SettlingTouchesOne, WorkerCompletesSettles,
           WorkerAmbiguousSettles, ScheduleRetrySettles, DeadLetterSettles
<1>7. QED
    BY <1>2, <1>3, <1>4, <1>5, <1>6 DEF WorkerStep

\* Every step of the system touches at most one unsettled operation.
LEMMA StepTouchesOne ==
    ASSUME ProtocolInv, [Next]_vars
    PROVE  TouchesOne
<1>1. ASSUME NEW r \in Requests, NEW k \in Keys, NEW u \in Users,
             NEW kind \in {"sell", "buy"}, NEW arg \in Args, Begin(r, k, u, kind, arg)
      PROVE  TouchesOne
    BY <1>1 DEF Begin, TouchesOne
<1>2. ASSUME NEW k \in Keys,
             AdminRetry(k) \/ AdminComplete(k) \/ AdminCompensate(k) \/ AdminDeadLetter(k)
      PROVE  TouchesOne
    BY <1>2, SettlingTouchesOne, AdminRetrySettles, AdminCompleteSettles,
       AdminCompensateSettles, AdminDeadLetterSettles DEF AdminStep
<1>3. CASE (\E u \in Users : LockExpires(u)) \/ Environment \/ UNCHANGED vars
    BY <1>3 DEF LockExpires, Environment, Crash, WorkerCrash, Catch, Earn, vars, TouchesOne
<1>4. QED
    BY <1>1, <1>2, <1>3, RequestTouchesOne, WorkerTouchesOne DEF Next, AdminStep

\* A settled conversion stays settled, whatever answer, retry or recovery comes
\* late.
THEOREM SettledStaysSettled == Spec => SettledIsFinal
<1>1. ProtocolInv /\ [Next]_vars =>
          [\A k \in Keys : op[k].state \in OpStates \ (ActiveStates \union {"none"})
              => op'[k] = op[k] /\ paid'[k] = paid[k] /\ moved'[k] = moved[k]]_vars
    BY StepTouchesOne DEF TouchesOne, vars
<1>2. QED
    BY <1>1, ProtocolHolds, PTL DEF Spec, SettledIsFinal

\* What is left to a human stays untouched until the human acts.
THEOREM HumansSettleAmbiguity == Spec => AmbiguityIsLeftToHumans
<1>1. ProtocolInv /\ [Next]_vars =>
          [\A k \in Keys : Unsettled(k) /\ op'[k] # op[k] => AdminStep]_vars
    BY StepTouchesOne DEF TouchesOne, Unsettled, vars
<1>2. QED
    BY <1>1, ProtocolHolds, PTL DEF Spec, AmbiguityIsLeftToHumans

-----------------------------------------------------------------------------
(* The settlement invariant, with a provider whose replies are clean *)

\* What a request may conclude from what it learned of its write.
LEMMA RequestLearnsTruth ==
    ASSUME CleanProvider, ProtocolInv, SettlementInv, NEW r \in Requests, NEW verdict,
           Learns(r, verdict)
    PROVE  /\ verdict = "confirmed" => paid[req[r].key] = 1
           /\ verdict \in {"notSent", "rateLimited", "rejected"} => paid[req[r].key] = 0
<1>1. /\ Carrying(r) /\ req[r].pc = "answered" /\ req[r].out \in WriteOutcomes
      /\ \E read \in ReadOutcomes : Verdict(req[r].out, read) = verdict
    BY DEF Learns, Carrying, RequestSteps, ProtocolInv, RequestCarries
<1>2. paid[req[r].key] = Count(req[r].out \in AppliedOutcomes)
    BY <1>1 DEF SettlementInv, CarrierKnowsPaid, Count
<1>3. /\ verdict = "confirmed" => req[r].out \in {"ok", "bare"}
      /\ verdict \in {"notSent", "rateLimited", "rejected"} =>
            req[r].out \in UnappliedOutcomes
    BY <1>1, SagaAssumption DEF CleanProvider, Verdict, AppliedOutcomes, UnappliedOutcomes
<1>4. QED
    BY <1>2, <1>3 DEF Count, AppliedOutcomes, UnappliedOutcomes

\* What the worker may conclude.
LEMMA WorkerLearnsTruth ==
    ASSUME CleanProvider, ProtocolInv, SettlementInv, NEW w \in Workers,
           worker[w].pc = "answered"
    PROVE  /\ WorkerVerdict(w) = "confirmed" => paid[worker[w].key] = 1
           /\ WorkerVerdict(w) \in {"notSent", "rateLimited", "rejected"} =>
                 paid[worker[w].key] = 0
<1>1. Working(w) /\ worker[w].out \in WriteOutcomes
    BY DEF Working, ProtocolInv, RunnerCarries
<1>2. paid[worker[w].key] = Count(worker[w].out \in AppliedOutcomes)
    BY <1>1 DEF SettlementInv, CarrierKnowsPaid, Count
<1>3. /\ WorkerVerdict(w) = "confirmed" => worker[w].out \in {"ok", "bare"}
      /\ WorkerVerdict(w) \in {"notSent", "rateLimited", "rejected"} =>
            worker[w].out \in UnappliedOutcomes
    BY <1>1, SagaAssumption
    DEF CleanProvider, WorkerVerdict, Verdict, AppliedOutcomes, UnappliedOutcomes
<1>4. QED
    BY <1>2, <1>3 DEF Count, AppliedOutcomes, UnappliedOutcomes

\* Who carries an operation goes on knowing what the provider did when the
\* provider does nothing and nobody carries what it did not carry.
LEMMA SameCarriersKnow ==
    ASSUME CarrierKnowsPaid, paid' = paid,
           \A q \in Requests : Carrying(q)' => Carrying(q) /\ req'[q] = req[q],
           \A v \in Workers : Working(v)' => Working(v) /\ worker'[v] = worker[v]
    PROVE  CarrierKnowsPaid'
<1>1. ASSUME NEW q \in Requests, Carrying(q)' PROVE CarrierKnowsPaid!1!(q)'
    <2>1. Carrying(q) /\ req'[q] = req[q]
        BY <1>1
    <2>2. QED
        BY <2>1 DEF CarrierKnowsPaid
<1>2. ASSUME NEW v \in Workers, Working(v)' PROVE CarrierKnowsPaid!2!(v)'
    <2>1. Working(v) /\ worker'[v] = worker[v]
        BY <1>2
    <2>2. QED
        BY <2>1 DEF CarrierKnowsPaid
<1>3. QED
    BY <1>1, <1>2 DEF CarrierKnowsPaid

\* Settling an operation in the state its provider side calls for preserves the
\* settlement invariant.
LEMMA SettlingKeepsSettlement ==
    ASSUME ProtocolInv, SettlementInv, NEW k, NEW s, NEW t, NEW d, Settles(k, s, t, d),
           s = "completed" => paid[k] = 1,
           s \in {"queued", "pending", "compensated", "failed"} => paid[k] = 0
    PROVE  SettlementInv'
<1>1. /\ k \in Keys /\ s # "none" /\ paid' = paid /\ op'[k].state = s
      /\ \A j \in Keys \ {k} : op'[j] = op[j]
    BY DEF Settles, Amends, Elsewhere, ProtocolInv, TypeOK
<1>2. \A q \in Requests : Carrying(q)' => Carrying(q) /\ req'[q] = req[q]
    BY DEF Settles, LetsGo, Carrying, IdleRequest, RequestSteps
<1>3. \A v \in Workers : Working(v)' => Working(v) /\ worker'[v] = worker[v]
    BY DEF Settles, LetsGo, Working, IdleRunner
<1>4. CarrierKnowsPaid'
    BY <1>1, <1>2, <1>3, SameCarriersKnow DEF SettlementInv
<1>5. PaidByState'
    BY <1>1 DEF SettlementInv, PaidByState
<1>6. QED
    BY <1>4, <1>5 DEF SettlementInv

\* Steps that leave the provider alone and let nobody carry what it did not
\* carry in the same place preserve the settlement invariant.
LEMMA QuietKeepsSettlement ==
    ASSUME ProtocolInv, SettlementInv, UNCHANGED <<op, paid>>,
           \A q \in Requests : Carrying(q)' => Carrying(q) /\ req'[q] = req[q],
           \A v \in Workers : Working(v)' => Working(v) /\ worker'[v] = worker[v]
    PROVE  SettlementInv'
<1>1. CarrierKnowsPaid'
    BY SameCarriersKnow DEF SettlementInv
<1>2. PaidByState'
    BY DEF SettlementInv, PaidByState
<1>3. QED
    BY <1>1, <1>2 DEF SettlementInv

\* A request that goes on carrying its operation knows what the provider did.
LEMMA CarryingKeepsSettlement ==
    ASSUME ProtocolInv, SettlementInv, NEW r \in Requests, Carrying(r),
           UNCHANGED <<op, worker>>, NEW q, req' = [req EXCEPT ![r] = q],
           q.key = req[r].key, NEW n \in {0, 1},
           paid' = [paid EXCEPT ![req[r].key] = n],
           n = Count(\/ q.pc \in {"refundRead", "refundWrite"}
                     \/ q.pc = "answered" /\ q.out \in AppliedOutcomes
                     \/ q.pc = "refunded" /\ q.out \notin AppliedOutcomes)
    PROVE  SettlementInv'
<1> DEFINE k == req[r].key
<1>1. k \in Keys /\ op[k].state \in {"processing", "external_pending"}
    BY CarriedOperation
<1>2. /\ paid'[k] = n /\ \A j \in Keys \ {k} : paid'[j] = paid[j]
      /\ req'[r] = q /\ \A p \in Requests \ {r} : req'[p] = req[p]
    BY <1>1 DEF ProtocolInv, TypeOK
<1>3. /\ \A p \in Requests \ {r} : Carrying(p) => req[p].key \in Keys \ {k}
      /\ \A v \in Workers : Working(v) => worker[v].key \in Keys \ {k}
    BY DEF ProtocolInv, OneCarrier, RequestCarries, RunnerCarries
<1>4. CarrierKnowsPaid'
    <2>1. ASSUME NEW p \in Requests, Carrying(p)' PROVE CarrierKnowsPaid!1!(p)'
        <3>1. CASE p = r
            BY <1>2, <3>1
        <3>2. CASE p # r
            <4>1. req'[p] = req[p] /\ Carrying(p)
                BY <1>2, <2>1, <3>2 DEF Carrying
            <4>2. paid'[req[p].key] = paid[req[p].key]
                BY <1>2, <1>3, <3>2, <4>1
            <4>3. QED
                BY <4>1, <4>2 DEF SettlementInv, CarrierKnowsPaid
        <3>3. QED
            BY <3>1, <3>2
    <2>2. ASSUME NEW v \in Workers, Working(v)' PROVE CarrierKnowsPaid!2!(v)'
        <3>1. worker'[v] = worker[v] /\ Working(v)
            BY <2>2 DEF Working
        <3>2. paid'[worker[v].key] = paid[worker[v].key]
            BY <1>2, <1>3, <3>1
        <3>3. QED
            BY <3>1, <3>2 DEF SettlementInv, CarrierKnowsPaid
    <2>3. QED
        BY <2>1, <2>2 DEF CarrierKnowsPaid
<1>5. PaidByState'
    BY <1>1, <1>2 DEF SettlementInv, PaidByState
<1>6. QED
    BY <1>4, <1>5 DEF SettlementInv

\* No step of a request breaks the settlement invariant.
LEMMA RequestKeepsSettlement ==
    ASSUME CleanProvider, ProtocolInv, SettlementInv, NEW r \in Requests,
           RequestContinues(r)
    PROVE  SettlementInv'
<1> DEFINE k == req[r].key
<1>1. CASE GiveUp(r)
    <2>1. \A p \in Requests : req'[p] = IF p = r THEN IdleRequest ELSE req[p]
        BY <1>1 DEF GiveUp, Finish, ProtocolInv, TypeOK
    <2>2. UNCHANGED <<op, paid, worker>>
        BY <1>1 DEF GiveUp
    <2>3. QED
        BY <2>1, <2>2, QuietKeepsSettlement DEF Carrying, Working, IdleRequest
<1>2. CASE RecordOverCap(r) \/ CreateSell(r) \/ CreateBuy(r)
    <2>1. req[r].pc = "balance" /\ MayCreate(r)
        BY <1>2 DEF RecordOverCap, OverCap, CreateSell, CanSell, CreateBuy, CanBuy
    <2>2. k \in Keys /\ op[k].state = "none" /\ paid[k] = 0 /\ event[k].state # "processing"
        BY <2>1 DEF MayCreate, ProtocolInv, RequestWaits, EventAgreesWithOperation, Agrees,
                    SettlementInv, PaidByState
    <2>3. /\ UNCHANGED <<paid, worker>> /\ op'[k].state # "completed"
          /\ \A j \in Keys \ {k} : op'[j] = op[j]
        BY <1>2, <2>2 DEF RecordOverCap, CreateSell, CreateBuy, NewOperation, ProtocolInv, TypeOK
    <2>a. req[r] \in Request
        BY DEF ProtocolInv, TypeOK
    <2>4. /\ \A p \in Requests \ {r} : req'[p] = req[p]
          /\ Carrying(r)' => req'[r].key = k /\ req'[r].pc = "write"
        <3>1. CASE RecordOverCap(r)
            BY <3>1 DEF RecordOverCap, Finish, Carrying, IdleRequest, ProtocolInv, TypeOK
        <3>2. CASE CreateSell(r)
            <4> DEFINE left == Clamped(req[r].snap - SellMass(r))
                       q == [req[r] EXCEPT !.pc = "write", !.snap = left]
            <4>1. q.key = k /\ q.pc = "write" /\ req' = [req EXCEPT ![r] = q]
                BY <2>a, <3>2 DEF CreateSell, Request
            <4> HIDE DEF q
            <4>2. QED
                BY <4>1 DEF ProtocolInv, TypeOK
        <3>3. CASE CreateBuy(r)
            <4> DEFINE q == [req[r] EXCEPT !.pc = "write"]
            <4>1. q.key = k /\ q.pc = "write" /\ req' = [req EXCEPT ![r] = q]
                BY <2>a, <3>3 DEF CreateBuy, Request
            <4> HIDE DEF q
            <4>2. QED
                BY <4>1 DEF ProtocolInv, TypeOK
        <3>4. QED
            BY <1>2, <3>1, <3>2, <3>3
    <2>5. CarrierKnowsPaid'
        BY <2>2, <2>3, <2>4 DEF SettlementInv, CarrierKnowsPaid, Carrying, Working, Count
    <2>6. PaidByState'
        BY <2>2, <2>3 DEF SettlementInv, PaidByState
    <2>7. QED
        BY <2>5, <2>6 DEF SettlementInv
<1>3. ASSUME NEW out \in WriteOutcomes, RequestWrites(r, out) PROVE SettlementInv'
    <2> DEFINE q == [req[r] EXCEPT !.pc = "answered", !.out = out]
               n == Count(out \in AppliedOutcomes)
    <2>1. Carrying(r) /\ req[r].pc = "write" /\ req[r] \in Request /\ k \in Keys
        BY <1>3, CarriedOperation DEF RequestWrites, Carrying, RequestSteps, ProtocolInv, TypeOK
    <2>2. paid[k] = 0
        BY <2>1 DEF SettlementInv, CarrierKnowsPaid, Count
    <2>3. req' = [req EXCEPT ![r] = q] /\ UNCHANGED <<op, worker>>
        BY <1>3 DEF RequestWrites
    <2>4. paid' = [paid EXCEPT ![k] = n] /\ n \in {0, 1}
        BY <1>3, <2>1, <2>2 DEF RequestWrites, ProviderPut, Count, ProtocolInv, TypeOK
    <2>5. q.pc = "answered" /\ q.out = out /\ q.key = k
        BY <2>1 DEF Request
    <2>6. n = Count(\/ q.pc \in {"refundRead", "refundWrite"}
                    \/ q.pc = "answered" /\ q.out \in AppliedOutcomes
                    \/ q.pc = "refunded" /\ q.out \notin AppliedOutcomes)
        BY <2>5 DEF Count
    <2> HIDE DEF q, n
    <2>7. QED
        BY <2>1, <2>3, <2>4, <2>5, <2>6, CarryingKeepsSettlement
<1>4. ASSUME NEW out \in WriteOutcomes, RefundWrites(r, out) PROVE SettlementInv'
    <2> DEFINE q == [req[r] EXCEPT !.pc = "refunded", !.out = out]
               n == Count(out \notin AppliedOutcomes)
    <2>1. Carrying(r) /\ req[r].pc = "refundWrite" /\ req[r] \in Request /\ k \in Keys
        BY <1>4, CarriedOperation DEF RefundWrites, Carrying, RequestSteps, ProtocolInv, TypeOK
    <2>2. paid[k] = 1
        BY <2>1 DEF SettlementInv, CarrierKnowsPaid, Count
    <2>3. req' = [req EXCEPT ![r] = q] /\ UNCHANGED <<op, worker>>
        BY <1>4 DEF RefundWrites
    <2>4. paid' = [paid EXCEPT ![k] = n] /\ n \in {0, 1}
        BY <1>4, <2>1, <2>2 DEF RefundWrites, ProviderPut, Count, ProtocolInv, TypeOK
    <2>5. q.pc = "refunded" /\ q.out = out /\ q.key = k
        BY <2>1 DEF Request
    <2>6. n = Count(\/ q.pc \in {"refundRead", "refundWrite"}
                    \/ q.pc = "answered" /\ q.out \in AppliedOutcomes
                    \/ q.pc = "refunded" /\ q.out \notin AppliedOutcomes)
        BY <2>5 DEF Count
    <2> HIDE DEF q, n
    <2>7. QED
        BY <2>1, <2>3, <2>4, <2>5, <2>6, CarryingKeepsSettlement
<1>5. CASE SaveOfBuyFails(r) \/ RefundStarts(r)
    <2>1. /\ Carrying(r) /\ req[r] \in Request /\ k \in Keys /\ paid[k] = 1
          /\ UNCHANGED <<op, worker, paid>>
        <3>1. CASE SaveOfBuyFails(r)
            BY <3>1, RequestLearnsTruth, CarriedOperation
            DEF SaveOfBuyFails, Learns, Carrying, RequestSteps, ProtocolInv, TypeOK
        <3>2. CASE RefundStarts(r)
            BY <3>2, CarriedOperation
            DEF RefundStarts, Carrying, RequestSteps, ProtocolInv, TypeOK, SettlementInv,
                CarrierKnowsPaid, Count
        <3>3. QED
            BY <1>5, <3>1, <3>2
    <2>2. paid' = [paid EXCEPT ![k] = 1]
        BY <2>1 DEF ProtocolInv, TypeOK
    <2>3. PICK q : /\ req' = [req EXCEPT ![r] = q] /\ q.key = k
                   /\ q.pc \in {"refundRead", "refundWrite"}
        <3>1. CASE SaveOfBuyFails(r)
            <4> DEFINE q == [req[r] EXCEPT !.pc = "refundRead", !.out = "none"]
            <4>1. q.key = k /\ q.pc = "refundRead" /\ req' = [req EXCEPT ![r] = q]
                BY <2>1, <3>1 DEF SaveOfBuyFails, Request
            <4>2. QED
                BY <4>1
        <3>2. CASE RefundStarts(r)
            <4> DEFINE q == [req[r] EXCEPT !.pc = "refundWrite"]
            <4>1. q.key = k /\ q.pc = "refundWrite" /\ req' = [req EXCEPT ![r] = q]
                BY <2>1, <3>2 DEF RefundStarts, Request
            <4>2. QED
                BY <4>1
        <3>3. QED
            BY <1>5, <3>1, <3>2
    <2>4. 1 = Count(\/ q.pc \in {"refundRead", "refundWrite"}
                    \/ q.pc = "answered" /\ q.out \in AppliedOutcomes
                    \/ q.pc = "refunded" /\ q.out \notin AppliedOutcomes)
        BY <2>3 DEF Count
    <2>5. QED
        BY <2>1, <2>2, <2>3, <2>4, CarryingKeepsSettlement
<1>6. CASE CompleteSell(r) \/ CompleteBuy(r)
    <2>1. paid[k] = 1
        BY <1>6, RequestLearnsTruth DEF CompleteSell, CompleteBuy
    <2>2. \E d : Settles(k, "completed", "processed", d)
        BY <1>6, CompleteSellSettles, CompleteBuySettles
    <2>3. QED
        BY <2>1, <2>2, SettlingKeepsSettlement
<1>7. CASE QueueRetry(r)
    <2>1. paid[k] = 0
        BY <1>7, RequestLearnsTruth DEF QueueRetry, SafeRetry
    <2>2. QED
        BY <1>7, <2>1, QueueRetrySettles, SettlingKeepsSettlement
<1>8. CASE RestoreSell(r) \/ FailBuy(r)
    <2>1. paid[k] = 0
        BY <1>8, RequestLearnsTruth DEF RestoreSell, FailBuy
    <2>2. QED
        BY <1>8, <2>1, RestoreSellSettles, FailBuySettles, SettlingKeepsSettlement
<1>9. CASE DeclareAmbiguous(r) \/ SaveOfSellFails(r) \/ RefundRefused(r)
    BY <1>9, DeclareAmbiguousSettles, SaveOfSellFailsSettles, RefundRefusedSettles,
       SettlingKeepsSettlement
<1>10. CASE RefundSettles(r)
    <2>1. RefundVerdict(r) # "completed" /\ (RefundVerdict(r) = "compensated" => paid[k] = 0)
          /\ RefundVerdict(r) \in {"compensated", "reconciliation_required"}
        BY <1>10 DEF RefundSettles, RefundVerdict, Carrying, RequestSteps, SettlementInv,
                     CarrierKnowsPaid, Count, AppliedOutcomes
    <2>2. QED
        BY <1>10, <2>1, RefundSettlesSettles, SettlingKeepsSettlement
<1>11. QED
    BY <1>1, <1>2, <1>3, <1>4, <1>5, <1>6, <1>7, <1>8, <1>9, <1>10 DEF RequestContinues

\* A runner that goes on carrying its operation knows what the provider did.
LEMMA WorkingKeepsSettlement ==
    ASSUME ProtocolInv, SettlementInv, NEW w \in Workers, Working(w),
           UNCHANGED <<op, req>>, NEW x, worker' = [worker EXCEPT ![w] = x],
           x.key = worker[w].key, NEW n \in {0, 1},
           paid' = [paid EXCEPT ![worker[w].key] = n],
           n = Count(x.pc = "answered" /\ x.out \in AppliedOutcomes)
    PROVE  SettlementInv'
<1> DEFINE k == worker[w].key
<1>1. k \in Keys /\ op[k].state = "processing"
    BY DEF ProtocolInv, RunnerCarries
<1>2. /\ paid'[k] = n /\ \A j \in Keys \ {k} : paid'[j] = paid[j]
      /\ worker'[w] = x /\ \A v \in Workers \ {w} : worker'[v] = worker[v]
    BY <1>1 DEF ProtocolInv, TypeOK
<1>3. /\ \A q \in Requests : Carrying(q) => req[q].key \in Keys \ {k}
      /\ \A v \in Workers \ {w} : Working(v) => worker[v].key \in Keys \ {k}
    BY DEF ProtocolInv, OneCarrier, RequestCarries, RunnerCarries
<1>4. CarrierKnowsPaid'
    <2>1. ASSUME NEW q \in Requests, Carrying(q)' PROVE CarrierKnowsPaid!1!(q)'
        <3>1. req'[q] = req[q] /\ Carrying(q)
            BY <2>1 DEF Carrying
        <3>2. paid'[req[q].key] = paid[req[q].key]
            BY <1>2, <1>3, <3>1
        <3>3. QED
            BY <3>1, <3>2 DEF SettlementInv, CarrierKnowsPaid
    <2>2. ASSUME NEW v \in Workers, Working(v)' PROVE CarrierKnowsPaid!2!(v)'
        <3>1. CASE v = w
            BY <1>2, <3>1
        <3>2. CASE v # w
            <4>1. worker'[v] = worker[v] /\ Working(v)
                BY <1>2, <2>2, <3>2 DEF Working
            <4>2. paid'[worker[v].key] = paid[worker[v].key]
                BY <1>2, <1>3, <3>2, <4>1
            <4>3. QED
                BY <4>1, <4>2 DEF SettlementInv, CarrierKnowsPaid
        <3>3. QED
            BY <3>1, <3>2
    <2>3. QED
        BY <2>1, <2>2 DEF CarrierKnowsPaid
<1>5. PaidByState'
    BY <1>1, <1>2 DEF SettlementInv, PaidByState
<1>6. QED
    BY <1>4, <1>5 DEF SettlementInv

\* A runner that claims an operation knows that it has not been paid.
LEMMA ClaimKeepsSettlement ==
    ASSUME ProtocolInv, SettlementInv, NEW w \in Workers, NEW k \in Keys, Claim(w, k)
    PROVE  SettlementInv'
<1> DEFINE x == [pc |-> "balance", key |-> k, out |-> "none"]
<1>1. event[k].state = "pending" /\ paid[k] = 0
    BY DEF Claim, Claimable, ProtocolInv, EventAgreesWithOperation, Agrees, SettlementInv, PaidByState
<1>2. /\ UNCHANGED <<req, paid>> /\ worker' = [worker EXCEPT ![w] = x]
      /\ op'[k].state = "processing" /\ \A j \in Keys \ {k} : op'[j] = op[j]
    BY DEF Claim, ProtocolInv, TypeOK, Operation
<1>3. worker'[w] = x /\ \A v \in Workers \ {w} : worker'[v] = worker[v]
    BY <1>2 DEF ProtocolInv, TypeOK
<1>4. CarrierKnowsPaid'
    BY <1>1, <1>2, <1>3 DEF SettlementInv, CarrierKnowsPaid, Carrying, Working, Count
<1>5. PaidByState'
    BY <1>1, <1>2 DEF SettlementInv, PaidByState
<1>6. QED
    BY <1>4, <1>5 DEF SettlementInv

\* No step of a runner breaks the settlement invariant.
LEMMA WorkerKeepsSettlement ==
    ASSUME CleanProvider, ProtocolInv, SettlementInv, NEW w \in Workers, WorkerStep(w)
    PROVE  SettlementInv'
<1> DEFINE k == worker[w].key
<1>a. \A j \in Keys : FailedState(j) \in {"compensated", "failed"}
    BY DEF FailedState
<1>b. Working(w) => k \in Keys
    BY DEF ProtocolInv, RunnerCarries
<1>c. worker[w].pc = "balance" => paid[k] = 0
    BY DEF SettlementInv, CarrierKnowsPaid, Working, Count
<1>1. ASSUME NEW j \in Keys, RecoverExpiredLease(w, j) \/ ClaimRebound(w, j)
      PROVE  SettlementInv'
    BY <1>1, RecoverExpiredLeaseSettles, ClaimReboundSettles, SettlingKeepsSettlement
<1>2. ASSUME NEW j \in Keys, ClaimUnconfigured(w, j) PROVE SettlementInv'
    <2>1. paid[j] = 0
        BY <1>2 DEF ClaimUnconfigured, Claimable, ProtocolInv, EventAgreesWithOperation, Agrees,
                    SettlementInv, PaidByState
    <2>2. QED
        BY <1>2, <1>a, <2>1, ClaimUnconfiguredSettles, SettlingKeepsSettlement
<1>3. ASSUME NEW j \in Keys, Claim(w, j) PROVE SettlementInv'
    BY <1>3, ClaimKeepsSettlement
<1>4. CASE WorkerReads(w)
    <2> DEFINE x == [worker[w] EXCEPT !.pc = "write"]
    <2>1. Working(w) /\ worker[w] \in Runner /\ k \in Keys /\ paid[k] = 0
        BY <1>4, <1>b, <1>c DEF WorkerReads, Working, ProtocolInv, TypeOK
    <2>2. /\ worker' = [worker EXCEPT ![w] = x] /\ UNCHANGED <<op, req>>
          /\ paid' = [paid EXCEPT ![k] = 0]
        BY <1>4, <2>1 DEF WorkerReads, ProtocolInv, TypeOK
    <2>3. x.key = k /\ x.pc = "write"
        BY <2>1 DEF Runner
    <2> HIDE DEF x
    <2>4. 0 = Count(x.pc = "answered" /\ x.out \in AppliedOutcomes)
        BY <2>3 DEF Count
    <2>5. QED
        BY <2>1, <2>2, <2>3, <2>4, WorkingKeepsSettlement
<1>5. ASSUME NEW out \in WriteOutcomes, WorkerWrites(w, out) PROVE SettlementInv'
    <2> DEFINE x == [worker[w] EXCEPT !.pc = "answered", !.out = out]
               n == Count(out \in AppliedOutcomes)
    <2>1. Working(w) /\ worker[w].pc = "write" /\ worker[w] \in Runner /\ k \in Keys
        BY <1>5, <1>b DEF WorkerWrites, Working, ProtocolInv, TypeOK
    <2>2. paid[k] = 0
        BY <2>1 DEF SettlementInv, CarrierKnowsPaid, Count
    <2>3. worker' = [worker EXCEPT ![w] = x] /\ UNCHANGED <<op, req>>
        BY <1>5 DEF WorkerWrites
    <2>4. paid' = [paid EXCEPT ![k] = n] /\ n \in {0, 1}
        BY <1>5, <2>1, <2>2 DEF WorkerWrites, ProviderPut, Count, ProtocolInv, TypeOK
    <2>5. x.pc = "answered" /\ x.out = out /\ x.key = k
        BY <2>1 DEF Runner
    <2>6. n = Count(x.pc = "answered" /\ x.out \in AppliedOutcomes)
        BY <2>5 DEF Count
    <2> HIDE DEF x, n
    <2>7. QED
        BY <2>1, <2>3, <2>4, <2>5, <2>6, WorkingKeepsSettlement
<1>6. CASE WorkerCompletes(w)
    <2>1. paid[k] = 1
        BY <1>6, WorkerLearnsTruth DEF WorkerCompletes
    <2>2. Settles(k, "completed", "processed", ConfirmedMove(k))
        BY <1>6, WorkerCompletesSettles
    <2>3. QED
        BY <2>1, <2>2, SettlingKeepsSettlement
<1>7. CASE WorkerAmbiguous(w)
    BY <1>7, WorkerAmbiguousSettles, SettlingKeepsSettlement
<1>8. CASE ScheduleRetry(w) \/ DeadLetter(w)
    <2>1. k \in Keys /\ paid[k] = 0
        BY <1>8, <1>b, <1>c, WorkerLearnsTruth DEF ScheduleRetry, DeadLetter, SafeRetry, Working
    <2>2. \/ Settles(k, "pending", "pending", 0)
          \/ Settles(k, FailedState(k), "dead_letter", FailedMove(k))
        BY <1>8, ScheduleRetrySettles, DeadLetterSettles
    <2>3. QED
        BY <1>a, <2>1, <2>2, SettlingKeepsSettlement
<1>9. QED
    BY <1>1, <1>2, <1>3, <1>4, <1>5, <1>6, <1>7, <1>8 DEF WorkerStep

\* No decision of the administrator breaks the settlement invariant.
LEMMA AdminKeepsSettlement ==
    ASSUME ProtocolInv, SettlementInv, AdminStep
    PROVE  SettlementInv'
<1>1. ASSUME NEW k \in Keys, AdminRetry(k) \/ AdminCompensate(k) PROVE SettlementInv'
    <2>1. paid[k] = 0
        BY <1>1 DEF AdminRetry, AdminCompensate
    <2>2. QED
        BY <1>1, <2>1, AdminRetrySettles, AdminCompensateSettles, SettlingKeepsSettlement
<1>2. ASSUME NEW k \in Keys, AdminComplete(k) PROVE SettlementInv'
    <2>1. paid[k] = 1
        BY <1>2 DEF AdminComplete
    <2>2. QED
        BY <1>2, <2>1, AdminCompleteSettles, SettlingKeepsSettlement
<1>3. ASSUME NEW k \in Keys, AdminDeadLetter(k) PROVE SettlementInv'
    BY <1>3, AdminDeadLetterSettles, SettlingKeepsSettlement
<1>4. QED
    BY <1>1, <1>2, <1>3 DEF AdminStep

\* Nothing else touches an operation or the provider's record of it.
LEMMA OutsideKeepsSettlement ==
    ASSUME ProtocolInv, SettlementInv,
           \/ \E r \in Requests, k \in Keys, u \in Users, kind \in {"sell", "buy"},
                 arg \in Args : Begin(r, k, u, kind, arg)
           \/ \E u \in Users : LockExpires(u)
           \/ Environment
           \/ UNCHANGED vars
    PROVE  SettlementInv'
<1>1. UNCHANGED <<op, paid>>
    BY DEF Begin, LockExpires, Environment, Crash, WorkerCrash, Catch, Earn, vars
<1>2. \A q \in Requests : Carrying(q)' => Carrying(q) /\ req'[q] = req[q]
    BY DEF Begin, LockExpires, Environment, Crash, WorkerCrash, Catch, Earn, vars, Carrying,
           IdleRequest, RequestSteps, ProtocolInv, TypeOK
<1>3. \A v \in Workers : Working(v)' => Working(v) /\ worker'[v] = worker[v]
    BY DEF Begin, LockExpires, Environment, Crash, WorkerCrash, Rest, Catch, Earn, vars,
           Working, IdleRunner, ProtocolInv, TypeOK
<1>4. QED
    BY <1>1, <1>2, <1>3, QuietKeepsSettlement

\* In the beginning nothing is paid.
LEMMA SettlementInit == Init => SettlementInv
<1> SUFFICES ASSUME Init PROVE SettlementInv
    OBVIOUS
<1>1. /\ \A r \in Requests : ~Carrying(r)
      /\ \A w \in Workers : ~Working(w)
    BY DEF Init, Carrying, Working, IdleRequest, IdleRunner
<1>2. \A k \in Keys : paid[k] = 0 /\ op[k].state = "none"
    BY DEF Init, NoOperation
<1>3. QED
    BY <1>1, <1>2 DEF SettlementInv, CarrierKnowsPaid, PaidByState

\* No step of the system breaks the settlement invariant.
LEMMA SettlementStep ==
    ASSUME CleanProvider
    PROVE  ProtocolInv /\ SettlementInv /\ [Next]_vars => SettlementInv'
<1> SUFFICES ASSUME ProtocolInv, SettlementInv, [Next]_vars PROVE SettlementInv'
    OBVIOUS
<1>1. CASE \E r \in Requests : RequestContinues(r)
    BY <1>1, RequestKeepsSettlement
<1>2. CASE \E w \in Workers : WorkerStep(w)
    BY <1>2, WorkerKeepsSettlement
<1>3. CASE AdminStep
    BY <1>3, AdminKeepsSettlement
<1>4. QED
    BY <1>1, <1>2, <1>3, OutsideKeepsSettlement DEF Next

\* The whole invariant, with a provider whose replies are clean.
LEMMA SagaHolds ==
    ASSUME CleanProvider
    PROVE  Spec => []SagaInv
<1>1. Init => SagaInv
    BY ProtocolInit, SettlementInit DEF SagaInv
<1>2. SagaInv /\ [Next]_vars => SagaInv'
    BY ProtocolStep, SettlementStep DEF SagaInv
<1>3. QED
    BY <1>1, <1>2, PTL DEF Spec

\* Whatever requests, retries, crashes and decisions interleave, a conversion
\* that is over happened on both sides or on neither, provided that the replies
\* of the provider tell an applied write from a refused one.
THEOREM SettlementIsAtomic ==
    ASSUME CleanProvider
    PROVE  Spec => []AtomicSettlement
<1>1. SagaInv => AtomicSettlement
    <2> SUFFICES ASSUME SagaInv, NEW k \in Keys PROVE AtomicSettlement!(k)
        BY DEF AtomicSettlement
    <2>1. op[k] \in Operation /\ moved[k] \in Int
        BY DEF SagaInv, ProtocolInv, TypeOK
    <2>2. op[k].state # "none" => op[k].kind \in {"sell", "buy"}
        BY <2>1 DEF SagaInv, ProtocolInv, MovedByState, Operation
    <2>3. /\ op[k].state = "completed" => paid[k] = 1
          /\ op[k].state \in {"compensated", "failed"} => paid[k] = 0
        BY DEF SagaInv, SettlementInv, PaidByState
    <2>4. /\ op[k].state = "completed" => moved[k] = 1
          /\ op[k].state \in {"compensated", "failed"} => moved[k] = 0
        BY <2>2 DEF SagaInv, ProtocolInv, MovedByState, Count
    <2>5. QED
        BY <2>3, <2>4
<1>2. QED
    BY <1>1, SagaHolds, PTL

\* Nobody ever holds both sides of a conversion, with the same proviso.
THEOREM NobodyHoldsBothSides ==
    ASSUME CleanProvider
    PROVE  Spec => []NeverBothSides
<1>1. SagaInv => NeverBothSides
    <2> SUFFICES ASSUME SagaInv, NEW k \in Keys PROVE NeverBothSides!(k)
        BY DEF NeverBothSides
    <2>1. op[k] \in Operation /\ moved[k] \in Int
        BY DEF SagaInv, ProtocolInv, TypeOK
    <2>2. op[k].kind \in {"none", "sell", "buy"}
        BY <2>1 DEF Operation
    <2>3. /\ op[k].kind = "none" => moved[k] = 0
          /\ op[k].kind = "sell" => moved[k] = Count(op[k].state \notin {"compensated", "failed"})
          /\ op[k].kind = "buy" => moved[k] = Count(op[k].state = "completed")
        BY DEF SagaInv, ProtocolInv, MovedByState
    <2>4. /\ paid[k] \in {0, 1}
          /\ op[k].state = "completed" => paid[k] = 1
          /\ op[k].state \in {"compensated", "failed"} => paid[k] = 0
        BY DEF SagaInv, SettlementInv, PaidByState
    <2>5. QED
        BY <2>2, <2>3, <2>4 DEF Count
<1>2. QED
    BY <1>1, SagaHolds, PTL

-----------------------------------------------------------------------------
(* The mass of a viewer, without catches.  The session of a request writes  *)
(* back the mass it loaded before its first await; what makes that safe is  *)
(* that conversions are the only other writers and exclude each other.      *)

\* A step moves at most the mass of viewer u, and by what it should.
Books(u) ==
    \E m \in Nat : mass' = [mass EXCEPT ![u] = m] /\ owed' = [owed EXCEPT ![u] = m]

\* A request that is not over keeps the locks it holds.
KeepsLocks ==
    \A q \in Requests, u \in Users :
        req'[q].pc # "idle" /\ lock[u] = q => lock'[u] = q

\* A step that leaves both accounts alone moves no mass of anybody.
LEMMA UntouchedBooks ==
    ASSUME CacheInv, NEW u \in Users, UNCHANGED <<mass, owed>>
    PROVE  Books(u)
<1>1. mass \in [Users -> Nat] /\ owed = mass
    BY DEF CacheInv, ProtocolInv, TypeOK
<1>2. mass[u] \in Nat /\ mass' = [mass EXCEPT ![u] = mass[u]]
    BY <1>1
<1>3. QED
    BY <1>1, <1>2 DEF Books

\* A change made to the row itself is right by construction.
LEMMA MovedBooks ==
    ASSUME CacheInv, NEW k, NEW u \in Users, NEW delta \in Int, NEW sign,
           MoveMass(k, u, delta, sign)
    PROVE  Books(u)
<1>1. mass[u] \in Nat /\ owed = mass
    BY DEF CacheInv, ProtocolInv, TypeOK
<1>2. Clamped(mass[u] + delta) \in Nat
    BY <1>1 DEF Clamped
<1>3. QED
    BY <1>1, <1>2 DEF MoveMass, Books

\* A change made to the session's copy is right because the copy is.
LEMMA CachedBooks ==
    ASSUME CacheInv, NEW r \in Requests, req[r].pc # "idle", NEW k,
           NEW delta \in Int, NEW sign,
           MoveCachedMass(r, k, req[r].user, delta, sign)
    PROVE  Books(req[r].user)
<1>1. /\ req[r].user \in Users /\ req[r].snap = mass[req[r].user]
      /\ mass \in [Users -> Nat] /\ owed = mass
    BY DEF CacheInv, Cached, ProtocolInv, TypeOK
<1>2. Clamped(req[r].snap + delta) \in Nat
    BY <1>1 DEF Clamped
<1>3. QED
    BY <1>1, <1>2 DEF MoveCachedMass, Books

\* Only its own lock is released by a request, and then it is over.
LEMMA FinishKeepsLocks ==
    ASSUME CacheInv, NEW r \in Requests, Finish(r)
    PROVE  KeepsLocks
  BY DEF CacheInv, ProtocolInv, TypeOK, Finish, Released, KeepsLocks, IdleRequest

\* A step that settles an operation moves the mass of its viewer only, and no
\* request that goes on works for that viewer.
LEMMA SettlingKeepsCache ==
    ASSUME CacheInv, NEW k, NEW s, NEW t, NEW d \in Int, Settles(k, s, t, d),
           Books(op[k].user), KeepsLocks
    PROVE  CacheInv'
<1> DEFINE u == op[k].user
<1>1. k \in Keys /\ op[k].state \in ActiveStates /\ u \in Users
    BY DEF Settles, CacheInv, ProtocolInv, MovedByState, ActiveStates
<1>2. PICK m \in Nat : mass' = [mass EXCEPT ![u] = m] /\ owed' = [owed EXCEPT ![u] = m]
    BY DEF Books
<1>3. mass' = owed'
    BY <1>2 DEF CacheInv
<1>4. \A j \in Keys : op'[j].user = op[j].user
      /\ (op'[j].state \in ActiveStates => op[j].state \in ActiveStates)
    <2>1. PICK o \in Operation : op' = [op EXCEPT ![k] = o] /\ o.user = op[k].user
        BY DEF Settles, Amends
    <2>2. QED
        BY <1>1, <2>1 DEF CacheInv, ProtocolInv, TypeOK
<1>5. ASSUME NEW q \in Requests PROVE Cached(q)'
    <2>1. SUFFICES ASSUME req'[q].pc # "idle" PROVE Cached(q)'
        BY DEF Cached
    <2>2. req'[q] = req[q] /\ (Carrying(q) => req[q].key # k)
        BY <2>1 DEF Settles, LetsGo, IdleRequest
    <2>3. /\ req[q].user \in Users /\ lock[req[q].user] = q
          /\ req[q].snap = mass[req[q].user]
          /\ req[q].pc = "balance" => ~HasActiveOperation(req[q].user)
        BY <2>1, <2>2 DEF CacheInv, Cached
    <2>4. req[q].user # u
        <3>1. CASE req[q].pc = "balance"
            BY <1>1, <2>3, <3>1 DEF HasActiveOperation
        <3>2. CASE Carrying(q)
            BY <1>1, <2>2, <3>2, CarriedOperation
            DEF CacheInv, ProtocolInv, OneActiveOperation
        <3>3. req[q] \in Request
            BY DEF CacheInv, ProtocolInv, TypeOK
        <3>4. QED
            BY <2>1, <2>2, <3>1, <3>2, <3>3 DEF Carrying, Request
    <2>5. mass'[req[q].user] = mass[req[q].user]
        BY <1>2, <2>3, <2>4 DEF CacheInv, ProtocolInv, TypeOK
    <2>6. lock'[req[q].user] = q
        BY <2>1, <2>3 DEF KeepsLocks
    <2>7. req[q].pc = "balance" => ~HasActiveOperation(req[q].user)'
        BY <1>4, <2>2, <2>3 DEF HasActiveOperation
    <2>8. QED
        BY <2>2, <2>3, <2>5, <2>6, <2>7 DEF Cached
<1>6. ProtocolInv'
    BY SettlingKeepsProtocol DEF CacheInv
<1>7. QED
    BY <1>3, <1>5, <1>6 DEF CacheInv

\* Request r moves on or is over, and every mass and operation stays.
LEMMA QuietKeepsCache ==
    ASSUME CacheInv, ProtocolInv', UNCHANGED <<mass, owed, op>>, KeepsLocks,
           \A q \in Requests :
              \/ req'[q].pc = "idle" \/ req'[q] = req[q]
              \/ /\ req[q].pc # "idle" /\ req'[q].pc # "balance"
                 /\ req'[q].user = req[q].user /\ req'[q].snap = req[q].snap
    PROVE  CacheInv'
<1>1. ASSUME NEW q \in Requests PROVE Cached(q)'
    BY <1>1 DEF CacheInv, Cached, KeepsLocks, HasActiveOperation
<1>2. QED
    BY <1>1 DEF CacheInv

\* A command begins with the mass it has just loaded, behind a free lock.
LEMMA BeginKeepsCache ==
    ASSUME CacheInv, NEW r \in Requests, NEW k \in Keys, NEW u \in Users,
           NEW kind \in {"sell", "buy"}, NEW arg \in Args, Begin(r, k, u, kind, arg)
    PROVE  CacheInv'
<1>1. /\ lock[u] = None /\ ~HasActiveOperation(u)
      /\ lock' = [lock EXCEPT ![u] = r] /\ UNCHANGED <<mass, owed, op>>
    BY DEF Begin
<1>2. /\ req'[r].pc = "balance" /\ req'[r].user = u /\ req'[r].snap = mass[u]
      /\ \A q \in Requests \ {r} : req'[q] = req[q]
    BY DEF Begin, CacheInv, ProtocolInv, TypeOK
<1>3. lock \in [Users -> Requests \union {None, Orphan}] /\ None \notin Requests
    BY SagaAssumption DEF CacheInv, ProtocolInv, TypeOK
<1>4. Cached(r)'
    BY <1>1, <1>2, <1>3 DEF Cached, HasActiveOperation
<1>5. ASSUME NEW q \in Requests \ {r} PROVE Cached(q)'
    BY <1>1, <1>2, <1>3 DEF CacheInv, Cached, HasActiveOperation
<1>6. ProtocolInv'
    BY BeginKeepsProtocol DEF CacheInv
<1>7. QED
    BY <1>1, <1>4, <1>5, <1>6 DEF CacheInv

\* An operation is created for the viewer whose lock the request holds: nobody
\* else waits for that viewer, and the request remembers what it wrote.
LEMMA CreatingKeepsCache ==
    ASSUME CacheInv, ProtocolInv', NEW r \in Requests, req[r].pc = "balance",
           NEW o \in Operation, op' = [op EXCEPT ![req[r].key] = o],
           o.user = req[r].user, Books(req[r].user), KeepsLocks,
           \A q \in Requests \ {r} : req'[q] = req[q],
           \/ req'[r].pc = "idle"
           \/ /\ req'[r].pc = "write" /\ req'[r].user = req[r].user
              /\ req'[r].snap = mass'[req[r].user]
    PROVE  CacheInv'
<1> DEFINE u == req[r].user
<1>1. u \in Users /\ lock[u] = r /\ req[r].key \in Keys
    BY DEF CacheInv, Cached, ProtocolInv, RequestWaits
<1>2. PICK m \in Nat : mass' = [mass EXCEPT ![u] = m] /\ owed' = [owed EXCEPT ![u] = m]
    BY DEF Books
<1>3. \A j \in Keys : op'[j] = op[j] \/ op'[j].user = u
    BY <1>1 DEF CacheInv, ProtocolInv, TypeOK
<1>4. Cached(r)'
    BY <1>1 DEF Cached, KeepsLocks
<1>5. ASSUME NEW q \in Requests \ {r} PROVE Cached(q)'
    <2>1. SUFFICES ASSUME req[q].pc # "idle" PROVE Cached(q)'
        BY DEF Cached
    <2>2. /\ req'[q] = req[q] /\ req[q].user \in Users /\ lock[req[q].user] = q
          /\ req[q].snap = mass[req[q].user]
          /\ req[q].pc = "balance" => ~HasActiveOperation(req[q].user)
        BY <2>1 DEF CacheInv, Cached
    <2>3. req[q].user # u
        BY <1>1, <2>2
    <2>4. mass'[req[q].user] = mass[req[q].user]
        BY <1>2, <2>2, <2>3 DEF CacheInv, ProtocolInv, TypeOK
    <2>5. lock'[req[q].user] = q
        BY <2>1, <2>2 DEF KeepsLocks
    <2>6. req[q].pc = "balance" => ~HasActiveOperation(req[q].user)'
        BY <1>3, <2>2, <2>3 DEF HasActiveOperation
    <2>7. QED
        BY <2>2, <2>4, <2>5, <2>6 DEF Cached
<1>6. mass' = owed'
    BY <1>2 DEF CacheInv
<1>7. QED
    BY <1>4, <1>5, <1>6 DEF CacheInv

\* What a settling action of a request needs: it is over, and either no mass
\* moves or the session's copy is written back.
LEMMA RequestSettlesCache ==
    ASSUME CacheInv, NEW r \in Requests, Carrying(r), Finish(r),
           NEW s, NEW t, NEW d \in Int, Settles(req[r].key, s, t, d),
           \/ UNCHANGED <<mass, owed>>
           \/ MoveCachedMass(r, req[r].key, req[r].user, op[req[r].key].amt, d)
    PROVE  CacheInv'
<1>1. /\ op[req[r].key].user = req[r].user /\ req[r].user \in Users
      /\ op[req[r].key] \in Operation
    BY CarriedOperation DEF CacheInv
<1>2. op[req[r].key].amt \in Int /\ req[r].pc # "idle"
    BY <1>1 DEF Operation, Carrying
<1>3. Books(req[r].user)
    BY <1>1, <1>2, UntouchedBooks, CachedBooks
<1>4. QED
    BY <1>1, <1>3, FinishKeepsLocks, SettlingKeepsCache

\* A sale begins by taking the mass it remembers.
LEMMA CreateSellKeepsCache ==
    ASSUME CacheInv, NEW r \in Requests, CreateSell(r)
    PROVE  CacheInv'
<1> DEFINE k == req[r].key
           amt == SellMass(r)
           pts == SellPoints(amt, SellRate)
           o == NewOperation(r, "processing", amt, pts)
           left == Clamped(req[r].snap - amt)
           q == [req[r] EXCEPT !.pc = "write", !.snap = left]
<1>1. /\ req[r].pc = "balance" /\ ProtocolInv /\ req[r] \in Request
      /\ req[r].user \in Users /\ req[r].snap \in Nat
      /\ req[r].key \in Keys /\ req[r].arg \in Args /\ req[r].kind \in {"sell", "buy"}
    BY DEF CreateSell, CacheInv, ProtocolInv, TypeOK, RequestWaits, Request
<1>2. amt \in Nat /\ pts \in Nat /\ -amt \in Int
    BY <1>1, AmountsAreNatural
<1>3. /\ op' = [op EXCEPT ![k] = o] /\ req' = [req EXCEPT ![r] = q]
      /\ MoveCachedMass(r, k, req[r].user, -amt, 1) /\ UNCHANGED lock
    BY DEF CreateSell
<1>4. req[r].snap + (-amt) = req[r].snap - amt
    BY <1>1, <1>2
<1>5. mass' = [mass EXCEPT ![req[r].user] = left]
    BY <1>3, <1>4 DEF MoveCachedMass
<1> HIDE DEF amt, pts, left
<1>6. o \in Operation /\ o.user = req[r].user
    BY <1>1, <1>2 DEF NewOperation, Operation, OpStates, ActiveStates
<1>7. q.pc = "write" /\ q.user = req[r].user /\ q.snap = left
    BY <1>1 DEF Request
<1> HIDE DEF o, q
<1>8. req'[r] = q /\ \A p \in Requests \ {r} : req'[p] = req[p]
    BY <1>3 DEF CacheInv, ProtocolInv, TypeOK
<1>9. Books(req[r].user)
    BY <1>1, <1>2, <1>3, CachedBooks
<1>10. KeepsLocks
    BY <1>3 DEF KeepsLocks
<1>11. mass'[req[r].user] = left
    BY <1>1, <1>5 DEF ProtocolInv, TypeOK
<1>12. ProtocolInv'
    BY <1>1, CreateSellKeepsProtocol
<1>13. QED
    BY <1>1, <1>3, <1>6, <1>7, <1>8, <1>9, <1>10, <1>11, <1>12, CreatingKeepsCache

\* A purchase begins with the mass as it is.
LEMMA CreateBuyKeepsCache ==
    ASSUME CacheInv, NEW r \in Requests, CreateBuy(r)
    PROVE  CacheInv'
<1> DEFINE k == req[r].key
           amt == BuyMass(r)
           pts == -BuyPoints(amt, BuyRate)
           o == NewOperation(r, "external_pending", amt, pts)
           q == [req[r] EXCEPT !.pc = "write"]
<1>1. /\ req[r].pc = "balance" /\ ProtocolInv /\ req[r] \in Request
      /\ req[r].user \in Users /\ req[r].snap = mass[req[r].user]
      /\ req[r].key \in Keys /\ req[r].arg \in Args /\ req[r].kind \in {"sell", "buy"}
    BY DEF CreateBuy, CacheInv, Cached, ProtocolInv, TypeOK, RequestWaits
<1>2. amt \in Nat /\ pts \in Int
    BY <1>1, AmountsAreNatural
<1>3. /\ op' = [op EXCEPT ![k] = o] /\ req' = [req EXCEPT ![r] = q]
      /\ UNCHANGED <<mass, owed, lock>>
    BY DEF CreateBuy
<1> HIDE DEF amt, pts
<1>4. o \in Operation /\ o.user = req[r].user
    BY <1>1, <1>2 DEF NewOperation, Operation, OpStates, ActiveStates
<1>5. q.pc = "write" /\ q.user = req[r].user /\ q.snap = req[r].snap
    BY <1>1 DEF Request
<1> HIDE DEF o, q
<1>6. req'[r] = q /\ \A p \in Requests \ {r} : req'[p] = req[p]
    BY <1>3 DEF CacheInv, ProtocolInv, TypeOK
<1>7. Books(req[r].user) /\ KeepsLocks
    BY <1>1, <1>3, UntouchedBooks DEF KeepsLocks
<1>8. ProtocolInv'
    BY <1>1, CreateBuyKeepsProtocol
<1>9. QED
    BY <1>1, <1>3, <1>4, <1>5, <1>6, <1>7, <1>8, CreatingKeepsCache

\* A refusal is recorded and the request is over.
LEMMA RecordOverCapKeepsCache ==
    ASSUME CacheInv, NEW r \in Requests, RecordOverCap(r)
    PROVE  CacheInv'
<1> DEFINE k == req[r].key
           sell == req[r].kind = "sell"
           amt == IF sell THEN SellMass(r) ELSE BuyMass(r)
           pts == IF sell THEN SellPoints(SellMass(r), SellRate) ELSE 0
           o == NewOperation(r, "failed", amt, pts)
<1>1. /\ req[r].pc = "balance" /\ ProtocolInv /\ req[r].user \in Users
      /\ req[r].key \in Keys /\ req[r].arg \in Args /\ req[r].kind \in {"sell", "buy"}
    BY DEF RecordOverCap, CacheInv, ProtocolInv, RequestWaits
<1>2. amt \in Nat /\ pts \in Int
    BY <1>1, AmountsAreNatural
<1>3. op' = [op EXCEPT ![k] = o] /\ Finish(r) /\ UNCHANGED <<mass, owed>>
    BY DEF RecordOverCap
<1> HIDE DEF amt, pts
<1>4. o \in Operation /\ o.user = req[r].user
    BY <1>1, <1>2 DEF NewOperation, Operation, OpStates, ActiveStates
<1> HIDE DEF o
<1>5. req'[r].pc = "idle" /\ \A p \in Requests \ {r} : req'[p] = req[p]
    BY <1>3 DEF Finish, IdleRequest, ProtocolInv, CacheInv, TypeOK
<1>6. Books(req[r].user) /\ KeepsLocks
    BY <1>1, <1>3, UntouchedBooks, FinishKeepsLocks
<1>7. ProtocolInv'
    BY <1>1, RecordOverCapKeepsProtocol
<1>8. QED
    BY <1>1, <1>3, <1>4, <1>5, <1>6, <1>7, CreatingKeepsCache

\* A request that waits for the provider, or is over, leaves the mass alone.
LEMMA CarryingKeepsCache ==
    ASSUME CacheInv, NEW r \in Requests,
           \/ \E out \in WriteOutcomes : RequestWrites(r, out) \/ RefundWrites(r, out)
           \/ SaveOfBuyFails(r) \/ RefundStarts(r)
    PROVE  CacheInv'
<1>1. req[r] \in Request /\ ProtocolInv
    BY DEF CacheInv, ProtocolInv, TypeOK
<1>2. UNCHANGED <<mass, owed, op, lock>>
    BY DEF RequestWrites, RefundWrites, SaveOfBuyFails, RefundStarts
<1>3. /\ req[r].pc # "idle" /\ req'[r].pc \notin {"idle", "balance"}
      /\ req'[r].user = req[r].user /\ req'[r].snap = req[r].snap
      /\ \A q \in Requests \ {r} : req'[q] = req[q]
    BY <1>1 DEF RequestWrites, RefundWrites, SaveOfBuyFails, RefundStarts, Learns,
                ProtocolInv, TypeOK, Request
<1>4. ProtocolInv'
    BY <1>1, RequestWritesKeepsProtocol, RefundWritesKeepsProtocol,
       SaveOfBuyFailsKeepsProtocol, RefundStartsKeepsProtocol
<1>5. QED
    BY <1>2, <1>3, <1>4, QuietKeepsCache DEF KeepsLocks

\* A request that gives up or dies lets go of its lock only.
LEMMA RequestEndKeepsCache ==
    ASSUME CacheInv, NEW r \in Requests, GiveUp(r) \/ Crash(r)
    PROVE  CacheInv'
<1>1. /\ req'[r].pc = "idle" /\ \A q \in Requests \ {r} : req'[q] = req[q]
      /\ UNCHANGED <<mass, owed, op>>
    BY DEF GiveUp, Crash, Finish, IdleRequest, CacheInv, ProtocolInv, TypeOK
<1>2. KeepsLocks
    BY <1>1 DEF GiveUp, Crash, Finish, Released, KeepsLocks
<1>3. ProtocolInv'
    BY RequestEndKeepsProtocol DEF CacheInv
<1>4. QED
    BY <1>1, <1>2, <1>3, QuietKeepsCache

\* Every step of a request after its command began.
LEMMA RequestKeepsCache ==
    ASSUME CacheInv, NEW r \in Requests, RequestContinues(r)
    PROVE  CacheInv'
<1>0. ProtocolInv
    BY DEF CacheInv
<1>1. CASE GiveUp(r)
    BY <1>1, RequestEndKeepsCache
<1>2. CASE RecordOverCap(r) \/ CreateSell(r) \/ CreateBuy(r)
    BY <1>2, RecordOverCapKeepsCache, CreateSellKeepsCache, CreateBuyKeepsCache
<1>3. CASE \/ \E out \in WriteOutcomes : RequestWrites(r, out) \/ RefundWrites(r, out)
           \/ SaveOfBuyFails(r) \/ RefundStarts(r)
    BY <1>3, CarryingKeepsCache
<1>4. CASE CompleteSell(r)
    <2>1. Carrying(r) /\ Finish(r) /\ UNCHANGED <<mass, owed>>
        BY <1>4 DEF CompleteSell, Learns, Carrying, RequestSteps
    <2>2. Settles(req[r].key, "completed", "processed", 0)
        BY <1>0, <1>4, CompleteSellSettles
    <2>3. QED
        BY <2>1, <2>2, RequestSettlesCache
<1>5. CASE CompleteBuy(r)
    <2>1. Carrying(r) /\ Finish(r) /\ MoveCachedMass(r, req[r].key, req[r].user, op[req[r].key].amt, 1)
        BY <1>5 DEF CompleteBuy, Learns, Carrying, RequestSteps
    <2>2. Settles(req[r].key, "completed", "processed", 1)
        BY <1>0, <1>5, CompleteBuySettles
    <2>3. QED
        BY <2>1, <2>2, RequestSettlesCache
<1>6. CASE DeclareAmbiguous(r)
    <2>1. Carrying(r) /\ Finish(r) /\ UNCHANGED <<mass, owed>>
        BY <1>6 DEF DeclareAmbiguous, Learns, Carrying, RequestSteps
    <2>2. Settles(req[r].key, "reconciliation_required", "reconciliation_required", 0)
        BY <1>0, <1>6, DeclareAmbiguousSettles
    <2>3. QED
        BY <2>1, <2>2, RequestSettlesCache
<1>7. CASE QueueRetry(r)
    <2>1. Carrying(r) /\ Finish(r) /\ UNCHANGED <<mass, owed>>
        BY <1>7 DEF QueueRetry, Learns, Carrying, RequestSteps
    <2>2. Settles(req[r].key, "queued", "pending", 0)
        BY <1>0, <1>7, QueueRetrySettles
    <2>3. QED
        BY <2>1, <2>2, RequestSettlesCache
<1>8. CASE RestoreSell(r)
    <2>1. Carrying(r) /\ Finish(r) /\ MoveCachedMass(r, req[r].key, req[r].user, op[req[r].key].amt, -1)
        BY <1>8 DEF RestoreSell, Learns, Carrying, RequestSteps
    <2>2. Settles(req[r].key, "compensated", "compensated", -1)
        BY <1>0, <1>8, RestoreSellSettles
    <2>3. QED
        BY <2>1, <2>2, RequestSettlesCache
<1>9. CASE FailBuy(r)
    <2>1. Carrying(r) /\ Finish(r) /\ UNCHANGED <<mass, owed>>
        BY <1>9 DEF FailBuy, Learns, Carrying, RequestSteps
    <2>2. Settles(req[r].key, "failed", "dead_letter", 0)
        BY <1>0, <1>9, FailBuySettles
    <2>3. QED
        BY <2>1, <2>2, RequestSettlesCache
<1>10. CASE SaveOfSellFails(r)
    <2>1. Carrying(r) /\ Finish(r) /\ UNCHANGED <<mass, owed>>
        BY <1>10 DEF SaveOfSellFails, Learns, Carrying, RequestSteps
    <2>2. Settles(req[r].key, "reconciliation_required", "reconciliation_required", 0)
        BY <1>0, <1>10, SaveOfSellFailsSettles
    <2>3. QED
        BY <2>1, <2>2, RequestSettlesCache
<1>11. CASE RefundRefused(r)
    <2>1. Carrying(r) /\ Finish(r) /\ UNCHANGED <<mass, owed>>
        BY <1>11 DEF RefundRefused, Carrying, RequestSteps
    <2>2. Settles(req[r].key, "reconciliation_required", "reconciliation_required", 0)
        BY <1>0, <1>11, RefundRefusedSettles
    <2>3. QED
        BY <2>1, <2>2, RequestSettlesCache
<1>12. CASE RefundSettles(r)
    <2>1. Carrying(r) /\ Finish(r) /\ UNCHANGED <<mass, owed>>
        BY <1>12 DEF RefundSettles, Carrying, RequestSteps
    <2>2. Settles(req[r].key, RefundVerdict(r), RefundVerdict(r), 0)
        BY <1>0, <1>12, RefundSettlesSettles
    <2>3. QED
        BY <2>1, <2>2, RequestSettlesCache
<1>13. QED
    BY <1>1, <1>2, <1>3, <1>4, <1>5, <1>6, <1>7, <1>8, <1>9, <1>10, <1>11, <1>12
    DEF RequestContinues

\* What a settling action of a runner or of the administrator needs: the mass
\* is moved in the row itself, if at all, and no lock is touched.
LEMMA RowSettlesCache ==
    ASSUME CacheInv, NEW k, NEW s, NEW t, NEW d \in Int, Settles(k, s, t, d),
           UNCHANGED lock,
           \/ UNCHANGED <<mass, owed>>
           \/ \E sign \in {-1, 1} : MoveMass(k, op[k].user, op[k].amt, sign)
    PROVE  CacheInv'
<1>1. k \in Keys /\ op[k] \in Operation /\ op[k].user \in Users
    BY DEF Settles, CacheInv, ProtocolInv, TypeOK, MovedByState, ActiveStates
<1>2. op[k].amt \in Int
    BY <1>1 DEF Operation
<1>3. Books(op[k].user)
    BY <1>1, <1>2, UntouchedBooks, MovedBooks
<1>4. KeepsLocks
    BY DEF KeepsLocks
<1>5. QED
    BY <1>3, <1>4, SettlingKeepsCache

\* A runner that claims, reads, writes or dies moves no mass, and an operation
\* it claims was active before.
LEMMA WorkingKeepsCache ==
    ASSUME CacheInv, NEW w \in Workers,
           \/ \E k \in Keys : Claim(w, k)
           \/ WorkerReads(w) \/ WorkerCrash(w)
           \/ \E out \in WriteOutcomes : WorkerWrites(w, out)
    PROVE  CacheInv'
<1>1. UNCHANGED <<mass, owed, lock, req>>
    BY DEF Claim, WorkerReads, WorkerCrash, WorkerWrites
<1>2. ProtocolInv'
    BY ClaimKeepsProtocol, WorkerReadsKeepsProtocol, WorkerCrashKeepsProtocol,
       WorkerWritesKeepsProtocol DEF CacheInv
<1>3. CASE UNCHANGED op
    BY <1>1, <1>2, <1>3, QuietKeepsCache DEF KeepsLocks
<1>4. CASE \E k \in Keys : Claim(w, k)
    <2>1. PICK k \in Keys : Claim(w, k)
        BY <1>4
    <2>2. op[k] \in Operation /\ op[k].state \in ActiveStates /\ op \in [Keys -> Operation]
        BY <2>1, ClaimedOperation DEF Claim, Claimable, CacheInv, ProtocolInv, TypeOK
    <2> DEFINE o == [op[k] EXCEPT !.state = "processing"]
    <2>3. op' = [op EXCEPT ![k] = o] /\ o.user = op[k].user
        BY <2>1, <2>2 DEF Claim, Operation
    <2> HIDE DEF o
    <2>4. \A j \in Keys : op'[j] = op[j] \/ (j = k /\ op'[j].user = op[j].user)
        BY <2>2, <2>3
    <2>5. \A u \in Users : HasActiveOperation(u)' => HasActiveOperation(u)
        BY <2>2, <2>4 DEF HasActiveOperation
    <2>6. QED
        BY <1>1, <1>2, <2>5 DEF CacheInv, Cached
<1>5. QED
    BY <1>3, <1>4 DEF WorkerReads, WorkerCrash, WorkerWrites

\* Every step of a runner.
LEMMA WorkerKeepsCache ==
    ASSUME CacheInv, NEW w \in Workers, WorkerStep(w)
    PROVE  CacheInv'
<1>0. /\ ProtocolInv
      /\ \A k \in Keys : FailedMove(k) \in Int /\ ConfirmedMove(k) \in Int
    BY DEF CacheInv, FailedMove, ConfirmedMove
<1>1. ASSUME NEW k \in Keys, RecoverExpiredLease(w, k) \/ ClaimRebound(w, k)
      PROVE  CacheInv'
    <2>1. Settles(k, "reconciliation_required", "reconciliation_required", 0)
        BY <1>0, <1>1, RecoverExpiredLeaseSettles, ClaimReboundSettles
    <2>2. UNCHANGED <<lock, mass, owed>>
        BY <1>1 DEF RecoverExpiredLease, ClaimRebound
    <2>3. QED
        BY <2>1, <2>2, RowSettlesCache
<1>2. ASSUME NEW k \in Keys, ClaimUnconfigured(w, k) PROVE CacheInv'
    <2>1. Settles(k, FailedState(k), "dead_letter", FailedMove(k))
        BY <1>0, <1>2, ClaimUnconfiguredSettles
    <2>2. /\ UNCHANGED lock
          /\ \/ UNCHANGED <<mass, owed>> \/ MoveMass(k, op[k].user, op[k].amt, -1)
        BY <1>2 DEF ClaimUnconfigured, FinalizeFailure
    <2>3. QED
        BY <1>0, <2>1, <2>2, RowSettlesCache
<1>3. CASE \/ \E k \in Keys : Claim(w, k)
           \/ WorkerReads(w) \/ \E out \in WriteOutcomes : WorkerWrites(w, out)
    BY <1>3, WorkingKeepsCache
<1>4. CASE WorkerCompletes(w)
    <2>1. Settles(worker[w].key, "completed", "processed", ConfirmedMove(worker[w].key))
        BY <1>0, <1>4, WorkerCompletesSettles
    <2>2. LET k == worker[w].key
          IN  /\ UNCHANGED lock
              /\ \/ UNCHANGED <<mass, owed>> \/ MoveMass(k, op[k].user, op[k].amt, 1)
        BY <1>4 DEF WorkerCompletes, ConfirmOperation
    <2>3. QED
        BY <1>0, <2>1, <2>2, RowSettlesCache DEF Settles
<1>5. CASE WorkerAmbiguous(w)
    <2>1. UNCHANGED <<lock, mass, owed>>
        BY <1>5 DEF WorkerAmbiguous
    <2>2. QED
        BY <1>0, <1>5, <2>1, WorkerAmbiguousSettles, RowSettlesCache
<1>6. CASE ScheduleRetry(w)
    <2> DEFINE k == worker[w].key
    <2>1. /\ UNCHANGED lock
          /\ \/ UNCHANGED <<mass, owed>> \/ MoveMass(k, op[k].user, op[k].amt, -1)
        BY <1>6 DEF ScheduleRetry, FinalizeFailure
    <2>2. CASE Settles(k, "pending", "pending", 0)
        BY <2>1, <2>2, RowSettlesCache
    <2>3. CASE Settles(k, FailedState(k), "dead_letter", FailedMove(k))
        BY <1>0, <2>1, <2>3, RowSettlesCache DEF Settles
    <2>4. QED
        BY <1>0, <1>6, <2>2, <2>3, ScheduleRetrySettles
<1>7. CASE DeadLetter(w)
    <2> DEFINE k == worker[w].key
    <2>1. Settles(k, FailedState(k), "dead_letter", FailedMove(k))
        BY <1>0, <1>7, DeadLetterSettles
    <2>2. /\ UNCHANGED lock
          /\ \/ UNCHANGED <<mass, owed>> \/ MoveMass(k, op[k].user, op[k].amt, -1)
        BY <1>7 DEF DeadLetter, FinalizeFailure
    <2>3. QED
        BY <1>0, <2>1, <2>2, RowSettlesCache DEF Settles
<1>8. QED
    BY <1>1, <1>2, <1>3, <1>4, <1>5, <1>6, <1>7 DEF WorkerStep

\* Every step of the administrator.
LEMMA AdminKeepsCache ==
    ASSUME CacheInv, AdminStep
    PROVE  CacheInv'
<1>0. ProtocolInv /\ \A k \in Keys : ConfirmedMove(k) \in Int
    BY DEF CacheInv, ConfirmedMove
<1>1. ASSUME NEW k \in Keys, AdminRetry(k) PROVE CacheInv'
    <2>1. UNCHANGED <<lock, mass, owed>>
        BY <1>1 DEF AdminRetry
    <2>2. QED
        BY <1>0, <1>1, <2>1, AdminRetrySettles, RowSettlesCache
<1>2. ASSUME NEW k \in Keys, AdminComplete(k) PROVE CacheInv'
    <2>1. /\ UNCHANGED lock
          /\ \/ UNCHANGED <<mass, owed>> \/ MoveMass(k, op[k].user, op[k].amt, 1)
        BY <1>2 DEF AdminComplete, ConfirmOperation
    <2>2. QED
        BY <1>0, <1>2, <2>1, AdminCompleteSettles, RowSettlesCache
<1>3. ASSUME NEW k \in Keys, AdminCompensate(k) PROVE CacheInv'
    <2>1. /\ UNCHANGED lock
          /\ \/ UNCHANGED <<mass, owed>> \/ MoveMass(k, op[k].user, op[k].amt, -1)
        BY <1>3 DEF AdminCompensate
    <2>2. QED
        BY <1>0, <1>3, <2>1, AdminCompensateSettles, RowSettlesCache
<1>4. ASSUME NEW k \in Keys, AdminDeadLetter(k) PROVE CacheInv'
    <2>1. UNCHANGED <<lock, mass, owed>>
        BY <1>4 DEF AdminDeadLetter
    <2>2. QED
        BY <1>0, <1>4, <2>1, AdminDeadLetterSettles, RowSettlesCache
<1>5. QED
    BY <1>1, <1>2, <1>3, <1>4 DEF AdminStep

\* Points earned on the stream, an expiring lock and stuttering; the lock of a
\* request that died is nobody's.
LEMMA OutsideKeepsCache ==
    ASSUME NoCatches, CacheInv,
           \/ \E u \in Users : LockExpires(u)
           \/ \E u \in Users, delta \in {-1, 1} : Catch(u, delta) \/ Earn(u, delta)
           \/ UNCHANGED vars
    PROVE  CacheInv'
<1>1. ProtocolInv'
    BY OutsideKeepsProtocol DEF CacheInv
<1>2. \A u \in Users, delta \in {-1, 1} : ~Catch(u, delta)
    BY DEF Catch, NoCatches, CacheInv, ProtocolInv, TypeOK
<1>3. UNCHANGED <<mass, owed, op, req>>
    BY <1>2 DEF LockExpires, Earn, vars
<1>4. KeepsLocks
    BY SagaAssumption, <1>2
    DEF KeepsLocks, LockExpires, Earn, vars, CacheInv, ProtocolInv, TypeOK
<1>5. QED
    BY <1>1, <1>3, <1>4, QuietKeepsCache

\* Without catches no change of mass is ever lost: every conversion, refund,
\* compensation and decision of an administrator writes the mass that adding
\* its change to the row would have given, though requests write it from a
\* copy as old as the balance read of the provider (_load_context,
\* apply_mass_mutation).  The race with fishing is the only one there is.
THEOREM ConversionsAloneLoseNoMass ==
    ASSUME NoCatches
    PROVE  Spec => []NoLostMass
<1>1. Init => CacheInv
    <2> SUFFICES ASSUME Init PROVE CacheInv
        OBVIOUS
    <2>1. mass = owed /\ \A r \in Requests : Cached(r)
        BY DEF Init, Cached, IdleRequest
    <2>2. QED
        BY <2>1, ProtocolInit DEF CacheInv
<1>2. CacheInv /\ [Next]_vars => CacheInv'
    <2> SUFFICES ASSUME CacheInv, [Next]_vars PROVE CacheInv'
        OBVIOUS
    <2>1. ASSUME NEW r \in Requests, NEW k \in Keys, NEW u \in Users,
                 NEW kind \in {"sell", "buy"}, NEW arg \in Args, Begin(r, k, u, kind, arg)
          PROVE  CacheInv'
        BY <2>1, BeginKeepsCache
    <2>2. ASSUME NEW r \in Requests, RequestContinues(r) \/ Crash(r) PROVE CacheInv'
        BY <2>2, RequestKeepsCache, RequestEndKeepsCache
    <2>3. ASSUME NEW w \in Workers, WorkerStep(w) \/ WorkerCrash(w) PROVE CacheInv'
        BY <2>3, WorkerKeepsCache, WorkingKeepsCache
    <2>4. CASE AdminStep
        BY <2>4, AdminKeepsCache
    <2>5. CASE \/ \E u \in Users : LockExpires(u)
               \/ \E u \in Users, delta \in {-1, 1} : Catch(u, delta) \/ Earn(u, delta)
               \/ UNCHANGED vars
        BY <2>5, OutsideKeepsCache
    <2>6. QED
        BY <2>1, <2>2, <2>3, <2>4, <2>5 DEF Next, Environment
<1>3. CacheInv => NoLostMass
    BY DEF CacheInv, NoLostMass
<1>4. QED
    BY <1>1, <1>2, <1>3, PTL DEF Spec

-----------------------------------------------------------------------------
(* EconomySaga implements Conversion, for a provider whose replies are clean.  *)
(* The invariant does most of it: in a state that satisfies SagaInv the two    *)
(* sides of a conversion are a function of its row and its carrier, so that a  *)
(* step is known to be the abstract one by the states it leads from and to.    *)

\* The abstract step that a step of the saga is.
Implemented == [Promise!Next]_(Promise!vars)

-----------------------------------------------------------------------------

\* A viewer without an active operation has no unsettled conversion.
LEMMA InactiveIsFree ==
    ASSUME ProtocolInv, NEW u, ~HasActiveOperation(u)
    PROVE  Promise!Free(u)
<1>1. \A j \in Keys : op[j].state \in OpStates
    BY DEF ProtocolInv, TypeOK, Operation
<1>2. QED
    BY <1>1 DEF HasActiveOperation, Promise!Free, Promise!Unsettled, StatusOf, OpStates,
                ActiveStates

\* Two functions that differ in one place.
LEMMA PointwiseUpdate ==
    ASSUME NEW S, NEW k \in S, NEW v, NEW f, NEW g,
           f = [j \in S |-> f[j]], g = [j \in S |-> g[j]],
           g[k] = v, \A j \in S \ {k} : g[j] = f[j]
    PROVE  g = [f EXCEPT ![k] = v]
  OBVIOUS

\* What a step does to the abstract state, if it does it to one operation.
LEMMA AbstractUpdate ==
    ASSUME ProtocolInv, NEW k \in Keys, NEW o, op' = [op EXCEPT ![k] = o]
    PROVE  LET status == [j \in Keys |-> StatusOf(op[j].state)]
               kind == [j \in Keys |-> op[j].kind]
               owner == [j \in Keys |-> op[j].user]
           IN  /\ status' = [status EXCEPT ![k] = StatusOf(o.state)]
               /\ kind' = [kind EXCEPT ![k] = o.kind]
               /\ owner' = [owner EXCEPT ![k] = o.user]
               /\ StatusOf(o.state) = StatusOf(op[k].state) => status' = status
               /\ o.kind = op[k].kind => kind' = kind
               /\ o.user = op[k].user => owner' = owner
<1> DEFINE status == [j \in Keys |-> StatusOf(op[j].state)]
           kind == [j \in Keys |-> op[j].kind]
           owner == [j \in Keys |-> op[j].user]
<1>1. op'[k] = o /\ \A j \in Keys \ {k} : op'[j] = op[j]
    BY DEF ProtocolInv, TypeOK
<1>2. /\ status' = [status EXCEPT ![k] = StatusOf(o.state)]
      /\ StatusOf(o.state) = StatusOf(op[k].state) => status' = status
    <2>1. /\ status = [j \in Keys |-> status[j]] /\ status' = [j \in Keys |-> status'[j]]
          /\ status[k] = StatusOf(op[k].state) /\ status'[k] = StatusOf(o.state)
          /\ \A j \in Keys \ {k} : status'[j] = status[j]
        BY <1>1
    <2> HIDE DEF status
    <2>2. QED
        BY <2>1, PointwiseUpdate
<1>3. /\ kind' = [kind EXCEPT ![k] = o.kind]
      /\ o.kind = op[k].kind => kind' = kind
    <2>1. /\ kind = [j \in Keys |-> kind[j]] /\ kind' = [j \in Keys |-> kind'[j]]
          /\ kind[k] = op[k].kind /\ kind'[k] = o.kind
          /\ \A j \in Keys \ {k} : kind'[j] = kind[j]
        BY <1>1
    <2> HIDE DEF kind
    <2>2. QED
        BY <2>1, PointwiseUpdate
<1>4. /\ owner' = [owner EXCEPT ![k] = o.user]
      /\ o.user = op[k].user => owner' = owner
    <2>1. /\ owner = [j \in Keys |-> owner[j]] /\ owner' = [j \in Keys |-> owner'[j]]
          /\ owner[k] = op[k].user /\ owner'[k] = o.user
          /\ \A j \in Keys \ {k} : owner'[j] = owner[j]
        BY <1>1
    <2> HIDE DEF owner
    <2>2. QED
        BY <2>1, PointwiseUpdate
<1>5. QED
    BY <1>2, <1>3, <1>4

\* Settling an operation is completing, undoing, asking, resuming, abandoning or
\* nothing: the invariant after the step says which.
LEMMA SettlingIsImplemented ==
    ASSUME SagaInv, SagaInv', NEW k, NEW s, NEW t, NEW d \in Int, Settles(k, s, t, d),
           s = "dead_letter" => op[k].state = "reconciliation_required"
    PROVE  Implemented
<1> DEFINE status == [j \in Keys |-> StatusOf(op[j].state)]
           kind == [j \in Keys |-> op[j].kind]
           owner == [j \in Keys |-> op[j].user]
<1>1. PICK o \in Operation, e \in Event :
          /\ op' = [op EXCEPT ![k] = o] /\ o.state = s /\ e.state = t
          /\ o.user = op[k].user /\ o.kind = op[k].kind
    BY DEF Settles, Amends
<1>2. /\ k \in Keys /\ op[k].state \in ActiveStates /\ s \in OpStates
      /\ s \notin {"none", "processing", "external_pending", "external_applied"}
      /\ paid' = paid /\ moved' = [moved EXCEPT ![k] = @ + d]
    BY <1>1 DEF Settles, Agrees, Moves, Elsewhere, Operation, Event, EventStates
<1>3. /\ op[k] \in Operation /\ op'[k] = o
      /\ op[k].kind \in {"sell", "buy"}
      /\ paid \in [Keys -> Int] /\ moved \in [Keys -> Int]
    BY <1>1, <1>2 DEF SagaInv, ProtocolInv, TypeOK, MovedByState, ActiveStates, Operation
<1>4. /\ status' = [status EXCEPT ![k] = StatusOf(s)]
      /\ kind' = kind /\ owner' = owner
    BY <1>1, <1>2, <1>3, AbstractUpdate DEF SagaInv
<1>5. status[k] = IF op[k].state = "reconciliation_required" THEN "asked" ELSE "open"
    BY <1>2 DEF StatusOf, ActiveStates
<1>6. /\ s = "completed" => paid[k] = 1
      /\ s \in {"queued", "pending", "compensated", "failed"} => paid[k] = 0
    BY <1>1, <1>2, <1>3 DEF SagaInv, SettlementInv, PaidByState
<1>7. moved' = [moved EXCEPT ![k] = moved'[k]] /\ moved'[k] \in Int
    BY <1>2, <1>3
<1>8. /\ op[k].kind = "sell" => moved[k] = 1
      /\ op[k].kind = "buy" => moved[k] = 0
    BY <1>2 DEF SagaInv, ProtocolInv, MovedByState, Count, ActiveStates
<1>9. /\ op[k].kind = "sell" => moved'[k] = Count(s \notin {"compensated", "failed"})
      /\ op[k].kind = "buy" => moved'[k] = Count(s = "completed")
    BY <1>1, <1>2, <1>3 DEF SagaInv, ProtocolInv, MovedByState
<1>10. CASE s = "completed"
    <2>1. moved' = [moved EXCEPT ![k] = 1] /\ StatusOf(s) = "done"
        BY <1>3, <1>7, <1>9, <1>10 DEF Count, StatusOf
    <2>2. Promise!Complete(k)
        BY <1>2, <1>4, <1>5, <1>6, <1>10, <2>1
        DEF Promise!Complete, Promise!Unsettled, Promise!Moves
    <2>3. QED
        BY <1>2, <2>2 DEF Implemented, Promise!Next
<1>11. CASE s \in {"compensated", "failed"}
    <2>1. moved' = [moved EXCEPT ![k] = 0] /\ StatusOf(s) = "undone"
        BY <1>3, <1>7, <1>9, <1>11 DEF Count, StatusOf
    <2>2. Promise!Undo(k)
        BY <1>2, <1>4, <1>5, <1>6, <1>11, <2>1
        DEF Promise!Undo, Promise!Unsettled, Promise!Moves
    <2>3. QED
        BY <1>2, <2>2 DEF Implemented, Promise!Next
<1>12. CASE s \in {"queued", "pending", "reconciliation_required", "dead_letter"}
    <2>1. moved' = moved
        BY <1>2, <1>3, <1>7, <1>8, <1>9, <1>12 DEF Count
    <2>2. StatusOf(s) = CASE s = "reconciliation_required" -> "asked"
                          [] s = "dead_letter" -> "abandoned"
                          [] OTHER -> "open"
        BY <1>12 DEF StatusOf
    <2>3. CASE status[k] = StatusOf(s)
        BY <1>2, <1>4, <2>1, <2>3 DEF Implemented, Promise!vars
    <2>4. CASE status[k] # StatusOf(s)
        <3>1. Promise!Ask(k) \/ Promise!Resume(k) \/ Promise!Abandon(k)
            BY <1>2, <1>4, <1>5, <1>6, <1>12, <2>1, <2>2, <2>4
            DEF Promise!Ask, Promise!Resume, Promise!Abandon, Promise!Moves
        <3>2. QED
            BY <1>2, <3>1 DEF Implemented, Promise!Next
    <2>5. QED
        BY <2>3, <2>4
<1>13. QED
    BY <1>2, <1>10, <1>11, <1>12 DEF OpStates, ActiveStates

\* A new row is a conversion that begins, or one that is refused.
LEMMA CreatingIsImplemented ==
    ASSUME ProtocolInv, NEW k \in Keys, NEW u \in Users, NEW sort \in {"sell", "buy"},
           op[k].state = "none", ~HasActiveOperation(u),
           NEW o, op' = [op EXCEPT ![k] = o], o.kind = sort, o.user = u, UNCHANGED paid,
           \/ /\ StatusOf(o.state) = "open"
              /\ moved' = [moved EXCEPT ![k] = IF sort = "sell" THEN 1 ELSE 0]
           \/ StatusOf(o.state) = "undone" /\ UNCHANGED moved
    PROVE  Implemented
<1> DEFINE status == [j \in Keys |-> StatusOf(op[j].state)]
           kind == [j \in Keys |-> op[j].kind]
           owner == [j \in Keys |-> op[j].user]
<1>1. /\ status' = [status EXCEPT ![k] = StatusOf(o.state)]
      /\ kind' = [kind EXCEPT ![k] = sort] /\ owner' = [owner EXCEPT ![k] = u]
    BY AbstractUpdate
<1>2. status[k] = "none"
    BY DEF StatusOf
<1>3. Promise!Opens(k, u, sort)
    BY <1>1, <1>2, InactiveIsFree DEF Promise!Opens
<1>4. Promise!Begin(k, u, sort) \/ Promise!Refuse(k, u, sort)
    BY <1>1, <1>3 DEF Promise!Begin, Promise!Refuse
<1>5. QED
    BY <1>4 DEF Implemented, Promise!Next

\* A request that creates an operation does one of the two.
LEMMA CreationIsImplemented ==
    ASSUME ProtocolInv, NEW r \in Requests,
           RecordOverCap(r) \/ CreateSell(r) \/ CreateBuy(r)
    PROVE  Implemented
<1> DEFINE k == req[r].key
<1>1. /\ req[r].user \in Users /\ req[r].kind \in {"sell", "buy"} /\ UNCHANGED paid
      /\ op[k].state = "none" /\ ~HasActiveOperation(req[r].user)
      /\ k \in Keys /\ moved[k] = 0 /\ moved \in [Keys -> Int]
    BY DEF RecordOverCap, OverCap, CreateSell, CanSell, CreateBuy, CanBuy, MayCreate,
           ProtocolInv, RequestWaits, MovedByState, TypeOK
<1>2. CASE RecordOverCap(r)
    <2> DEFINE sell == req[r].kind = "sell"
               o == NewOperation(r, "failed", IF sell THEN SellMass(r) ELSE BuyMass(r),
                                 IF sell THEN SellPoints(SellMass(r), SellRate) ELSE 0)
    <2>1. op' = [op EXCEPT ![k] = o] /\ UNCHANGED moved
        BY <1>2 DEF RecordOverCap
    <2>2. /\ o.kind = req[r].kind /\ o.user = req[r].user
          /\ StatusOf(o.state) = "undone"
        BY DEF NewOperation, StatusOf
    <2> HIDE DEF o
    <2>3. QED
        BY <1>1, <2>1, <2>2, CreatingIsImplemented
<1>3. CASE CreateSell(r)
    <2> DEFINE o == NewOperation(r, "processing", SellMass(r),
                                 SellPoints(SellMass(r), SellRate))
    <2>1. /\ op' = [op EXCEPT ![k] = o] /\ moved' = [moved EXCEPT ![k] = 1]
          /\ req[r].kind = "sell"
        BY <1>1, <1>3 DEF CreateSell, MoveCachedMass
    <2>2. /\ o.kind = "sell" /\ o.user = req[r].user /\ StatusOf(o.state) = "open"
        BY <2>1 DEF NewOperation, StatusOf
    <2> HIDE DEF o
    <2>3. QED
        BY <1>1, <2>1, <2>2, CreatingIsImplemented
<1>4. CASE CreateBuy(r)
    <2> DEFINE o == NewOperation(r, "external_pending", BuyMass(r),
                                 -BuyPoints(BuyMass(r), BuyRate))
    <2>1. op' = [op EXCEPT ![k] = o] /\ UNCHANGED moved /\ req[r].kind = "buy"
        BY <1>4 DEF CreateBuy
    <2>2. moved' = [moved EXCEPT ![k] = 0]
        BY <1>1, <2>1
    <2>3. /\ o.kind = "buy" /\ o.user = req[r].user /\ StatusOf(o.state) = "open"
        BY <2>1 DEF NewOperation, StatusOf
    <2> HIDE DEF o
    <2>4. QED
        BY <1>1, <2>1, <2>2, <2>3, CreatingIsImplemented
<1>5. QED
    BY <1>2, <1>3, <1>4

\* What the provider does to a carried operation is paying, refunding or nothing.
LEMMA PayingIsImplemented ==
    ASSUME ProtocolInv, NEW k \in Keys, UNCHANGED <<op, moved>>,
           op[k].state \in {"processing", "external_pending"},
           NEW n \in {0, 1}, paid' = [paid EXCEPT ![k] = n],
           paid[k] = 0 \/ (paid[k] = 1 /\ op[k].kind = "buy")
    PROVE  Implemented
<1> DEFINE status == [j \in Keys |-> StatusOf(op[j].state)]
           kind == [j \in Keys |-> op[j].kind]
           owner == [j \in Keys |-> op[j].user]
<1>1. status[k] = "open" /\ kind[k] = op[k].kind /\ paid \in [Keys -> Int]
    BY DEF StatusOf, ProtocolInv, TypeOK
<1>2. status' = status /\ kind' = kind /\ owner' = owner
    OBVIOUS
<1>3. CASE paid[k] = n
    BY <1>1, <1>2, <1>3 DEF Implemented, Promise!vars
<1>4. CASE paid[k] # n
    BY <1>1, <1>2, <1>4 DEF Implemented, Promise!Next, Promise!Pay, Promise!Refund
<1>5. QED
    BY <1>3, <1>4

\* What nobody sees did not happen.
LEMMA QuietIsImplemented ==
    ASSUME UNCHANGED <<op, paid, moved>>
    PROVE  Implemented
  BY DEF Implemented, Promise!vars

-----------------------------------------------------------------------------

\* Every step of a request is a step of a conversion, or none.
LEMMA RequestImplements ==
    ASSUME CleanProvider, SagaInv, SagaInv', NEW r \in Requests, RequestContinues(r)
    PROVE  Implemented
<1> DEFINE k == req[r].key
<1>a. ProtocolInv /\ SettlementInv
    BY DEF SagaInv
<1>b. Carrying(r) => k \in Keys /\ op[k].state \in {"processing", "external_pending"}
    BY <1>a, CarriedOperation
<1>1. CASE GiveUp(r) \/ SaveOfBuyFails(r) \/ RefundStarts(r)
    <2>1. UNCHANGED <<op, paid, moved>>
        BY <1>1 DEF GiveUp, SaveOfBuyFails, RefundStarts
    <2>2. QED
        BY <2>1, QuietIsImplemented
<1>2. CASE RecordOverCap(r) \/ CreateSell(r) \/ CreateBuy(r)
    BY <1>2, <1>a, CreationIsImplemented
<1>3. ASSUME NEW out \in WriteOutcomes, RequestWrites(r, out) PROVE Implemented
    <2> DEFINE n == Count(out \in AppliedOutcomes)
    <2>1. Carrying(r) /\ req[r].pc = "write" /\ UNCHANGED <<op, moved>>
        BY <1>3 DEF RequestWrites, Carrying, RequestSteps
    <2>2. paid[k] = 0
        BY <1>a, <2>1 DEF SettlementInv, CarrierKnowsPaid, Count
    <2>3. n \in {0, 1} /\ paid' = [paid EXCEPT ![k] = n]
        BY <1>a, <1>b, <1>3, <2>1, <2>2 DEF RequestWrites, ProviderPut, Count, ProtocolInv, TypeOK
    <2> HIDE DEF k, n
    <2>4. QED
        BY <1>a, <1>b, <2>1, <2>2, <2>3, PayingIsImplemented
<1>4. ASSUME NEW out \in WriteOutcomes, RefundWrites(r, out) PROVE Implemented
    <2> DEFINE n == Count(out \notin AppliedOutcomes)
    <2>1. Carrying(r) /\ req[r].pc = "refundWrite" /\ UNCHANGED <<op, moved>>
        BY <1>4 DEF RefundWrites, Carrying, RequestSteps
    <2>2. paid[k] = 1 /\ op[k].kind = "buy"
        BY <1>a, <2>1 DEF SettlementInv, CarrierKnowsPaid, Count, ProtocolInv, RequestCarries
    <2>3. n \in {0, 1} /\ paid' = [paid EXCEPT ![k] = n]
        BY <1>a, <1>b, <1>4, <2>1, <2>2 DEF RefundWrites, ProviderPut, Count, ProtocolInv, TypeOK
    <2> HIDE DEF k, n
    <2>4. QED
        BY <1>a, <1>b, <2>1, <2>2, <2>3, PayingIsImplemented
<1>5. CASE CompleteSell(r) \/ CompleteBuy(r)
    BY <1>5, <1>a, CompleteSellSettles, CompleteBuySettles, SettlingIsImplemented
<1>6. CASE QueueRetry(r) \/ DeclareAmbiguous(r) \/ SaveOfSellFails(r)
    BY <1>6, <1>a, QueueRetrySettles, DeclareAmbiguousSettles, SaveOfSellFailsSettles,
       SettlingIsImplemented
<1>7. CASE RestoreSell(r) \/ FailBuy(r)
    BY <1>7, <1>a, RestoreSellSettles, FailBuySettles, SettlingIsImplemented
<1>8. CASE RefundRefused(r)
    BY <1>8, <1>a, RefundRefusedSettles, SettlingIsImplemented
<1>9. CASE RefundSettles(r)
    <2>1. RefundVerdict(r) \in {"compensated", "reconciliation_required"}
        BY DEF RefundVerdict
    <2>2. QED
        BY <1>9, <1>a, <2>1, RefundSettlesSettles, SettlingIsImplemented
<1>10. QED
    BY <1>1, <1>2, <1>3, <1>4, <1>5, <1>6, <1>7, <1>8, <1>9 DEF RequestContinues

\* So is every step of a runner.
LEMMA WorkerImplements ==
    ASSUME CleanProvider, SagaInv, SagaInv', NEW w \in Workers, WorkerStep(w)
    PROVE  Implemented
<1> DEFINE k == worker[w].key
<1>a. ProtocolInv /\ SettlementInv
    BY DEF SagaInv
<1>b. Working(w) => k \in Keys /\ op[k].state = "processing"
    BY <1>a DEF ProtocolInv, RunnerCarries
<1>c. \A j \in Keys : FailedState(j) # "dead_letter"
    BY DEF FailedState
<1>1. ASSUME NEW j \in Keys, RecoverExpiredLease(w, j) \/ ClaimRebound(w, j)
      PROVE  Implemented
    BY <1>1, <1>a, RecoverExpiredLeaseSettles, ClaimReboundSettles, SettlingIsImplemented
<1>2. ASSUME NEW j \in Keys, ClaimUnconfigured(w, j) PROVE Implemented
    <2>1. /\ Settles(j, FailedState(j), "dead_letter", FailedMove(j))
          /\ FailedMove(j) \in Int
        BY <1>2, <1>a, ClaimUnconfiguredSettles DEF FailedMove
    <2>2. QED
        BY <1>c, <2>1, SettlingIsImplemented
<1>3. ASSUME NEW j \in Keys, Claim(w, j) PROVE Implemented
    <2>1. op[j] \in Operation /\ op[j].state \in {"queued", "pending"}
        BY <1>3, <1>a DEF Claim, Claimable, ProtocolInv, TypeOK, EventAgreesWithOperation, Agrees
    <2> DEFINE o == [op[j] EXCEPT !.state = "processing"]
    <2>2. op' = [op EXCEPT ![j] = o] /\ UNCHANGED <<paid, moved>>
        BY <1>3 DEF Claim
    <2>3. /\ StatusOf(o.state) = StatusOf(op[j].state)
          /\ o.kind = op[j].kind /\ o.user = op[j].user
        BY <2>1 DEF StatusOf, Operation
    <2> HIDE DEF o
    <2>4. QED
        BY <1>a, <2>2, <2>3, AbstractUpdate DEF Implemented, Promise!vars
<1>4. CASE WorkerReads(w)
    <2>1. UNCHANGED <<op, paid, moved>>
        BY <1>4 DEF WorkerReads
    <2>2. QED
        BY <2>1, QuietIsImplemented
<1>5. ASSUME NEW out \in WriteOutcomes, WorkerWrites(w, out) PROVE Implemented
    <2> DEFINE n == Count(out \in AppliedOutcomes)
    <2>1. Working(w) /\ worker[w].pc = "write" /\ UNCHANGED <<op, moved>>
        BY <1>5 DEF WorkerWrites, Working
    <2>2. paid[k] = 0
        BY <1>a, <2>1 DEF SettlementInv, CarrierKnowsPaid, Count
    <2>3. n \in {0, 1} /\ paid' = [paid EXCEPT ![k] = n]
        BY <1>a, <1>b, <1>5, <2>1, <2>2 DEF WorkerWrites, ProviderPut, Count, ProtocolInv, TypeOK
    <2> HIDE DEF k, n
    <2>4. QED
        BY <1>a, <1>b, <2>1, <2>2, <2>3, PayingIsImplemented
<1>6. CASE WorkerCompletes(w)
    <2>1. ConfirmedMove(k) \in Int
        BY DEF ConfirmedMove
    <2>2. QED
        BY <1>6, <1>a, <2>1, WorkerCompletesSettles, SettlingIsImplemented
<1>7. CASE WorkerAmbiguous(w)
    BY <1>7, <1>a, WorkerAmbiguousSettles, SettlingIsImplemented
<1>8. CASE ScheduleRetry(w) \/ DeadLetter(w)
    <2>1. FailedMove(k) \in Int /\ FailedState(k) # "dead_letter"
        BY DEF FailedMove, FailedState
    <2>2. QED
        BY <1>8, <1>a, <2>1, ScheduleRetrySettles, DeadLetterSettles, SettlingIsImplemented
<1>9. QED
    BY <1>1, <1>2, <1>3, <1>4, <1>5, <1>6, <1>7, <1>8 DEF WorkerStep

\* So is every decision of the administrator.
LEMMA AdminImplements ==
    ASSUME SagaInv, SagaInv', AdminStep
    PROVE  Implemented
<1>a. ProtocolInv
    BY DEF SagaInv
<1>1. ASSUME NEW k \in Keys, AdminRetry(k) \/ AdminCompensate(k) PROVE Implemented
    BY <1>1, <1>a, AdminRetrySettles, AdminCompensateSettles, SettlingIsImplemented
<1>2. ASSUME NEW k \in Keys, AdminComplete(k) PROVE Implemented
    <2>1. ConfirmedMove(k) \in Int
        BY DEF ConfirmedMove
    <2>2. QED
        BY <1>2, <1>a, <2>1, AdminCompleteSettles, SettlingIsImplemented
<1>3. ASSUME NEW k \in Keys, AdminDeadLetter(k) PROVE Implemented
    <2>1. op[k].state = "reconciliation_required"
        BY <1>3, <1>a DEF AdminDeadLetter, Unsettled, ProtocolInv, EventAgreesWithOperation, Agrees
    <2>2. QED
        BY <1>3, <1>a, <2>1, AdminDeadLetterSettles, SettlingIsImplemented
<1>4. QED
    BY <1>1, <1>2, <1>3 DEF AdminStep

\* Every step of the saga is a step of a conversion or leaves all of them alone.
LEMMA StepImplements ==
    ASSUME CleanProvider
    PROVE  SagaInv /\ SagaInv' /\ [Next]_vars => Implemented
<1> SUFFICES ASSUME SagaInv, SagaInv', [Next]_vars PROVE Implemented
    OBVIOUS
<1>1. CASE \E r \in Requests : RequestContinues(r)
    BY <1>1, RequestImplements
<1>2. CASE \E w \in Workers : WorkerStep(w)
    BY <1>2, WorkerImplements
<1>3. CASE AdminStep
    BY <1>3, AdminImplements
<1>4. CASE \/ \E r \in Requests, k \in Keys, u \in Users, kind \in {"sell", "buy"},
                 arg \in Args : Begin(r, k, u, kind, arg)
           \/ \E u \in Users : LockExpires(u)
           \/ Environment
           \/ UNCHANGED vars
    <2>1. UNCHANGED <<op, paid, moved>>
        BY <1>4 DEF Begin, LockExpires, Environment, Crash, WorkerCrash, Catch, Earn, vars
    <2>2. QED
        BY <2>1, QuietIsImplemented
<1>5. QED
    BY <1>1, <1>2, <1>3, <1>4 DEF Next

\* In the beginning there is no conversion.
LEMMA InitImplements == Init => Promise!Init
  BY DEF Init, Promise!Init, NoOperation, StatusOf

\* The saga of rows, locks, leases, retries and crashes implements the abstract
\* conversion, provided that the replies of the provider tell an applied write
\* from a refused one (economy_service, se_job_runner, discord_admin_service).
THEOREM SagaImplementsConversion ==
    ASSUME CleanProvider
    PROVE  Spec => ImplementsConversion
<1>1. SagaInv /\ SagaInv' /\ [Next]_vars => [Promise!Next]_(Promise!vars)
    BY StepImplements DEF Implemented
<1>2. QED
    BY <1>1, InitImplements, SagaHolds, PTL DEF Spec, ImplementsConversion, Promise!Spec
=============================================================================
