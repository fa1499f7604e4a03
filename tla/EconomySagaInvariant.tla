------------------------ MODULE EconomySagaInvariant ------------------------
(***************************************************************************)
(* Why conversions settle on both sides or on neither: the inductive       *)
(* invariant of EconomySaga.  A carrier is the one request or runner that  *)
(* holds an operation between its claim and its answer; what the provider  *)
(* did for the operation is a function of the carrier's program counter    *)
(* and of the answer it was given.                                         *)
(***************************************************************************)
EXTENDS EconomySaga

\* The provider's replies tell an applied write from a refused one.
CleanProvider ==
    /\ "garbled" \notin WriteOutcomes
    /\ "bare" \in WriteOutcomes => ReadOutcomes \subseteq {"ok"}

Carrying(r) == req[r].pc \in RequestSteps \ {"idle", "balance"}

Working(w) == worker[w].pc # "idle"

Count(b) == IF b THEN 1 ELSE 0

\* A request carries the operation it created, still in its first state.
RequestCarries ==
    \A r \in Requests : Carrying(r) =>
        /\ req[r].key \in Keys
        /\ event[req[r].key].state = "processing"
        /\ op[req[r].key].user = req[r].user /\ req[r].user \in Users
        /\ op[req[r].key].kind = req[r].kind
        /\ \/ req[r].kind = "sell" /\ op[req[r].key].state = "processing"
              /\ req[r].pc \in {"write", "answered"}
           \/ req[r].kind = "buy" /\ op[req[r].key].state = "external_pending"
        /\ req[r].pc \in {"answered", "refunded"} => req[r].out \in WriteOutcomes

\* A request that waits for a balance remembers a viewer and a key.
RequestWaits ==
    \A r \in Requests : req[r].pc = "balance" =>
        /\ req[r].key \in Keys /\ req[r].user \in Users
        /\ req[r].kind \in {"sell", "buy"} /\ req[r].arg \in Args

\* A runner carries the operation it claimed.
RunnerCarries ==
    \A w \in Workers : Working(w) =>
        /\ worker[w].key \in Keys
        /\ event[worker[w].key].state = "processing"
        /\ op[worker[w].key].state = "processing"
        /\ worker[w].pc = "answered" => worker[w].out \in WriteOutcomes

\* Nobody shares an operation.
OneCarrier ==
    /\ \A q, r \in Requests :
          Carrying(q) /\ Carrying(r) /\ req[q].key = req[r].key => q = r
    /\ \A v, w \in Workers :
          Working(v) /\ Working(w) /\ worker[v].key = worker[w].key => v = w
    /\ \A r \in Requests, w \in Workers :
          ~(Carrying(r) /\ Working(w) /\ req[r].key = worker[w].key)

\* What the carrier knows of the provider's side.
CarrierKnowsPaid ==
    /\ \A r \in Requests : Carrying(r) =>
          paid[req[r].key] =
             Count(\/ req[r].pc \in {"refundRead", "refundWrite"}
                   \/ req[r].pc = "answered" /\ req[r].out \in AppliedOutcomes
                   \/ req[r].pc = "refunded" /\ req[r].out \notin AppliedOutcomes)
    /\ \A w \in Workers : Working(w) =>
          paid[worker[w].key] =
             Count(worker[w].pc = "answered" /\ worker[w].out \in AppliedOutcomes)

\* What the operation's state alone says of the two sides.
PaidByState ==
    \A k \in Keys :
        /\ paid[k] \in {0, 1}
        /\ op[k].state = "completed" => paid[k] = 1
        /\ op[k].state \in {"none", "queued", "pending", "compensated", "failed"}
              => paid[k] = 0

MovedByState ==
    \A k \in Keys :
        /\ op[k].state = "none" <=> op[k].kind = "none"
        /\ op[k].state # "none" => op[k].user \in Users
        /\ op[k].kind = "none" => moved[k] = 0
        /\ op[k].kind = "sell" =>
              /\ moved[k] = Count(op[k].state \notin {"compensated", "failed"})
              /\ op[k].comp <=> op[k].state = "compensated"
        /\ op[k].kind = "buy" =>
              /\ moved[k] = Count(op[k].state = "completed")
              /\ op[k].internal <=> op[k].state = "completed"

\* Where an operation stands and who carries it: inductive whatever the
\* provider answers.
ProtocolInv ==
    /\ TypeOK
    /\ RequestWaits
    /\ EventAgreesWithOperation
    /\ RequestCarries
    /\ RunnerCarries
    /\ OneCarrier
    /\ OneActiveOperation
    /\ MovedByState

\* What the provider did: inductive, together with ProtocolInv, under
\* CleanProvider.  Both imply AtomicSettlement and NeverBothSides.
SettlementInv ==
    /\ CarrierKnowsPaid
    /\ PaidByState

SagaInv == ProtocolInv /\ SettlementInv

\* Fishing leaves the mass alone: the other writer of the row is out of the way.
NoCatches == MaxCatches = 0

\* A request holds its viewer's lock from its first step to its last, and the
\* mass its session remembers is still the one in the row; before it has an
\* operation of its own, nobody else has one for that viewer.
Cached(r) ==
    req[r].pc # "idle" =>
        /\ req[r].user \in Users
        /\ lock[req[r].user] = r
        /\ req[r].snap = mass[req[r].user]
        /\ req[r].pc = "balance" => ~HasActiveOperation(req[r].user)

\* Why conversions alone lose no mass: inductive without catches, whatever the
\* provider answers.
CacheInv ==
    /\ ProtocolInv
    /\ mass = owed
    /\ \A r \in Requests : Cached(r)
=============================================================================
