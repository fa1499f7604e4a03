----------------------------- MODULE Conversion -----------------------------
(***************************************************************************)
(* What the fish economy promises of a conversion, without saying how it   *)
(* is kept: no locks, leases, requests, runners or lost replies.  A        *)
(* conversion has two sides, the points and the mass.  It is open until it *)
(* is settled; while it is open it can be left to a human; a viewer has    *)
(* one unsettled conversion at a time.  EconomySaga implements this.       *)
(***************************************************************************)
EXTENDS Integers

CONSTANTS
    Keys,       \* conversions, by idempotency key
    Users,      \* viewers
    None        \* no viewer yet

VARIABLES
    status,     \* "none", "open", "asked", "done", "undone", "abandoned"
    kind,       \* "none", "sell", "buy"
    owner,      \* the viewer
    paid,       \* the provider applied it (1) or not (0)
    moved       \* its mass has moved (1) or not (0)

vars == <<status, kind, owner, paid, moved>>

Init ==
    /\ status = [k \in Keys |-> "none"]
    /\ kind = [k \in Keys |-> "none"]
    /\ owner = [k \in Keys |-> None]
    /\ paid = [k \in Keys |-> 0]
    /\ moved = [k \in Keys |-> 0]

Unsettled(k) == status[k] \in {"open", "asked"}

Free(u) == \A k \in Keys : owner[k] = u => ~Unsettled(k)

-----------------------------------------------------------------------------

Opens(k, u, sort) ==
    /\ status[k] = "none" /\ Free(u)
    /\ kind' = [kind EXCEPT ![k] = sort]
    /\ owner' = [owner EXCEPT ![k] = u]
    /\ UNCHANGED paid

\* A sale begins with its mass, a purchase with nothing.
Begin(k, u, sort) ==
    /\ Opens(k, u, sort)
    /\ status' = [status EXCEPT ![k] = "open"]
    /\ moved' = [moved EXCEPT ![k] = IF sort = "sell" THEN 1 ELSE 0]

\* A conversion that cannot be made is over before it began.
Refuse(k, u, sort) ==
    /\ Opens(k, u, sort)
    /\ status' = [status EXCEPT ![k] = "undone"]
    /\ UNCHANGED moved

\* The provider credits a sale or debits a purchase, once.
Pay(k) ==
    /\ status[k] = "open" /\ paid[k] = 0
    /\ paid' = [paid EXCEPT ![k] = 1]
    /\ UNCHANGED <<status, kind, owner, moved>>

\* The provider gives back what it debited.
Refund(k) ==
    /\ status[k] = "open" /\ paid[k] = 1 /\ kind[k] = "buy"
    /\ paid' = [paid EXCEPT ![k] = 0]
    /\ UNCHANGED <<status, kind, owner, moved>>

Moves(k, s) ==
    /\ status' = [status EXCEPT ![k] = s]
    /\ UNCHANGED <<kind, owner, paid>>

\* Both sides, or ...
Complete(k) ==
    /\ Unsettled(k) /\ paid[k] = 1
    /\ Moves(k, "done")
    /\ moved' = [moved EXCEPT ![k] = 1]

\* ... neither.
Undo(k) ==
    /\ Unsettled(k) /\ paid[k] = 0
    /\ Moves(k, "undone")
    /\ moved' = [moved EXCEPT ![k] = 0]

\* A human is asked, and may have it tried again or give it up.
Ask(k) == status[k] = "open" /\ Moves(k, "asked") /\ UNCHANGED moved

Resume(k) ==
    /\ status[k] = "asked" /\ paid[k] = 0
    /\ Moves(k, "open") /\ UNCHANGED moved

Abandon(k) == status[k] = "asked" /\ Moves(k, "abandoned") /\ UNCHANGED moved

Next ==
    \E k \in Keys :
        \/ \E u \in Users, sort \in {"sell", "buy"} : Begin(k, u, sort) \/ Refuse(k, u, sort)
        \/ Pay(k) \/ Refund(k) \/ Complete(k) \/ Undo(k)
        \/ Ask(k) \/ Resume(k) \/ Abandon(k)

Spec == Init /\ [][Next]_vars
=============================================================================
