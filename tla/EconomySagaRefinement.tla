------------------------ MODULE EconomySagaRefinement -----------------------
(***************************************************************************)
(* EconomySaga implements Conversion: what an operation row says of its    *)
(* conversion, and the refinement.                                         *)
(***************************************************************************)
EXTENDS EconomySagaInvariant

\* Six states of the row are stages of an open conversion; one asks a human.
StatusOf(state) ==
    CASE state = "none" -> "none"
      [] state = "reconciliation_required" -> "asked"
      [] state = "completed" -> "done"
      [] state = "dead_letter" -> "abandoned"
      [] state \in {"compensated", "failed"} -> "undone"
      [] OTHER -> "open"

Promise == INSTANCE Conversion WITH
    status <- [k \in Keys |-> StatusOf(op[k].state)],
    kind <- [k \in Keys |-> op[k].kind],
    owner <- [k \in Keys |-> op[k].user]

\* Requests, runners, administrators and crashes together do to a conversion
\* only what its abstract specification allows, in the order it allows.
ImplementsConversion == Promise!Spec
=============================================================================
