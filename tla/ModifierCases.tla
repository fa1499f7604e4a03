---------------------------- MODULE ModifierCases ----------------------------
(***************************************************************************)
(* Every way a few contributions can come together, in the order the       *)
(* database returns them, with any event stored under older bounds.        *)
(***************************************************************************)
EXTENDS ModifierResolution

CONSTANTS
    Offers,         \* contributions there may be, of different names
    Stored,         \* values an event may have stored
    Low, High,      \* bounds of the event schema for the stat
    MaxEntries      \* bound on contributions at a time

VARIABLES entries, raw

vars == <<entries, raw>>

Init == entries = <<>> /\ raw \in Stored

SameName(a, b) == a.source = b.source /\ a.name = b.name

Add(c) ==
    /\ Len(entries) < MaxEntries
    /\ \A e \in ToSet(entries) : ~ SameName(e, c)
    /\ entries' = Append(entries, c)
    /\ UNCHANGED raw

Next == \E c \in Offers : Add(c)

Spec == Init /\ [][Next]_vars

All == EventEntries(raw, Low, High) \o entries

-----------------------------------------------------------------------------

\* A stat does not depend on the order in which rows are read: of the overrides
\* the same one wins (PlayerModifierResolver sorts by priority, source and key).
OrderNeverMatters ==
    ~ Conflict(entries) =>
        \A i, j \in 1 .. Len(entries) :
            Resolved(All) = Resolved([All EXCEPT
                ![i + Len(All) - Len(entries)] = entries[j],
                ![j + Len(All) - Len(entries)] = entries[i]])

\* A minimum or maximum within the stat's bounds holds whatever else there is,
\* also against an override.
LimitsHold ==
    ~ Conflict(All) =>
        \A e \in ToSet(All) :
            /\ e.op = "min" => Resolved(All) >= Cap(e.value, Lowest, Highest)
            /\ e.op = "max" => Resolved(All) <= Cap(e.value, Lowest, Highest)

\* Whatever an event has stored, what is read of it fits the schema, and what
\* fits is read as it is (parse_event_modifiers_lenient).
EventsNeverFailCasts ==
    /\ Accepted(Readable(raw, Low, High), Low, High)
    /\ Accepted(raw, Low, High) => Readable(raw, Low, High) = raw
=============================================================================
