-------------------------- MODULE ModifierResolution --------------------------
(***************************************************************************)
(* What one stat of a player comes to: PlayerModifierResolver, the lenient *)
(* reading of an event's modifiers and of the older keys.  A contribution  *)
(* says how it changes the stat, from which source; values are whole       *)
(* percents, and products are rounded where the code keeps decimals.       *)
(***************************************************************************)
EXTENDS Integers, Sequences, SequencesExt, FiniteSetsExt

CONSTANTS
    Lowest, Highest     \* STAT_REGISTRY: the bounds of the stat

BoundsAssumption == Lowest \in Int /\ Highest \in Int /\ Lowest <= 0 /\ 0 <= Highest

Operations == {"add", "multiply", "override", "min", "max"}
Sources == {"item", "event", "player_modifier"}

\* priority: items before events before what administrators gave the player.
Priority == [item |-> 100, event |-> 200, player_modifier |-> 300]

Contribution(source, name, op, value) ==
    [source |-> source, name |-> name, op |-> op, value |-> value]

Cap(value, low, high) == IF value > high THEN high ELSE IF value < low THEN low ELSE value

-----------------------------------------------------------------------------
(* Plausible bugs.                                                             *)

\* Before, contributions are ordered by priority alone.
BeforeByPriority(a, b) == Priority[a.source] < Priority[b.source]

\* Limited, an override is final.
OverrideIsFinal(entries, value) ==
    LET mins == {e \in ToSet(entries) : e.op = "min"}
        low == IF mins = {} THEN value ELSE Max({e.value : e \in mins} \union {value})
    IN  IF \E e \in ToSet(entries) : e.op = "override" THEN value ELSE low

\* Readable, what does not fit the schema is passed on.
ReadableAsStored(raw, low, high) == raw

-----------------------------------------------------------------------------

\* The order the entries of a stat are resolved in; names are numbers here.
Before(a, b) ==
    \/ Priority[a.source] < Priority[b.source]
    \/ a.source = b.source /\ a.name < b.name

Valued(entries, op) == SelectSeq(entries, LAMBDA e : e.op = op)

Summed(entries) == FoldLeft(LAMBDA total, e : total + e.value, 0, Valued(entries, "add"))

\* The multipliers are percents as well.
Multiplied(entries, value) ==
    LET factors == Valued(entries, "multiply")
    IN  FoldLeft(LAMBDA x, e : x * e.value, value, factors) \div 100^Len(factors)

\* The last override in the order counts.
Overridden(entries, value) ==
    LET overrides == Valued(SortSeq(entries, Before), "override")
    IN  IF overrides = <<>> THEN value ELSE Last(overrides).value

Least(entries) == {e.value : e \in ToSet(Valued(entries, "min"))}
Most(entries) == {e.value : e \in ToSet(Valued(entries, "max"))}

\* "Conflicting min and max modifiers": resolve raises.
Conflict(entries) ==
    Least(entries) # {} /\ Most(entries) # {} /\ Max(Least(entries)) > Min(Most(entries))

Limited(entries, value) ==
    LET raised == Max(Least(entries) \union {value})
    IN  Min(Most(entries) \union {raised})

\* resolve, for one stat of which the player has nothing by itself.
Resolved(entries) ==
    Cap(Limited(entries, Overridden(entries, Multiplied(entries, Summed(entries)))),
        Lowest, Highest)

\* parse_event_modifiers_lenient: what an event stored is brought within the
\* bounds of today's schema, low and high.
Readable(raw, low, high) == Cap(raw, low, high)

\* An event that gives nothing makes no contribution.
EventEntries(raw, low, high) ==
    IF Readable(raw, low, high) = 0 THEN <<>>
    ELSE <<Contribution("event", 1, "add", Readable(raw, low, high))>>

\* EventModifiersV2 accepts the value.
Accepted(value, low, high) == low <= value /\ value <= high
=============================================================================
