---------------------------- MODULE PlayerModifiers ----------------------------
(***************************************************************************)
(* What administrators give and take of one stat of one player             *)
(* (player_modifiers), from forms that may be old, while the player's      *)
(* casts, robberies and inventory resolve the stat.  Every operation locks *)
(* the row it changes before it reads it.                                  *)
(***************************************************************************)
EXTENDS AdminRequests, ModifierResolution

CONSTANTS
    Slots,          \* identities of rows: [scope, name], scope "all" or Scope
    Scope,          \* the scope the stat is resolved in
    Worn            \* contributions of the player's items and the event

ModifiersAssumption == \A s \in Slots : s.scope \in {"all", Scope}

VARIABLES
    rows,       \* player_modifiers by identity, or None
    window,     \* whether a row's time is to come, has come or is over
    born,       \* rows made so far: the id of the newest
    seen,       \* the row the author of a request saw in a form, or None
    edits       \* history: what a committed edit had seen and what it found

modifierVars == <<rows, window, born, seen, edits>>
vars == <<requestVars, modifierVars>>

Windows == {"before", "open", "over"}

Init ==
    /\ RequestInit
    /\ rows = [s \in Slots |-> None]
    /\ window = [s \in Slots |-> "open"]
    /\ born = 0
    /\ seen = [k \in Keys |-> None]
    /\ edits = {}

TypeOK ==
    /\ \A s \in Slots : rows[s] = None
        \/ rows[s] \in [id : 1 .. born, op : Operations, value : Int, version : Nat \ {0},
                        enabled : BOOLEAN]
    /\ window \in [Slots -> Windows]
    /\ born <= Len(applied)

Slot(h) == Op(h).slot
Row(h) == rows[Slot(h)]
Seen(h) == seen[handler[h].key]

-----------------------------------------------------------------------------
(* Plausible bugs.                                                             *)

\* VersionFits, nobody compares the versions.
AnyVersionFits(h) == TRUE

\* NextVersion, a new row starts before the first version.
CountsFromZero(h) == IF Row(h) = None THEN 0 ELSE Row(h).version + 1

-----------------------------------------------------------------------------

\* An administrator opens the form that a request is going to be sent from.
Look(k) ==
    /\ sent[k] = 0 /\ seen[k] = None
    /\ seen' = [seen EXCEPT ![k] = rows[OpOf[k].slot]]
    /\ rows[OpOf[k].slot] # None
    /\ UNCHANGED <<requestVars, rows, window, born, edits>>

VersionFits(h) == Row(h).version = Seen(h).version

Changes(h, row) ==
    /\ rows' = [rows EXCEPT ![Slot(h)] = row]
    /\ edits' = edits \union {[saw |-> Seen(h), found |-> Row(h)]}
    /\ Commit(h, row)
    /\ UNCHANGED seen

Keeps == UNCHANGED <<rows, window, born, edits, seen>>

\* An update says which version it has seen, a new row that it has seen none.
Expected(h) ==
    IF Row(h) = None \/ Seen(h) = None THEN Row(h) = Seen(h) ELSE VersionFits(h)

NextVersion(h) == IF Row(h) = None THEN 1 ELSE Row(h).version + 1

\* set_player_modifier; the row it leaves is enabled.
SetModifier(h) ==
    LET o == Op(h)
        fresh == Row(h) = None
        row == [id |-> IF fresh THEN born + 1 ELSE Row(h).id, op |-> o.op, value |-> o.value,
                version |-> NextVersion(h), enabled |-> TRUE]
    IN
    /\ Serves(h, "asked", {"set"})
    /\ \/ /\ Expected(h)
          /\ Changes(h, row)
          /\ born' = IF fresh THEN born + 1 ELSE born
          /\ window' = [window EXCEPT ![o.slot] = o.window]
       \/ ~ Expected(h) /\ Refuse(h, "conflict") /\ Keeps
       \/ Clash(h) /\ Keeps

\* The row with the id of the form is still there.
SameRow(h) == IF Row(h) = None \/ Seen(h) = None THEN FALSE ELSE Row(h).id = Seen(h).id

\* set_player_modifier_state and remove_player_modifier work on a row by its id.
OnRow(h, kind, row) ==
    /\ Serves(h, "asked", {kind})
    /\ IF ~ SameRow(h) THEN Refuse(h, "gone") /\ Keeps
       ELSE \/ VersionFits(h) /\ Changes(h, row) /\ UNCHANGED <<born, window>>
            \/ ~ VersionFits(h) /\ Refuse(h, "conflict") /\ Keeps
            \/ Clash(h) /\ Keeps

SetState(h) ==
    OnRow(h, "state",
        IF Row(h) = None THEN None
        ELSE [Row(h) EXCEPT !.enabled = Op(h).enabled, !.version = @ + 1])

RemoveModifier(h) == OnRow(h, "remove", None)

\* starts_at or expires_at passes.
Pass(s) ==
    /\ rows[s] # None /\ window[s] # "over"
    /\ window' = [window EXCEPT ![s] = IF @ = "before" THEN "open" ELSE "over"]
    /\ UNCHANGED <<requestVars, rows, born, seen, edits>>

EngineStops == Crash /\ Keeps

Next ==
    \/ \E h \in Handlers, k \in Keys : Receive(h, k) /\ UNCHANGED modifierVars
    \/ \E k \in Keys : Look(k)
    \/ \E h \in Handlers : SetModifier(h) \/ SetState(h) \/ RemoveModifier(h)
    \/ \E s \in Slots : Pass(s)
    \/ EngineStops

Spec == Init /\ [][Next]_vars

-----------------------------------------------------------------------------

\* _player_contributions: the enabled rows within their time.
Given ==
    {Contribution("player_modifier", s.name, rows[s].op, rows[s].value) :
        s \in {t \in Slots : rows[t] # None /\ rows[t].enabled /\ window[t] = "open"}}

Entries == Worn \o SetToSeq(Given)

\* What the form says is overwritten: an edit changes exactly the row its author
\* saw ("the backend rejects the stale form and no data is overwritten").
EditsWhatItsAuthorSaw == \A e \in edits : e.saw = e.found

\* What administrators may store, casts can resolve (PlayerModifierService.resolve
\* serves every cast, robbery and change of the inventory).
StatsResolve == ~ Conflict(Entries)
=============================================================================
