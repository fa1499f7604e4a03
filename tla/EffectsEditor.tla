----------------------------- MODULE EffectsEditor -----------------------------
(***************************************************************************)
(* The editor of a draft's effects: one message whose cards (the list, the *)
(* picker, the warning, the operations, the form) replace one another, and *)
(* the forms opened from it.  One administrator, with one or more Discord  *)
(* clients; the editor's object outlives each answer, and an answer may    *)
(* get lost after the handler has changed it.                              *)
(***************************************************************************)
EXTENDS Integers, Sequences, FiniteSets

CONSTANTS
    Clients,        \* Discord clients of the administrator
    Stats,          \* stats an effect adds to or multiplies
    Triggered,      \* triggered effects
    Values,         \* what is typed into a form
    StandardMax,    \* STANDARD_MAX_EFFECTS
    AdvancedMax,    \* ADVANCED_MAX_EFFECTS
    Drafts,         \* effects a draft comes with
    MaxLost,        \* bound on lost answers
    None

EffectsEditorAssumption ==
    StandardMax \in Nat /\ AdvancedMax \in Nat /\ StandardMax <= AdvancedMax /\ MaxLost \in Nat

VARIABLES
    effects,    \* the list
    selected,   \* position of the selected effect, or 0
    advanced,   \* whether the advanced mode is on
    options,    \* what the list's control offers: identities, in order
    stopped,    \* whether the editor was left
    result,     \* what it handed on, or None
    message,    \* the card the message has
    seen,       \* the card each client shows
    modal,      \* the form each client has open, or None
    lost        \* answers lost

state == <<effects, selected, advanced, options, stopped, result>>
vars == <<state, message, seen, modal, lost>>

\* effect_identity, of the effects without a reference to another entity.
Identity(e) == [op |-> e.op, of |-> e.of]
Identities(es) == [i \in DOMAIN es |-> Identity(es[i])]
Duplicate(es, e) == \E i \in DOMAIN es : Identity(es[i]) = Identity(e)

\* A plausible bug of AutoAdvanced: multiplied stats are forgotten.
OnlyByLength(es) == Len(es) > StandardMax

\* A draft that overflows the standard editor, or multiplies, opens in advanced mode.
AutoAdvanced(es) == Len(es) > StandardMax \/ \E i \in DOMAIN es : es[i].op = "multiply"

MaxEffects == IF advanced THEN AdvancedMax ELSE StandardMax

-----------------------------------------------------------------------------
(* The cards                                                                   *)

\* _update_buttons.
Enabled(es, at, adv) ==
    {"continue", "back", "cancel"}
    \union (IF at # 0 THEN {"edit", "remove"} ELSE {})
    \union (IF at > 1 THEN {"up"} ELSE {})
    \union (IF at # 0 /\ at < Len(es) THEN {"down"} ELSE {})
    \union (IF Len(es) < (IF adv THEN AdvancedMax ELSE StandardMax) THEN {"add"} ELSE {})
    \union (IF adv THEN {} ELSE {"advanced"})

\* The list: what the controls' construction left in options, not the list itself.
EditorCard(es, at, adv, offered) ==
    [kind |-> "editor", options |-> offered, can |-> Enabled(es, at, adv)]

PickerCard(category, offered) == [kind |-> "picker", category |-> category, offered |-> offered]

\* _effect_options.
Offered(category) ==
    CASE category = "triggered" ->
            {t \in Triggered : ~ Duplicate(effects, [op |-> "trigger", of |-> t])}
      [] category = "advanced" ->
            {s \in Stats : ~ (Duplicate(effects, [op |-> "add", of |-> s])
                              /\ Duplicate(effects, [op |-> "multiply", of |-> s]))}
      [] OTHER -> {s \in Stats : ~ Duplicate(effects, [op |-> "add", of |-> s])}

Operations(s) == {op \in {"add", "multiply"} : ~ Duplicate(effects, [op |-> op, of |-> s])}

\* An answer shows a card to the client that asked, and to the others when the
\* message reaches them; it may be lost, and the card stays.
Answer(c, card) ==
    \/ message' = card /\ seen' = [seen EXCEPT ![c] = card] /\ UNCHANGED lost
    \/ lost < MaxLost /\ lost' = lost + 1 /\ UNCHANGED <<message, seen>>

ShowEditor(c) ==
    Answer(c, EditorCard(effects', selected', advanced', options'))

\* A form covers the client that asked for it.
OpenModal(c, what, at, from) ==
    /\ modal' = [modal EXCEPT ![c] = [what |-> what, at |-> at, from |-> from]]
    /\ UNCHANGED <<state, message, seen, lost>>

-----------------------------------------------------------------------------

Init ==
    /\ effects \in Drafts
    /\ selected = 0 /\ advanced = AutoAdvanced(effects)
    /\ options = Identities(effects)
    /\ stopped = FALSE /\ result = None
    /\ message = EditorCard(effects, 0, advanced, options)
    /\ seen = [c \in Clients |-> message]
    /\ modal = [c \in Clients |-> None]
    /\ lost = 0

\* The message reaches a client that did not ask.
Receive(c) ==
    /\ seen[c] # message
    /\ seen' = [seen EXCEPT ![c] = message]
    /\ UNCHANGED <<state, message, modal, lost>>

\* A control of the list is used: the editor still listens.
Uses(c, control) ==
    /\ modal[c] = None /\ ~ stopped
    /\ seen[c].kind = "editor" /\ control \in seen[c].can

Pick(c) ==
    /\ modal[c] = None /\ ~ stopped /\ seen[c].kind = "editor"
    /\ \E i \in DOMAIN seen[c].options :
        /\ selected' = i /\ options' = Identities(effects)
        /\ UNCHANGED <<effects, advanced, stopped, result>>
        /\ ShowEditor(c)
    /\ UNCHANGED modal

\* A stale selection is ignored, or fails beyond the list's end.
Selectable == selected \in DOMAIN effects

EditSelected(c) ==
    /\ Uses(c, "edit") /\ Selectable
    /\ LET e == effects[selected]
       IN IF e.op = "trigger"
          THEN /\ Answer(c, [kind |-> "form", what |-> Identity(e), at |-> selected, from |-> e])
               /\ UNCHANGED <<state, modal>>
          ELSE OpenModal(c, Identity(e), selected, e)

\* A plausible bug of RemoveSelected: the selection stays.
RemoveKeepsSelection(c) ==
    /\ Uses(c, "remove") /\ Selectable
    /\ effects' = [i \in 1 .. Len(effects) - 1 |-> IF i < selected THEN effects[i] ELSE effects[i + 1]]
    /\ options' = Identities(effects')
    /\ UNCHANGED <<selected, advanced, stopped, result, modal>>
    /\ ShowEditor(c)

RemoveSelected(c) ==
    /\ Uses(c, "remove") /\ Selectable
    /\ effects' = [i \in 1 .. Len(effects) - 1 |-> IF i < selected THEN effects[i] ELSE effects[i + 1]]
    /\ selected' = 0 /\ options' = Identities(effects')
    /\ UNCHANGED <<advanced, stopped, result, modal>>
    /\ ShowEditor(c)

\* The two neighbours change places; the control's options are not built again.
Move(c, control, to) ==
    /\ Uses(c, control) /\ Selectable /\ to \in DOMAIN effects
    /\ effects' = [effects EXCEPT ![selected] = effects[to], ![to] = effects[selected]]
    /\ selected' = to
    /\ UNCHANGED <<advanced, options, stopped, result, modal>>
    /\ ShowEditor(c)

MoveUp(c) == Move(c, "up", selected - 1)
MoveDown(c) == Move(c, "down", selected + 1)

AddButton(c) ==
    /\ Uses(c, "add") /\ Len(effects) < MaxEffects
    /\ Answer(c, PickerCard(None, {}))
    /\ UNCHANGED <<state, modal>>

AdvancedMode(c) ==
    /\ Uses(c, "advanced") /\ ~ advanced
    /\ Answer(c, [kind |-> "warning", then |-> "editor"])
    /\ UNCHANGED <<state, modal>>

\* Continue hands the list on; Back and Cancel hand on nothing.
Leave(c, control) ==
    /\ Uses(c, control) /\ stopped' = TRUE
    /\ result' = IF control = "continue" THEN effects ELSE None
    /\ Answer(c, [kind |-> "left"])
    /\ UNCHANGED <<effects, selected, advanced, options, modal>>

-----------------------------------------------------------------------------
(* Adding an effect                                                            *)

\* Another card than the list is used; its view listens on its own.
UsesCard(c, kind) == modal[c] = None /\ seen[c].kind = kind

PickCategory(c) ==
    /\ UsesCard(c, "picker")
    /\ \E category \in {"stats", "triggered", "advanced"} :
        Answer(c, IF category = "advanced" /\ ~ advanced
                  THEN [kind |-> "warning", then |-> "picker"]
                  ELSE PickerCard(category, Offered(category)))
    /\ UNCHANGED <<state, modal>>

\* Cancel, and "No new effects available", show the list again.
BackToList(c) ==
    /\ \E kind \in {"picker", "warning", "operation", "form"} : UsesCard(c, kind)
    /\ options' = Identities(effects)
    /\ UNCHANGED <<effects, selected, advanced, stopped, result, modal>>
    /\ ShowEditor(c)

WarningContinue(c) ==
    /\ UsesCard(c, "warning")
    /\ advanced' = TRUE
    /\ IF seen[c].then = "picker"
       THEN /\ Answer(c, PickerCard("advanced", Offered("advanced")))
            /\ UNCHANGED <<effects, selected, options, stopped, result>>
       ELSE /\ options' = Identities(effects)
            /\ UNCHANGED <<effects, selected, stopped, result>>
            /\ ShowEditor(c)
    /\ UNCHANGED modal

PickEffect(c) ==
    /\ UsesCard(c, "picker")
    /\ \E k \in seen[c].offered :
        CASE seen[c].category = "triggered" ->
                /\ Answer(c, [kind |-> "form", what |-> [op |-> "trigger", of |-> k],
                              at |-> 0, from |-> None])
                /\ UNCHANGED <<state, modal>>
          [] seen[c].category = "advanced" ->
                /\ Answer(c, [kind |-> "operation", of |-> k, offered |-> Operations(k)])
                /\ UNCHANGED <<state, modal>>
          [] OTHER -> OpenModal(c, [op |-> "add", of |-> k], 0, None)

OperationContinue(c) ==
    /\ UsesCard(c, "operation")
    /\ \E op \in seen[c].offered : OpenModal(c, [op |-> op, of |-> seen[c].of], 0, None)

FormContinue(c) ==
    /\ UsesCard(c, "form")
    /\ OpenModal(c, seen[c].what, seen[c].at, seen[c].from)

Dismiss(c) ==
    /\ modal[c] # None
    /\ modal' = [modal EXCEPT ![c] = None]
    /\ UNCHANGED <<state, message, seen, lost>>

\* A plausible bug of Appended: an effect is added whatever there is.
AppendedAlways(e) == Append(effects, e)
Appended(e) == IF Duplicate(effects, e) THEN effects ELSE Append(effects, e)

\* A plausible bug of Replaced: the position counts from one.
ReplacedNext(at, e) ==
    IF at \notin DOMAIN effects THEN effects
    ELSE [effects EXCEPT ![IF at = Len(effects) THEN at ELSE at + 1] = e]

\* _replace, at the position the form was opened for.
Replaced(at, e) ==
    LET others == {i \in DOMAIN effects : i # at}
    IN IF at \notin DOMAIN effects \/ \E i \in others : Identity(effects[i]) = Identity(e)
       THEN effects
       ELSE [effects EXCEPT ![at] = e]

\* A plausible bug of Submit: the answer leaves the card the form was opened from.
SubmitInPlace(c) ==
    /\ modal[c] # None
    /\ \E v \in Values :
        LET e == [op |-> modal[c].what.op, of |-> modal[c].what.of, v |-> v]
        IN effects' = IF modal[c].at = 0 THEN Appended(e) ELSE Replaced(modal[c].at, e)
    /\ options' = Identities(effects')
    /\ modal' = [modal EXCEPT ![c] = None]
    /\ UNCHANGED <<selected, advanced, stopped, result, message, seen, lost>>

\* A form that was sent: the editor's list changes and shows itself; when the
\* answer is lost the form stays open, and may be sent again.
Submit(c) ==
    /\ modal[c] # None
    /\ \E v \in Values :
        LET e == [op |-> modal[c].what.op, of |-> modal[c].what.of, v |-> v]
        IN effects' = IF modal[c].at = 0 THEN Appended(e) ELSE Replaced(modal[c].at, e)
    /\ options' = Identities(effects')
    /\ UNCHANGED <<selected, advanced, stopped, result>>
    /\ ShowEditor(c)
    /\ modal' = IF lost' = lost THEN [modal EXCEPT ![c] = None] ELSE modal

Next ==
    \E c \in Clients :
        \/ Receive(c)
        \/ Pick(c)
        \/ EditSelected(c)
        \/ RemoveSelected(c)
        \/ MoveUp(c)
        \/ MoveDown(c)
        \/ AddButton(c)
        \/ AdvancedMode(c)
        \/ \E control \in {"continue", "back", "cancel"} : Leave(c, control)
        \/ PickCategory(c)
        \/ BackToList(c)
        \/ WarningContinue(c)
        \/ PickEffect(c)
        \/ OperationContinue(c)
        \/ FormContinue(c)
        \/ Dismiss(c)
        \/ Submit(c)

Spec == Init /\ [][Next]_vars

-----------------------------------------------------------------------------

\* The type of each variable; with one client the selection is within the list.
TypeOK ==
    /\ \A i \in DOMAIN effects : effects[i].v \in Values
    /\ selected \in 0 .. Len(effects) /\ advanced \in BOOLEAN /\ lost \in 0 .. MaxLost
    /\ result # None => stopped
    /\ \A c \in Clients : modal[c] # None => modal[c].at \in 0 .. AdvancedMax

\* Whatever is clicked, sent again and interleaved by several clients, no effect
\* is there twice ("Duplicate effect is not allowed").
NoDuplicates ==
    \A i, j \in DOMAIN effects :
        effects[i].op = effects[j].op /\ effects[i].of = effects[j].of => i = j

\* Multiplying a stat is only reached through the warning ("Once advanced mode is
\* enabled ... low-level controls become reachable").
MultiplyIsAdvanced == (\E i \in DOMAIN effects : effects[i].op = "multiply") => advanced

\* The list is "capped at STANDARD_MAX_EFFECTS in standard mode /
\* ADVANCED_MAX_EFFECTS in advanced mode".
Capped == Len(effects) <= (IF advanced THEN AdvancedMax ELSE StandardMax)

\* One step of FormsHitTheirOwn.
FormsHitTheirOwnStep ==
    \A c \in Clients : modal[c] # None /\ effects' # effects =>
      IF modal[c].from = None
      THEN Len(effects') = Len(effects) + 1 /\ SubSeq(effects', 1, Len(effects)) = effects
      ELSE \E i \in DOMAIN effects :
              /\ effects[i].op = modal[c].from.op /\ effects[i].of = modal[c].from.of
              /\ DOMAIN effects' = DOMAIN effects
              /\ \A j \in DOMAIN effects : j # i => effects'[j] = effects[j]
              /\ effects'[i].op = effects[i].op /\ effects'[i].of = effects[i].of

\* A form of one client that edits changes the value of the effect it showed, and
\* no other; a form that adds leaves the others as they are.
FormsHitTheirOwn == [][FormsHitTheirOwnStep]_vars

\* The control an effect is picked with names the effects in their order ("The
\* editor refreshes its own message in place after every change").
OptionsNameEffects ==
    \A c \in Clients :
        seen[c].kind = "editor" =>
            seen[c].options = [i \in DOMAIN effects |-> [op |-> effects[i].op, of |-> effects[i].of]]
=============================================================================
