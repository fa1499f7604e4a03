------------------------------ MODULE ItemWizard ------------------------------
(***************************************************************************)
(* The wizard that creates and edits an item in Discord: a session in      *)
(* Redis that expires, a card whose buttons answer until they are stopped  *)
(* or time out, a form over it that may be dismissed, and the engine that  *)
(* is asked to save, whose answer may be late or lost.  While a draft is   *)
(* saved its card goes on answering: the buttons are disabled in the view  *)
(* and not in the message, so the draft may be edited or the flow          *)
(* cancelled meanwhile.  One flow of one administrator; other              *)
(* administrators edit the same items.                                     *)
(***************************************************************************)
EXTENDS Naturals, Sequences, FiniteSets

CONSTANTS
    Ids,            \* stable item IDs
    Opened,         \* the item an edit is opened for
    Bodies,         \* what a draft may say besides its ID
    Blocked,        \* those with blocking errors (compatibility_issues)
    Refused,        \* those that are no definition (validate_item_shape)
    Cyclic,         \* those that close a cycle of items that grant each other
    Existing,       \* Existing[i]: the item before, or None
    Flows,          \* commands the flow may begin with
    Limit,          \* age at which a session or an idle card is over
    Attempts,       \* attempts of one confirmation (three in the code)
    MaxOthers,      \* bound on edits by others
    None

WizardAssumption ==
    /\ Opened \in Ids /\ Existing[Opened] # None 
    /\ Blocked \union Refused \union Cyclic \subseteq Bodies
    /\ Flows \subseteq {"create", "template", "edit", "effect-edit"}
    /\ Limit \in Nat \ {0} /\ Attempts \in Nat \ {0} /\ MaxOthers \in Nat
    /\ Existing \in [Ids -> [version : Nat \ {0}, body : Bodies] \union {None}]

VARIABLES
    flow,       \* the command
    step,       \* session.step, in the gateway's memory
    draft,      \* session.draft: [id, body, version]
    kept,       \* whether Redis has the session
    age, idle,  \* since Redis was written, since the card was used
    card, live, \* the card that is shown, and whether it answers
    form,       \* where the open form leads, or "none"
    call,       \* the confirmation that is being served: [view, sent, tries], or None
    late,       \* what attempts sent that the gateway has given up
    told,       \* what the administrator was told last
    items,      \* the engine's definitions: [version, body], or None
    recorded,   \* the payload recorded under the flow's key, or None
    seen,       \* the item as the draft was made from it, or None
    applied,    \* history: the flow's writes, with what they found
    others      \* edits by others

session == <<flow, step, draft, kept, age, seen>>
screen == <<idle, card, live, form, told>>
engine == <<items, recorded, applied>>
vars == <<session, screen, call, late, engine, others>>

Steps == {"template", "basic_info", "rarity", "mechanics", "effects", "review", "submitting", "done"}
Cards == {"none", "template", "rarity", "mechanics", "effects", "review", "review_mechanics",
          "review_effects", "conflict"}

\* What has become of the view whose confirmation is served: it is shown,
\* another card is shown in its place, or it is stopped.
Views == {"shown", "covered", "stopped"}

\* ALLOWED_TRANSITIONS.
Allowed ==
    [template |-> {"basic_info"}, basic_info |-> {"rarity", "template"},
     rarity |-> {"mechanics", "basic_info"}, mechanics |-> {"effects", "rarity"},
     effects |-> {"review", "mechanics"},
     review |-> {"submitting", "basic_info", "mechanics", "effects"},
     submitting |-> {"review", "done"}, done |-> {}]

Editing == flow \in {"edit", "effect-edit"}

\* _seed_draft_from_item.
Seeded(i) == [id |-> i, body |-> items[i].body, version |-> items[i].version]

Init ==
    /\ flow \in Flows
    /\ items = Existing
    /\ IF Editing THEN seen = Seeded(Opened) /\ draft = seen
       ELSE seen = None /\ \E b \in Bodies : draft = [id |-> None, body |-> b, version |-> None]
    /\ step = CASE flow = "create" -> "template" [] flow = "effect-edit" -> "effects"
                [] OTHER -> "basic_info"
    /\ card = CASE flow = "create" -> "template" [] flow = "effect-edit" -> "effects"
                [] OTHER -> "none"
    /\ live = (flow \in {"create", "effect-edit"})
    /\ form = IF flow \in {"template", "edit"} THEN "rarity" ELSE "none"
    /\ kept = TRUE /\ age = 0 /\ idle = 0
    /\ call = None /\ late = {} /\ told = "nothing"
    /\ recorded = None /\ applied = <<>> /\ others = 0

TypeOK ==
    /\ step \in Steps /\ card \in Cards /\ form \in {"none", "rarity", "review"}
    /\ {kept, live} \subseteq BOOLEAN /\ {age, idle} \subseteq 0 .. Limit
    /\ draft.id \in Ids \union {None} /\ draft.body \in Bodies
    /\ call # None => /\ step = "submitting" /\ call.view \in Views
                      /\ card \in {"review", "review_mechanics", "review_effects"}
    /\ \A i \in Ids : items[i] = None \/ items[i].version \in Nat \ {0}

-----------------------------------------------------------------------------
(* The session                                                                 *)

\* WizardSessionStore.update refuses a session that has expired.
Saved == kept /\ age' = 0 /\ UNCHANGED kept
Unsaved == ~ kept /\ UNCHANGED <<kept, age>>

Shows(c) == card' = c /\ live' = TRUE /\ UNCHANGED told

\* The callback has raised: a button's card was stopped, and nothing follows; a
\* form leaves what is shown as it was.
Stops == live' = FALSE /\ UNCHANGED <<card, told>>
Stays == UNCHANGED <<card, live, told>>

\* The button's answer is the form: the card below it has been stopped.
OpensForm(target) == form' = target /\ live' = FALSE /\ UNCHANGED card

\* ItemWizardSession.transition: the step is set before it is saved.
Moves(target, shown, fails) ==
    IF target \notin Allowed[step]
    THEN fails /\ UNCHANGED <<step, kept, age>>
    ELSE /\ step' = target
         /\ (Saved /\ shown) \/ (Unsaved /\ fails)

\* The session is saved and card c shown.
Keeps(c, fails) == (Saved /\ Shows(c)) \/ (Unsaved /\ fails)

Rest == UNCHANGED <<flow, late, engine, others>>
Uncalled == Rest /\ UNCHANGED call

\* A button of card c is used.
Used(c) == live /\ card = c /\ idle' = 0

\* The view whose confirmation is served, if it is shown, is so no longer.
Becomes(view) ==
    call' = IF call # None /\ call.view = "shown" THEN [call EXCEPT !.view = view] ELSE call

\* session.delete: cancelled or saved, the flow is over.
Deletes(what) ==
    /\ kept' = FALSE /\ live' = FALSE /\ told' = what
    /\ UNCHANGED <<step, age, card, form, draft, seen>>

\* Cancel in the effects opened from the review leads back to it (EffectsBack).
Cancel ==
    /\ live /\ card \in Cards \ {"none", "review_effects"} /\ idle' = 0
    /\ Deletes("cancelled") /\ Becomes("stopped") /\ Rest

-----------------------------------------------------------------------------
(* Steps                                                                       *)

TemplateContinue ==
    /\ Used("template")
    /\ \E b \in Bodies : draft' = [draft EXCEPT !.body = b]
    /\ Moves("basic_info", OpensForm("rarity") /\ UNCHANGED told, Stops /\ UNCHANGED form)
    /\ UNCHANGED seen /\ Uncalled

\* The form is closed without being sent.
Dismiss ==
    /\ form # "none" /\ form' = "none"
    /\ UNCHANGED <<session, idle, card, live, told>> /\ Uncalled

\* BasicInfoModal of a wizard's step; a creation asks whether the ID is taken,
\* which may fail.
SubmitBasic ==
    /\ form = "rarity" /\ form' = "none" /\ idle' = 0
    /\ \E i \in Ids, b \in Bodies :
        IF ~ Editing /\ items[i] # None
        THEN told' = "choose another ID" /\ UNCHANGED <<step, draft, kept, age, card, live>>
        ELSE \/ /\ draft' = [draft EXCEPT !.id = i, !.body = b]
                /\ Moves("rarity", Shows("rarity"), Stays)
             \/ /\ ~ Editing /\ told' = "not verified"
                /\ UNCHANGED <<step, draft, kept, age, card, live>>
    /\ UNCHANGED seen /\ Uncalled

\* BasicInfoModal opened from the review; it may be sent while the draft is
\* saved, or over a conflict.
SubmitReviewed ==
    /\ form = "review" /\ form' = "none" /\ idle' = 0
    /\ \E i \in Ids, b \in Bodies : draft' = [draft EXCEPT !.id = i, !.body = b]
    /\ Keeps("review", Stays)
    /\ IF kept THEN Becomes("covered") ELSE UNCHANGED call
    /\ UNCHANGED <<step, seen>> /\ Rest

\* Choices a card keeps to itself: a template, a rarity, effects.
Choose ==
    /\ live /\ card \in {"template", "rarity", "effects", "review_effects"} /\ idle' = 0
    /\ UNCHANGED <<session, card, live, form, told>> /\ Uncalled

RarityContinue ==
    /\ Used("rarity")
    /\ \E b \in Bodies : draft' = [draft EXCEPT !.body = b]
    /\ Moves("mechanics", Shows("mechanics"), Stops)
    /\ UNCHANGED <<form, seen>> /\ Uncalled

RarityBack ==
    /\ Used("rarity")
    /\ Moves("basic_info", OpensForm("rarity") /\ UNCHANGED told, Stops /\ UNCHANGED form)
    /\ UNCHANGED <<draft, seen>> /\ Uncalled

\* A control of the mechanics card saves the draft at once.
MechanicsChoose ==
    /\ Used("mechanics") \/ Used("review_mechanics")
    /\ \E b \in Bodies : draft' = [draft EXCEPT !.body = b]
    /\ Keeps(card, Stays)
    /\ UNCHANGED <<step, form, seen>> /\ Uncalled

\* From the review the card leads back to it, whatever the step.
MechanicsContinue ==
    /\ \/ Used("review_mechanics") /\ Keeps("review", Stops) /\ UNCHANGED step
       \/ Used("mechanics") /\ Moves("effects", Shows("effects"), Stops)
    /\ UNCHANGED <<draft, form, seen>> /\ Uncalled

MechanicsBack ==
    /\ \/ Used("review_mechanics") /\ Shows("review") /\ UNCHANGED <<step, kept, age>>
       \/ Used("mechanics") /\ Moves("rarity", Shows("rarity"), Stops)
    /\ UNCHANGED <<draft, form, seen>> /\ Uncalled

EffectsContinue ==
    /\ \E b \in Bodies : draft' = [draft EXCEPT !.body = b]
    /\ \/ Used("review_effects") /\ Keeps("review", Stops) /\ UNCHANGED step
       \/ Used("effects") /\ Moves("review", Shows("review"), Stops)
    /\ UNCHANGED <<form, seen>> /\ Uncalled

\* The editor of /fish item effect-edit has nothing to go back to: it cancels.
EffectsBack ==
    /\ \/ Used("review_effects") /\ Shows("review") /\ UNCHANGED <<step, kept, age, form, draft, seen>>
       \/ Used("effects") /\ flow = "effect-edit" /\ Deletes("cancelled")
       \/ /\ Used("effects") /\ flow # "effect-edit"
          /\ Moves("mechanics", Shows("mechanics"), Stops) /\ UNCHANGED <<form, draft, seen>>
    /\ Uncalled

\* The review's buttons answer before, after and while the draft is saved.
EditBasic ==
    /\ Used("review") /\ OpensForm("review") /\ Becomes("stopped")
    /\ UNCHANGED <<session, told>> /\ Rest

\* Mechanics and effects are edited on cards of their own; the effects are read
\* from Redis, which keeps the session longer.
EditMechanics ==
    /\ Used("review") /\ Shows("review_mechanics") /\ Becomes("stopped")
    /\ UNCHANGED <<session, form>> /\ Rest

EditEffects ==
    /\ Used("review") /\ Shows("review_effects") /\ Becomes("stopped")
    /\ age' = IF kept THEN 0 ELSE age
    /\ UNCHANGED <<flow, step, draft, kept, form, seen>> /\ Rest

-----------------------------------------------------------------------------
(* Saving                                                                      *)

\* What a request says, and, for its history, what its draft was made from.
Sent == [payload |-> draft, seen |-> seen]

\* A plausible bug of KeptOut: only the view knows that it is confirming.
KeptOutOfTheView == call # None /\ call.view = "shown"

\* _confirming keeps a second click out of the view, the step out of every other
\* view of the flow.
KeptOut ==
    \/ call # None /\ call.view = "shown"
    \/ "submitting" \notin Allowed[step]

\* The step is set before the session is saved; a click that is kept out changes
\* nothing.
Confirm ==
    /\ Used("review") /\ draft.body \notin Blocked
    /\ IF KeptOut THEN UNCHANGED <<step, call, told>>
       ELSE /\ step' = "submitting" /\ told' = "nothing"
            /\ call' = [view |-> "shown", sent |-> None, tries |-> 0]
    /\ UNCHANGED <<draft, seen, kept, age, card, live, form>> /\ Rest

\* _report_failure renders the view again, which answers unless it is stopped.
Reports(why) ==
    /\ call' = None /\ told' = why
    /\ card' = "review" /\ live' = (call.view # "stopped") /\ UNCHANGED <<form, idle>>

\* The session is saved, or has expired or been deleted meanwhile; the request
\* is made from the draft as it is by then.
Mark ==
    /\ call # None /\ call.sent = None
    /\ \/ Saved /\ call' = [call EXCEPT !.sent = Sent] /\ UNCHANGED screen
       \/ Unsaved /\ Reports("not completed")
    /\ UNCHANGED <<flow, step, draft, seen>> /\ Rest

Sending == call # None /\ call.sent # None

Recorded == recorded # None

Fits(p) == items[p.id] = None \/ (p.version # None /\ items[p.id].version = p.version)

\* What is no definition never reaches upsert_item; a cycle is answered as an
\* outdated version is.
Accepted(p) == ~ Recorded /\ Fits(p) /\ p.body \notin Refused \union Cyclic

\* upsert_item, under the flow's key.
Answer(p) ==
    CASE p.body \in Refused -> "refused"
      [] p.body \notin Refused /\ Recorded -> IF recorded = p THEN "ok" ELSE "used key"
      [] Accepted(p) -> "ok"
      [] OTHER -> IF p.version = None /\ items[p.id] # None THEN "duplicate" ELSE "conflict"

Written(m) ==
    LET p == m.payload IN
    IF Accepted(p)
    THEN /\ recorded' = p
         /\ items' = [items EXCEPT ![p.id] =
                        [version |-> IF @ = None THEN 1 ELSE @.version + 1, body |-> p.body]]
         /\ applied' = Append(applied, [payload |-> p, found |-> items[p.id], seen |-> m.seen])
    ELSE UNCHANGED engine

\* What follows an answer: the flow is over, or the review says why it is not;
\* a conflict of an edit has a card of its own.
Concludes(why) ==
    IF why = "ok" THEN call' = None /\ Deletes("saved") /\ UNCHANGED idle
    ELSE /\ step' = "review" /\ age' = IF kept THEN 0 ELSE age
         /\ IF why = "conflict" /\ Editing
            THEN /\ call' = None /\ told' = why
                 /\ card' = "conflict" /\ live' = TRUE /\ UNCHANGED <<form, idle>>
            ELSE Reports(why)
         /\ UNCHANGED <<draft, seen, kept>>

Serve ==
    /\ Sending
    /\ Written(call.sent) /\ Concludes(Answer(call.sent.payload))
    /\ UNCHANGED <<flow, late, others>>

\* A plausible bug of Again: every attempt is made from the draft anew.
AgainAnew == [call EXCEPT !.tries = @ + 1, !.sent = Sent]

\* The next attempt says what the first has said.
Again == [call EXCEPT !.tries = @ + 1]

\* An attempt brings no answer, whether it arrives at once, later or never; after
\* the last one the administrator is told.
LoseAttempt ==
    /\ Sending
    /\ \/ Written(call.sent) /\ UNCHANGED late
       \/ late' = late \union {call.sent} /\ UNCHANGED engine
    /\ IF call.tries + 1 < Attempts
       THEN call' = Again /\ UNCHANGED <<session, screen>>
       ELSE Concludes("unavailable") /\ UNCHANGED flow
    /\ UNCHANGED others

ArriveLate(m) ==
    /\ m \in late /\ late' = late \ {m}
    /\ Written(m)
    /\ UNCHANGED <<session, screen, call, others>>

\* The conflict's card: the latest definition replaces the draft, or cannot be
\* read.
Reload ==
    /\ Used("conflict")
    /\ \/ /\ items[draft.id] # None
          /\ draft' = Seeded(draft.id) /\ seen' = draft'
          /\ Keeps("review", Stops)
       \/ Stops /\ UNCHANGED <<draft, seen, kept, age>>
    /\ UNCHANGED <<step, form>> /\ Uncalled

-----------------------------------------------------------------------------
(* Time and others                                                             *)

\* Redis forgets a session Limit after it was written; a card stops answering
\* Limit after it was used and says so.  A confirmation, which has just used the
\* card and written the session, takes seconds (three attempts of 5 s) of the
\* ten minutes.
Tick ==
    /\ call = None
    /\ age < Limit \/ idle < Limit
    /\ age' = IF age < Limit THEN age + 1 ELSE age
    /\ idle' = IF idle < Limit THEN idle + 1 ELSE idle
    /\ kept' = (kept /\ age' < Limit)
    /\ IF live /\ idle' = Limit THEN live' = FALSE /\ told' = "start again"
       ELSE UNCHANGED <<live, told>>
    /\ UNCHANGED <<flow, step, draft, seen, card, form, call, late, engine, others>>

OtherEdit(i) ==
    /\ others < MaxOthers /\ others' = others + 1
    /\ \E b \in Bodies \ (Refused \union Cyclic) :
        items' = [items EXCEPT ![i] = [version |-> IF @ = None THEN 1 ELSE @.version + 1, body |-> b]]
    /\ UNCHANGED <<session, screen, call, late, recorded, applied>>

Next ==
    \/ TemplateContinue \/ Dismiss \/ SubmitBasic \/ SubmitReviewed \/ Choose
    \/ RarityContinue \/ RarityBack
    \/ MechanicsChoose \/ MechanicsContinue \/ MechanicsBack
    \/ EffectsContinue \/ EffectsBack
    \/ EditBasic \/ EditMechanics \/ EditEffects
    \/ Confirm \/ Mark \/ Serve \/ LoseAttempt \/ Reload \/ Cancel \/ Tick
    \/ \E m \in late : ArriveLate(m)
    \/ \E i \in Ids : OtherEdit(i)

Spec == Init /\ [][Next]_vars

-----------------------------------------------------------------------------

\* "a second click or an HTTP retry can never create/update twice": a flow
\* writes once, whatever it was changed to after an answer was lost.
WritesOnce == Len(applied) <= 1

\* What item s said besides its ID.
Said(s) == [version |-> s.version, body |-> s.body]

\* An edit of the item its draft was made from replaces the definition it was
\* made from ("There is never an automatic overwrite of the newer definition"),
\* however often it was reloaded and its ID changed.
ReplacesWhatItShowed ==
    \A n \in 1 .. Len(applied) :
        applied[n].seen # None /\ applied[n].payload.id = applied[n].seen.id =>
            applied[n].found = Said(applied[n].seen)

\* One step of ConflictIsSomebodyElses.
ConflictStep ==
    card # "conflict" /\ card' = "conflict" =>
        LET p == call.sent.payload IN
        p.id = call.sent.seen.id /\ p.body \notin Cyclic => others > 0

\* "This item was changed by another administrator" is shown only when one has,
\* unless the request was for another ID than the draft was made from, or closed
\* a cycle.
ConflictIsSomebodyElses == [][ConflictStep]_vars

\* One step of OneSaveAtATime.
OneSaveStep ==
    Sending /\ call' # None => call'.sent = call.sent /\ call'.tries >= call.tries

\* While a draft is saved no other confirmation of the flow begins, and every
\* attempt says the same, however the draft is edited and whichever cards and
\* forms are opened meanwhile ("a double click never issues two HTTP mutations").
OneSaveAtATime == [][OneSaveStep]_vars

\* What is being saved is what the draft says: nothing changes the draft while it
\* is being saved.
SavedIsTheDraft == Sending => call.sent.payload = draft

\* Nothing is saved of a flow that was cancelled.
CancelledSavesNothing == [][told = "cancelled" => applied' = applied]_vars

\* What the review blocks is not sent.
BlockedIsNotSent == Sending => call.sent.payload.body \notin Blocked

\* A conflict over the item a request was made from is somebody else's, whatever
\* the request said.
EveryConflictIsSomebodyElses ==
    [][card # "conflict" /\ card' = "conflict" /\ call.sent.payload.id = call.sent.seen.id
         => others > 0]_vars

\* Whatever form an edit was given, no item is overwritten that its author has
\* not seen.
OverwritesOnlyWhatItShowed ==
    \A n \in 1 .. Len(applied) :
        applied[n].found # None =>
            applied[n].seen # None /\ applied[n].found = Said(applied[n].seen)

\* "No settings were changed" when the engine is unavailable.
UnavailableChangedNothing == told = "unavailable" => applied = <<>>

\* Another ID can be chosen when one is taken.
AnotherIdCanBeChosen == told = "choose another ID" => live \/ form # "none"

\* The draft stays within reach until the flow is over.
DraftIsReachable ==
    kept => live \/ form # "none" \/ call # None
            \/ told \in {"start again", "choose another ID", "not verified"}

\* "the admin can fix and retry": fixing the draft does not use up the key.
FixedDraftIsAccepted == told # "used key"

\* "an active session never expires while the admin is still editing".
ActiveNeverExpires == live /\ idle < Limit => kept
=============================================================================
