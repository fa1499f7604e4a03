-------------------------------- MODULE FormFlow --------------------------------
(***************************************************************************)
(* How an edit gets from a Discord command to the engine when it takes     *)
(* several forms.  Discord cannot open a form in answer to a form, so each *)
(* page leaves a message with a button that opens the next one, and the    *)
(* last leaves a preview with a button that saves.  Messages stay: every   *)
(* button may be pressed again, twice at once, or not until it has timed   *)
(* out, so one command can have several drafts under way.  The version the *)
(* edit is made against is kept in Redis or in the command's closure.      *)
(***************************************************************************)
EXTENDS Integers, Sequences, FiniteSets

CONSTANTS
    Flows,      \* commands that are run
    Kinds,      \* what they edit, a subset of the kinds below
    Clicks,     \* presses of Confirm, with their interaction ids
    Values,     \* what a page is filled in with
    Life,       \* ticks a session is kept and a button waits: 600 s
    Attempts,   \* requests for one click: 3
    MaxViews,   \* bound on messages with a button
    MaxTicks,   \* bound on time
    None

FormFlowAssumption ==
    /\ Life \in Nat \ {0} /\ Attempts \in Nat \ {0}
    /\ {MaxViews, MaxTicks} \subseteq Nat

VARIABLES
    flow,       \* per command: [kind, version, kept, age, quiet], or None
    views,      \* messages with a button: [flow, draft, age]
    form,       \* the form on the screen: [flow, draft], or None
    call,       \* per click: [flow, draft, version, stage, tries], or None
    late,       \* clicks with an attempt the gateway has given up on its way
    item,       \* the engine's entity: [version, body]
    recorded,   \* keys that are recorded with their answer
    broken,     \* whether a form could not be opened
    saves,      \* history: what was stored, by which click, over which version
    ticks

gateway == <<flow, views, form, call>>
engine == <<item, recorded, saves>>
vars == <<gateway, late, engine, broken, ticks>>

\* The pages of the commands' forms.  A reward's number of pages depends on its
\* type; two stand for them.
ConfigPages == <<"settings">>
MessagePages == <<"text">>
RewardPages == <<"settings", "details">>
EventPages == <<"event", "xp", "risk">>
LocationPages == <<"location", "mass">>

Chain == [config |-> ConfigPages, message |-> MessagePages, reward |-> RewardPages,
          event |-> EventPages, location |-> LocationPages]

\* EventModifiersModal keeps no defaults, and its button makes the next form from
\* them: AttributeError.
Opens(page) == page # "risk"

\* LocationModal keeps none either, and answers with a form.  So does ItemDropModal
\* for items that stack (modals.py:277), which keeps what it needs and is no command
\* of these.
Continues(page) == page # "location"

\* The reward and config commands read the version back from the session; the
\* location and event commands only look whether it is there; messages have none.
HasSession(kind) == kind # "message"

Pages(f) == Chain[flow[f].kind]
Complete(v) == Len(v.draft) = Len(Pages(v.flow))
NextPage(v) == Pages(v.flow)[Len(v.draft) + 1]

\* ModalLauncherView waits 600 s, ConfirmView 180 s.
Patience(v) == IF Complete(v) THEN 1 ELSE Life

-----------------------------------------------------------------------------
Init ==
    /\ flow = [f \in Flows |-> None] /\ views = {} /\ form = None
    /\ call = [c \in Clicks |-> None] /\ late = {}
    /\ item = [version |-> 1, body |-> <<>>] /\ recorded = {} /\ saves = {}
    /\ broken = FALSE /\ ticks = 0

\* A command reads the entity, keeps the version it found and leaves a button.
Start(f, kind) ==
    /\ kind \in Kinds /\ flow[f] = None
    /\ flow' = [flow EXCEPT ![f] =
          [kind |-> kind, version |-> item.version, kept |-> TRUE, age |-> 0, quiet |-> 0, waited |-> 0]]
    /\ views' = views \union {[flow |-> f, draft |-> <<>>, age |-> 0]}
    /\ UNCHANGED <<form, call, late, engine, broken, ticks>>

EditConfig(f) == Start(f, "config")
EditMessage(f) == Start(f, "message")
EditReward(f) == Start(f, "reward")
EditEvent(f) == Start(f, "event")
EditLocation(f) == Start(f, "location")

\* The administrator does something in a flow; waited is the longest pause.
Acts(f) == [flow EXCEPT ![f].quiet = 0]

\* open_form makes the form anew each time and restarts the button's timer.
OpenForm(v) ==
    /\ v \in views /\ ~ Complete(v) /\ form = None
    /\ views' = (views \ {v}) \union {[v EXCEPT !.age = 0]}
    /\ flow' = Acts(v.flow)
    /\ IF Opens(NextPage(v)) THEN form' = [flow |-> v.flow, draft |-> v.draft] /\ UNCHANGED broken
       ELSE broken' = TRUE /\ UNCHANGED form
    /\ UNCHANGED <<call, late, engine, ticks>>

\* on_submit: the page's fields join what the pages before it have read.  The
\* answer is a message with the next button, or the preview.
Submit(value) ==
    /\ form # None
    /\ LET new == [flow |-> form.flow, draft |-> Append(form.draft, value), age |-> 0] IN
       IF ~ Continues(Pages(form.flow)[Len(new.draft)]) THEN broken' = TRUE /\ UNCHANGED views
       ELSE /\ new \in views \/ Cardinality(views) < MaxViews
            /\ views' = views \union {new} /\ UNCHANGED broken
    /\ flow' = Acts(form.flow) /\ form' = None
    /\ UNCHANGED <<call, late, engine, ticks>>

Dismiss ==
    /\ form # None /\ form' = None
    /\ UNCHANGED <<flow, views, call, late, engine, broken, ticks>>

\* ConfirmView.confirm: nothing keeps a second press out until the first has ended.
Confirm(v, c) ==
    /\ v \in views /\ Complete(v) /\ call[c] = None
    /\ call' = [call EXCEPT ![c] = [flow |-> v.flow, draft |-> v.draft, version |-> None,
                                    stage |-> "clicked", tries |-> 0]]
    /\ flow' = Acts(v.flow)
    /\ UNCHANGED <<views, form, late, engine, broken, ticks>>

\* ConfirmView.cancel.
Cancel(v) ==
    /\ v \in views /\ Complete(v)
    /\ views' = views \ {v} /\ flow' = Acts(v.flow)
    /\ UNCHANGED <<form, call, late, engine, broken, ticks>>

-----------------------------------------------------------------------------
(* Saving                                                                      *)

At(c, stage) == call[c] # None /\ call[c].stage = stage

\* The click is answered, and ConfirmView stops.
Tell(c, why) ==
    /\ call' = [call EXCEPT ![c].stage = why]
    /\ views' = {v \in views : v.flow # call[c].flow \/ v.draft # call[c].draft}

\* A plausible bug of ReadSession: the version is read anew.
ReadSessionAnew(c) ==
    /\ At(c, "clicked")
    /\ LET f == flow[call[c].flow] IN
       IF HasSession(f.kind) /\ ~ f.kept THEN Tell(c, "expired") /\ UNCHANGED flow
       ELSE /\ call' = [call EXCEPT ![c].stage = "asking", ![c].version = item.version]
            /\ UNCHANGED <<views, flow>>
    /\ UNCHANGED <<form, late, engine, broken, ticks>>

\* _session: the version, and a fresh TTL, or "This form expired".
ReadSession(c) ==
    /\ At(c, "clicked")
    /\ LET f == flow[call[c].flow] IN
       IF HasSession(f.kind) /\ ~ f.kept THEN Tell(c, "expired") /\ UNCHANGED flow
       ELSE /\ call' = [call EXCEPT ![c].stage = "asking", ![c].version = f.version]
            /\ flow' = [flow EXCEPT ![call[c].flow].age = 0]
            /\ UNCHANGED views
    /\ UNCHANGED <<form, late, engine, broken, ticks>>

\* A plausible bug of Key: each attempt has a key of its own.
KeyOfAttempt(c) == <<c, call[c].tries>>

\* interaction_key: the click's own id, so every attempt bears the same key.
Key(c) == c

\* The engine's side of an attempt: _check_version under the row's lock, and the
\* answer recorded in the same transaction.
Answer(c) ==
    CASE Key(c) \in recorded -> "saved"
      [] Key(c) \notin recorded /\ item.version # call[c].version -> "conflict"
      [] OTHER -> "saved"

Served(c) ==
    IF Answer(c) = "saved" /\ Key(c) \notin recorded
    THEN /\ item' = [version |-> item.version + 1, body |-> call[c].draft]
         /\ recorded' = recorded \union {Key(c)}
         /\ saves' = saves \union {[click |-> c, draft |-> call[c].draft, over |-> item.version]}
    ELSE UNCHANGED engine

\* A plausible bug of Again: a press is not given up, and not taken up either.
AgainNever(c) == UNCHANGED <<call, views>>

\* Attempts that end without an answer are made again under the same key.
Again(c) ==
    IF call[c].tries + 1 < Attempts
    THEN call' = [call EXCEPT ![c].tries = @ + 1] /\ UNCHANGED views
    ELSE Tell(c, "unavailable")

Ask(c) ==
    /\ At(c, "asking")
    /\ Served(c)
    /\ \/ Answer(c) = "saved" /\ call' = [call EXCEPT ![c].stage = "saved"] /\ UNCHANGED views
       \/ Answer(c) = "conflict" /\ Tell(c, "conflict")
       \/ Again(c)
    /\ UNCHANGED <<flow, form, late, broken, ticks>>

\* The attempt times out and is still on its way, or never left.
Lose(c) ==
    /\ At(c, "asking")
    /\ late' \in {late, late \union {c}}
    /\ Again(c)
    /\ UNCHANGED <<flow, form, engine, broken, ticks>>

ArriveLate(c) ==
    /\ c \in late
    /\ late' = late \ {c}
    /\ Served(c)
    /\ UNCHANGED <<gateway, broken, ticks>>

\* sessions.delete, and "... updated."
Finish(c) ==
    /\ At(c, "saved")
    /\ Tell(c, "done")
    /\ flow' = [flow EXCEPT ![call[c].flow].kept = FALSE]
    /\ UNCHANGED <<form, late, engine, broken, ticks>>

\* Some minutes: buttons and sessions grow older.
Tick ==
    /\ ticks < MaxTicks /\ ticks' = ticks + 1
    /\ views' = {[v EXCEPT !.age = @ + 1] : v \in {w \in views : w.age + 1 < Patience(w)}}
    /\ flow' = [f \in Flows |->
          IF flow[f] = None THEN None
          ELSE [flow[f] EXCEPT !.age = @ + 1, !.kept = @ /\ flow[f].age + 1 < Life,
                               !.quiet = @ + 1, !.waited = IF @ > flow[f].quiet THEN @ ELSE flow[f].quiet + 1]]
    /\ UNCHANGED <<form, call, late, engine, broken>>

Next ==
    \/ \E f \in Flows :
          EditConfig(f) \/ EditMessage(f) \/ EditReward(f) \/ EditEvent(f) \/ EditLocation(f)
    \/ \E v \in views : OpenForm(v) \/ Cancel(v) \/ \E c \in Clicks : Confirm(v, c)
    \/ \E value \in Values : Submit(value)
    \/ Dismiss \/ Tick
    \/ \E c \in Clicks : ReadSession(c) \/ Ask(c) \/ Lose(c) \/ ArriveLate(c) \/ Finish(c)

Spec == Init /\ [][Next]_vars

\* The gateway's own steps: every await of a click ends, in an answer or a timeout.
Fairness == \A c \in Clicks : WF_vars(ReadSession(c)) /\ WF_vars(Ask(c) \/ Lose(c)) /\ WF_vars(Finish(c))
LiveSpec == Spec /\ Fairness

-----------------------------------------------------------------------------
Savers == {s.click : s \in saves}
SavedBy(f) == \E c \in Savers : call[c].flow = f

\* What a form stores replaces the version its command found: neither another
\* command in between, nor another draft of the same command, nor a second press
\* of the button, nor an attempt that comes late is overwritten or written twice.
StaleFormChangesNothing == \A s \in saves : s.over = flow[call[s.click].flow].version

\* An administrator who is told of a conflict, or that the form expired, has stored
\* nothing with that press and never will; one who is told it is done has.
AnswersAreTrue ==
    \A c \in Clicks : call[c] # None =>
        /\ call[c].stage \in {"conflict", "expired"} => c \notin Savers
        /\ call[c].stage = "done" => c \in Savers

\* Every press is answered in the end, whatever the engine does.
EveryClickEnds ==
    \A c \in Clicks : call[c] # None ~>
        call[c] # None /\ call[c].stage \in {"done", "conflict", "expired", "unavailable"}

\* A form does not expire on an administrator who keeps working on it.
ActiveNeverExpires ==
    \A c \in Clicks : call[c] # None /\ call[c].stage = "expired" =>
        flow[call[c].flow].waited >= Life \/ SavedBy(call[c].flow)

\* Every page of a form can be reached from the one before it.
EveryFormOpens == ~ broken
=============================================================================
