------------------------------ MODULE GatewaysMC ------------------------------
(***************************************************************************)
(* Instances of what the two gateways do: the Discord gateway's item       *)
(* wizard, effects editor and forms, and the Twitch bot's commands and     *)
(* channels.  The forms are FormFlow, extended: its bounds are those of    *)
(* the configuration, and a scenario of it takes part of its steps.  They  *)
(* share no state, so a behaviour is of one of them and the others rest.   *)
(***************************************************************************)
EXTENDS FormFlow, Functions

CONSTANTS
    Scenarios,  \* those that are checked
    c1, c2, d1, d2, f1, f2, i1, i2, m1, m2, r1, v1, v2, x, y, ann, mod, luck,
    slots, reroll

VARIABLES
    scenario,   \* what this behaviour is about
    wizardFlow, step, draft, kept, age, idle, card, live, wizardForm,
    wizardCall, wizardLate, told, items, wizardRecorded, wizardSeen,
    wizardApplied, others,
    effects, selected, advanced, options, stopped, result, message, seen,
    modal, lost,
    by, command, asking, cooling, casts, ops, bans, announced, said,
    wanted, irc, connected, unready, joined, lastDesired, force, wake, task,
    stop, closer, co, cpu, disturbed, spent

wizard == <<wizardFlow, step, draft, kept, age, idle, card, live, wizardForm,
    wizardCall, wizardLate, told, items, wizardRecorded, wizardSeen,
    wizardApplied, others>>
editor == <<effects, selected, advanced, options, stopped, result, message,
    seen, modal, lost>>
chat == <<by, command, asking, cooling, casts, ops, bans, announced, said>>
membership == <<wanted, irc, connected, unready, joined, lastDesired, force,
    wake, task, stop, closer, co, cpu, disturbed, spent>>
allVars == <<scenario, wizard, editor, vars, chat, membership>>

-----------------------------------------------------------------------------
\* The wizard opens rod; other identifiers of items are rod and net.
WizardIds == {"rod", "net"}
WizardItems == [rod |-> [version |-> 1, body |-> "a"], net |-> None]
PairItems == [rod |-> [version |-> 1, body |-> "a"], net |-> [version |-> 2, body |-> "a"]]
WizardFlows == {"create", "template", "edit", "effect-edit"}

\* Drafts of no effect, of a multiplied stat, of two and of three effects.
Effect(op, of) == [op |-> op, of |-> of, v |-> v1]
TwoStats == {luck, slots}
TwoValues == {v1, v2}
EveryDraft ==
    {<<>>, <<Effect("add", luck)>>, <<Effect("multiply", slots)>>,
     <<Effect("trigger", reroll), Effect("add", luck)>>,
     <<Effect("add", luck), Effect("multiply", luck), Effect("trigger", reroll)>>}
Short == {<<Effect("add", luck)>>}

\* One attempt of the wizard's at most is on its way unanswered.
WizardGoes == Cardinality(wizardLate') <= 1

\* Two commands with forms of one page, which are filled in alike.
CommandsGoes ==
    /\ ticks' = ticks
    /\ \A f \in Flows : flow'[f] # None => flow'[f].kind # "reward"
    /\ \A v \in views' : v2 \notin Range(v.draft)

\* One command with forms of two pages, and time enough to be late.
DraftsGoes ==
    /\ Cardinality(views') <= 3
    /\ flow'[f2] = None /\ (flow'[f1] # None => flow'[f1].kind = "reward")

\* Casts of a viewer and of a moderator: a dupe beyond the cap, points of two
\* amounts; and the rewards that time a viewer out.
Points(n, tells) == [type |-> "points", amount |-> n, message |-> tells]
Other(type, n) == [type |-> type, amount |-> n, message |-> TRUE]
TwoUsers == {ann, mod}
Mixed == {Other("dupe", 3), Points(5, TRUE), Points(7, FALSE)}
Harsh == {Other("dupe", 2), Other("timeout", 0), Other("roulette", 0), Other("robbery", 0)}

\* Two channels, one of them known from the bootstrap list.
TwoIds == {i1, i2}
TwoLogins == {x, y}

Wizard == INSTANCE ItemWizard WITH
    Ids <- WizardIds, Opened <- "rod", Bodies <- {"a", "b"}, Blocked <- {"b"},
    Refused <- {"b"}, Cyclic <- {}, Existing <- WizardItems, Flows <- WizardFlows, Limit <- 2, Attempts <- 2,
    MaxOthers <- 1, flow <- wizardFlow, form <- wizardForm,
    call <- wizardCall, late <- wizardLate, seen <- wizardSeen,
    recorded <- wizardRecorded, applied <- wizardApplied
Pair == INSTANCE ItemWizard WITH
    Ids <- WizardIds, Opened <- "rod", Bodies <- {"a", "b"}, Blocked <- {},
    Refused <- {}, Cyclic <- {"b"}, Existing <- PairItems, Flows <- {"edit"}, Limit <- 1, Attempts <- 1,
    MaxOthers <- 1, flow <- wizardFlow, form <- wizardForm,
    call <- wizardCall, late <- wizardLate, seen <- wizardSeen,
    recorded <- wizardRecorded, applied <- wizardApplied
Editor == INSTANCE EffectsEditor WITH
    Clients <- {d1}, Stats <- TwoStats, Triggered <- {reroll},
    Values <- TwoValues, StandardMax <- 2, AdvancedMax <- 3,
    Drafts <- EveryDraft, MaxLost <- 0
Resent == INSTANCE EffectsEditor WITH
    Clients <- {d1}, Stats <- TwoStats, Triggered <- {reroll},
    Values <- TwoValues, StandardMax <- 2, AdvancedMax <- 3,
    Drafts <- EveryDraft, MaxLost <- 1
Clients == INSTANCE EffectsEditor WITH
    Clients <- {d1, d2}, Stats <- {luck}, Triggered <- {reroll},
    Values <- {v1}, StandardMax <- 1, AdvancedMax <- 2, Drafts <- Short,
    MaxLost <- 0
Paid == INSTANCE ChatActions WITH
    Messages <- {m1, m2}, Users <- {ann}, Mods <- {}, Rewards <- Mixed,
    MostExtra <- 2, task <- command, call <- asking
Timeouts == INSTANCE ChatActions WITH
    Messages <- {m1}, Users <- TwoUsers, Mods <- {mod}, Rewards <- Harsh,
    MostExtra <- 2, task <- command, call <- asking
Channels == INSTANCE ChannelMembership WITH
    Ids <- TwoIds, Logins <- TwoLogins, Bootstrap <- {x}, Initial <- {},
    Coroutines <- {r1}, StaleCache <- TRUE, DropsWhile <- "resting",
    MaxReconnects <- 1, MaxChanges <- 1, MaxFailures <- 1, engine <- wanted

\* The constants of the instances are what the components take them to be.
ASSUME InstancesAssumption ==
    /\ Wizard!WizardAssumption /\ Pair!WizardAssumption /\ Editor!EffectsEditorAssumption
    /\ Resent!EffectsEditorAssumption /\ Clients!EffectsEditorAssumption
    /\ FormFlowAssumption /\ Paid!ChatActionsAssumption
    /\ Timeouts!ChatActionsAssumption /\ Channels!MembershipAssumption

-----------------------------------------------------------------------------
WizardIdle ==
    /\ wizardFlow = None /\ step = None /\ draft = None /\ kept = None
    /\ age = None /\ idle = None /\ card = None /\ live = None
    /\ wizardForm = None /\ wizardCall = None /\ wizardLate = None
    /\ told = None /\ items = None /\ wizardRecorded = None
    /\ wizardSeen = None /\ wizardApplied = None /\ others = None
EditorIdle ==
    /\ effects = None /\ selected = None /\ advanced = None /\ options = None
    /\ stopped = None /\ result = None /\ message = None /\ seen = None
    /\ modal = None /\ lost = None
FormsIdle == Init
ChatIdle ==
    /\ by = None /\ command = None /\ asking = None /\ cooling = None
    /\ casts = None /\ ops = None /\ bans = None /\ announced = None
    /\ said = None
MembershipIdle ==
    /\ wanted = None /\ irc = None /\ connected = None /\ unready = None
    /\ joined = None /\ lastDesired = None /\ force = None /\ wake = None
    /\ task = None /\ stop = None /\ closer = None /\ co = None /\ cpu = None
    /\ disturbed = None /\ spent = None

GatewaysInit ==
    /\ scenario \in Scenarios
    /\ \/ /\ \/ scenario = "wizard" /\ Wizard!Init
             \/ scenario = "two items" /\ Pair!Init
          /\ EditorIdle /\ FormsIdle /\ ChatIdle /\ MembershipIdle
       \/ /\ \/ scenario = "one editor" /\ Editor!Init
             \/ scenario = "lost answer" /\ Resent!Init
             \/ scenario = "two clients" /\ Clients!Init
          /\ WizardIdle /\ FormsIdle /\ ChatIdle /\ MembershipIdle
       \/ /\ \/ scenario = "two commands" /\ Init
             \/ scenario = "two drafts" /\ Init
             \/ scenario = "event form" /\ Init
          /\ WizardIdle /\ EditorIdle /\ ChatIdle /\ MembershipIdle
       \/ /\ \/ scenario = "points" /\ Paid!Init
             \/ scenario = "timeouts" /\ Timeouts!Init
          /\ WizardIdle /\ EditorIdle /\ FormsIdle /\ MembershipIdle
       \/ /\ scenario = "channels" /\ Channels!Init
          /\ WizardIdle /\ EditorIdle /\ FormsIdle /\ ChatIdle

GatewaysNext ==
    \/ /\ \/ scenario = "wizard" /\ Wizard!Next /\ WizardGoes
          \/ scenario = "two items" /\ Pair!Next /\ WizardGoes
       /\ UNCHANGED <<scenario, editor, vars, chat, membership>>
    \/ /\ \/ scenario = "one editor" /\ Editor!Next
          \/ scenario = "lost answer" /\ Resent!Next
          \/ scenario = "two clients" /\ Clients!Next
       /\ UNCHANGED <<scenario, wizard, vars, chat, membership>>
    \/ /\ \/ scenario = "two commands" /\ Next /\ CommandsGoes
          \/ scenario = "two drafts" /\ Next /\ DraftsGoes
          \/ scenario = "event form" /\ Next
       /\ UNCHANGED <<scenario, wizard, editor, chat, membership>>
    \/ /\ \/ scenario = "points" /\ Paid!Next
          \/ scenario = "timeouts" /\ Timeouts!Next
       /\ UNCHANGED <<scenario, wizard, editor, vars, membership>>
    \/ /\ scenario = "channels" /\ Channels!Next
       /\ UNCHANGED <<scenario, wizard, editor, vars, chat>>

GatewaysSpec == GatewaysInit /\ [][GatewaysNext]_allVars

-----------------------------------------------------------------------------
\* The wizard of items writes once, whatever it was changed to after an answer
\* was lost ("a second click or an HTTP retry can never create/update twice"), and
\* replaces the definition its draft was made from and no newer one; so it does
\* when its draft is reloaded from another item.  While a draft is saved no second
\* confirmation begins and every attempt says the same, though the draft is
\* edited and new cards are opened meanwhile.  Of another administrator it speaks
\* only when there was one, or the definition closes a cycle.
WizardHolds ==
    /\ [](scenario = "wizard" =>
            /\ Wizard!TypeOK /\ Wizard!WritesOnce
            /\ Wizard!ReplacesWhatItShowed)
    /\ [](scenario = "two items" =>
            Pair!WritesOnce /\ Pair!ReplacesWhatItShowed)
    /\ [][/\ scenario \in {"wizard", "two items"} => Wizard!OneSaveStep
          /\ scenario = "wizard" => Wizard!ConflictStep
          /\ scenario = "two items" => Pair!ConflictStep]_allVars

\* Whatever is clicked, sent again and interleaved by several clients, the list
\* of effects stays within its cap, has no effect twice ("Duplicate effect is not
\* allowed") and multiplies a stat only after the warning; and a form changes the
\* effect it showed and no other.
EditorHolds ==
    /\ [](/\ scenario = "one editor" =>
               /\ Editor!TypeOK /\ Editor!Capped /\ Editor!MultiplyIsAdvanced
          /\ scenario = "two clients" => Clients!NoDuplicates)
    /\ [][scenario = "lost answer" => Resent!FormsHitTheirOwnStep]_allVars

\* A message casts no more than its first reward says ("without recursing"), and
\* the cooldown its own cast began does not refuse the rest; points the chat is
\* told of are owed; a cast times its viewer out at most once, and the rewards of
\* a moderator never do (FishingCog, ExternalActionService).
ChatHolds ==
    /\ scenario = "points" =>
         /\ Paid!TypeOK /\ Paid!DupeIsBounded /\ Paid!ExtraCastsCatch
         /\ Paid!AnnouncedIsOwed
    /\ scenario = "timeouts" =>
         /\ Timeouts!OneTimeoutEach /\ Timeouts!ModeratorsCatchNoTimeout

\* After a reconciliation that succeeded on the session it began with, the bot is
\* in exactly the channels the engine asked for, and after a reconnect by a real
\* JOIN; its books name them, under renames, bootstrap entries and swapped
\* identities; and a failing engine never makes it leave a channel
\* (ChannelReconciler).
ChannelsHold ==
    scenario = "channels" =>
      /\ Channels!TypeOK /\ Channels!ReconciledIsJoined
      /\ Channels!BooksMatchAnswer /\ Channels!EngineFailureNeverParts
=============================================================================
