-------------------------- MODULE ChannelMembership --------------------------
(***************************************************************************)
(* The Twitch bot keeps its IRC session in the channels the game engine    *)
(* wants it in (TwitchChannelReconciler).  A loop asks the engine for the  *)
(* desired channels and joins and parts until they agree; event_ready,     *)
(* dispatched on the first connection and again after every reconnect,     *)
(* starts the loop or tells it that the session is a new one.              *)
(*                                                                         *)
(* All of it runs on one asyncio thread: a coroutine keeps the processor   *)
(* from one await to the next.  One step is one iteration of a loop body   *)
(* or less; `cpu` keeps the others out until the next await.               *)
(***************************************************************************)
EXTENDS Integers, FiniteSets

CONSTANTS
    Ids,            \* stable Twitch identities of channels
    Logins,         \* login names; a login also names its bootstrap entry
    Bootstrap,      \* configured bootstrap channels
    Initial,        \* channels TwitchIO joins by itself on every connection
    Coroutines,     \* activations of start() and of the loop
    None,
    StaleCache,     \* TwitchIO may keep connected_channels over a reconnect
    DropsWhile,     \* when the connection may drop: "resting", "looping", "any"
    MaxReconnects, MaxChanges, MaxFailures  \* bounds on the environment

MembershipAssumption ==
    /\ Bootstrap \subseteq Logins /\ Initial \subseteq Bootstrap
    /\ None \notin Ids \union Logins \union Coroutines
    /\ Ids \intersect Logins = {}
    /\ StaleCache \in BOOLEAN
    /\ DropsWhile \in {"resting", "looping", "any"}
    /\ MaxReconnects \in Nat /\ MaxChanges \in Nat /\ MaxFailures \in Nat

VARIABLES
    engine,     \* the engine's desired channels
    irc,        \* channels the current IRC session is in
    connected,  \* what TwitchIO reports of them
    unready,    \* a connection whose event_ready has not been dispatched
    joined,     \* _joined
    lastDesired,\* _last_desired
    force,      \* _force_rejoin
    wake,       \* _wake_event
    task,       \* _task
    stop,       \* _stop_event
    closer,     \* stop() as close() calls it: "open", the loop it awaits, "closed"
    co,         \* the coroutines
    cpu,        \* who runs until its next await
    disturbed,  \* history: not yet reconciled as start() last asked for
    spent       \* history: how much of each bound is used up

session == <<irc, connected>>
memory == <<joined, lastDesired>>
flags == <<force, wake>>
life == <<unready, task, stop, closer>>
vars == <<engine, session, memory, flags, life, co, cpu, disturbed, spent>>

-----------------------------------------------------------------------------

\* Engine rows by identity, bootstrap entries by login; None is "not there".
Entries == Ids \union Logins
Membership == [Entries -> Logins \union {None}]

Nowhere == [e \in Entries |-> None]
Names(m) == {m[e] : e \in Entries} \ {None}
Listed(m) == {e \in Entries : m[e] # None}

BootstrapEntries == [e \in Entries |-> IF e \in Bootstrap THEN e ELSE None]

Coroutine ==
    [pc : {"off", "wait", "fetch", "items", "join", "leaving", "part", "report"},
     loop : BOOLEAN,            \* runs _run, not the first start()
     source : {"engine", "fallback"},
     ok : BOOLEAN,              \* the last reconciliation succeeded
     desired : Membership, rejoin : BOOLEAN, actual : SUBSET Logins,
     todo : SUBSET Entries,     \* entries to apply, or logins to leave
     books : SUBSET Entries,    \* entries to change when the command returns
     sent : BOOLEAN]            \* the awaited command reached the session

NotRunning ==
    [pc |-> "off", loop |-> FALSE, source |-> "engine", ok |-> FALSE,
     desired |-> Nowhere, rejoin |-> FALSE, actual |-> {}, todo |-> {},
     books |-> {}, sent |-> FALSE]

TypeOK ==
    /\ engine \in Membership
    /\ irc \subseteq Logins /\ connected \subseteq Logins
    /\ unready \in BOOLEAN /\ force \in BOOLEAN /\ wake \in BOOLEAN
    /\ joined \in Membership
    /\ lastDesired \in Membership \union {None}
    /\ task \in Coroutines \union {None}
    /\ stop \in BOOLEAN
    /\ closer \in Coroutines \union {"open", "closed"}
    /\ co \in [Coroutines -> Coroutine]
    /\ cpu \in Coroutines \union {None}
    /\ disturbed \in BOOLEAN
    /\ spent \in [reconnects : 0 .. MaxReconnects, changes : 0 .. MaxChanges,
                  failures : 0 .. MaxFailures]

Init ==
    /\ engine \in [Entries -> Logins \union {None}]
    /\ \A e \in Logins : engine[e] = None
    /\ irc = Initial /\ connected = Initial /\ unready = TRUE
    /\ joined = BootstrapEntries
    /\ lastDesired = None
    /\ force = FALSE /\ wake = FALSE
    /\ task = None /\ stop = FALSE /\ closer = "open"
    /\ co = [c \in Coroutines |-> NotRunning]
    /\ cpu = None
    /\ disturbed = FALSE
    /\ spent = [reconnects |-> 0, changes |-> 0, failures |-> 0]

Looping == task # None /\ co[task].pc # "off"

-----------------------------------------------------------------------------
(* Plausible bugs.  Each takes the place of the operator named above it in a   *)
(* mutation test: the property it is aimed at must notice.                     *)

\* StaleLogins, an entry that is not there taken for a login.
StaleValues(c) ==
    ({joined[e] : e \in Entries} \union co[c].actual) \ Names(co[c].desired)

\* StaleLogins, the books forgotten.
StaleInSession(c) == co[c].actual \ Names(co[c].desired)

\* StaleLogins, the session forgotten.
StaleInBooks(c) == Names(joined) \ Names(co[c].desired)

\* ForceAfter, the flag cleared whether the rejoin succeeded or not.
NeverAfter(c) == FALSE

\* MayFallBack, the engine's earlier answers forgotten.
BootstrapConfigured == Bootstrap # {}

\* Stop, the event forgotten.
WakeAndWait ==
    /\ cpu = None
    /\ closer = "open"
    /\ wake' = TRUE
    /\ closer' = IF task = None THEN "closed" ELSE task
    /\ UNCHANGED <<engine, session, memory, force, unready, task, stop, co, cpu,
                   disturbed, spent>>

-----------------------------------------------------------------------------
(* event_ready and close *)

\* start() while the loop runs: the session is a new one.
Restart ==
    /\ cpu = None
    /\ unready /\ Looping
    /\ unready' = FALSE /\ force' = TRUE /\ wake' = TRUE /\ disturbed' = TRUE
    /\ UNCHANGED <<engine, session, memory, task, stop, closer, co, cpu, spent>>

\* start() otherwise: it reconciles once before there is a loop.
Start(c) ==
    /\ cpu = None
    /\ unready /\ ~Looping
    /\ co[c].pc = "off" /\ c # closer
    /\ unready' = FALSE /\ stop' = FALSE /\ wake' = FALSE
    /\ co' = [co EXCEPT ![c] = [NotRunning EXCEPT !.pc = "fetch"]]
    /\ UNCHANGED <<engine, session, memory, force, task, closer, cpu, disturbed,
                   spent>>

Stop ==
    /\ cpu = None
    /\ closer = "open"
    /\ stop' = TRUE /\ wake' = TRUE
    /\ closer' = IF task = None THEN "closed" ELSE task
    /\ UNCHANGED <<engine, session, memory, force, unready, task, co, cpu,
                   disturbed, spent>>

StopReturns ==
    /\ cpu = None
    /\ closer \in Coroutines /\ co[closer].pc = "off"
    /\ closer' = "closed" /\ task' = None
    /\ UNCHANGED <<engine, session, memory, flags, unready, stop, co, cpu,
                   disturbed, spent>>

-----------------------------------------------------------------------------
(* reconcile_once *)

\* The loop: a wake-up or the interval, and a look at the stop event.
Wakes(c) ==
    /\ cpu = None
    /\ co[c].pc = "wait"
    /\ DropsWhile = "resting" => ~unready
    /\ wake' = FALSE
    /\ co' = [co EXCEPT ![c] =
                 IF stop THEN NotRunning ELSE [@ EXCEPT !.pc = "fetch"]]
    /\ UNCHANGED <<engine, session, memory, force, life, cpu, disturbed, spent>>

\* _apply begins: the flag and connected_channels are read here only.
Applying(c, desired, source) ==
    [co[c] EXCEPT !.pc = "items", !.source = source, !.desired = desired,
        !.rejoin = source = "engine" /\ force, !.actual = connected,
        !.todo = Listed(desired), !.ok = source = "engine"]

Fetches(c) ==
    /\ cpu = None
    /\ co[c].pc = "fetch"
    /\ lastDesired' = engine
    /\ co' = [co EXCEPT ![c] = Applying(c, engine, "engine")]
    /\ cpu' = c
    /\ disturbed' = unready
    /\ UNCHANGED <<engine, session, joined, flags, life, spent>>

Fails ==
    /\ spent.failures < MaxFailures
    /\ spent' = [spent EXCEPT !.failures = @ + 1]

MayFallBack == lastDesired = None /\ Bootstrap # {}

\* The engine does not answer: only before its first answer does the bot fall
\* back to the bootstrap channels.
FallsBack(c) ==
    /\ cpu = None
    /\ co[c].pc = "fetch" /\ Fails
    /\ MayFallBack
    /\ co' = [co EXCEPT ![c] = Applying(c, BootstrapEntries, "fallback")]
    /\ cpu' = c
    /\ UNCHANGED <<engine, session, memory, flags, life, disturbed>>

\* Otherwise it only reports, as it does when a command raises.
FetchFails(c) ==
    /\ cpu = None
    /\ co[c].pc = "fetch" /\ Fails
    /\ ~MayFallBack
    /\ co' = [co EXCEPT ![c].pc = "report", ![c].ok = FALSE]
    /\ UNCHANGED <<engine, session, memory, flags, life, cpu, disturbed>>

CommandRaises(c) ==
    /\ cpu = None
    /\ co[c].pc \in {"join", "part"} /\ ~co[c].sent
    /\ co' = [co EXCEPT ![c].pc = "report", ![c].ok = FALSE]
    /\ UNCHANGED <<engine, session, memory, flags, life, cpu, disturbed, spent>>

ForceAfter(c) == force /\ ~co[c].ok

\* The report is out; the first start() creates the loop, whichever task there
\* was, and success clears the flag.
Returns(c) ==
    /\ cpu = None
    /\ co[c].pc = "report"
    /\ force' = ForceAfter(c)
    /\ co' = [co EXCEPT ![c].pc = "wait", ![c].loop = TRUE]
    /\ task' = IF co[c].loop THEN task ELSE c
    /\ UNCHANGED <<engine, session, memory, wake, unready, stop, closer, cpu,
                   disturbed, spent>>

-----------------------------------------------------------------------------
(* _apply: joins, then parts *)

\* A command reaches the session, or is lost on the way and raises.
Joins(c, e, books) ==
    \E sent \in BOOLEAN :
        /\ IF sent
           THEN /\ irc' = irc \union {co[c].desired[e]}
                /\ connected' = connected \union {co[c].desired[e]}
                /\ UNCHANGED spent
           ELSE Fails /\ UNCHANGED <<irc, connected>>
        /\ co' = [co EXCEPT ![c].pc = "join", ![c].todo = @ \ {e},
                            ![c].books = books, ![c].sent = sent]
        /\ cpu' = None

AlreadyIn(c, e) ==
    /\ co' = [co EXCEPT ![c].todo = @ \ {e}]
    /\ UNCHANGED <<irc, connected, cpu, spent>>

\* Book the entry first, then join unless TwitchIO says the bot is in.
JoinsIfAbsent(c, e) ==
    IF co[c].desired[e] \in co[c].actual THEN AlreadyIn(c, e) ELSE Joins(c, e, {})

Applies(c, e) ==
    /\ cpu = c
    /\ co[c].pc = "items" /\ e \in co[c].todo
    /\ UNCHANGED <<engine, lastDesired, flags, life, disturbed>>

Rejoins(c, e) ==
    /\ Applies(c, e)
    /\ co[c].rejoin
    /\ Joins(c, e, {e})
    /\ UNCHANGED joined

KeepsEntry(c, e) ==
    /\ Applies(c, e)
    /\ ~co[c].rejoin /\ joined[e] # None
    /\ joined' = [joined EXCEPT ![e] = co[c].desired[e]]
    /\ JoinsIfAbsent(c, e)

\* The login is booked for another entry, a bootstrap entry as a rule.
AdoptsEntry(c, e, other) ==
    /\ Applies(c, e)
    /\ ~co[c].rejoin /\ joined[e] = None
    /\ joined[other] = co[c].desired[e]
    /\ joined' = [joined EXCEPT ![other] = None, ![e] = co[c].desired[e]]
    /\ JoinsIfAbsent(c, e)

NewEntry(c, e) ==
    /\ Applies(c, e)
    /\ ~co[c].rejoin /\ joined[e] = None
    /\ co[c].desired[e] \notin Names(joined)
    /\ IF co[c].desired[e] \in co[c].actual
       THEN AlreadyIn(c, e) /\ joined' = [joined EXCEPT ![e] = co[c].desired[e]]
       ELSE Joins(c, e, {e}) /\ UNCHANGED joined

JoinReturns(c) ==
    /\ cpu = None
    /\ co[c].pc = "join" /\ co[c].sent
    /\ joined' = [e \in Entries |->
                    IF e \in co[c].books THEN co[c].desired[e] ELSE joined[e]]
    /\ co' = [co EXCEPT ![c].pc = "items"]
    /\ cpu' = c
    /\ UNCHANGED <<engine, session, lastDesired, flags, life, disturbed, spent>>

StaleLogins(c) == (Names(joined) \union co[c].actual) \ Names(co[c].desired)

StartsLeaving(c) ==
    /\ cpu = c
    /\ co[c].pc = "items" /\ co[c].todo = {}
    /\ co' = [co EXCEPT ![c].pc = "leaving", ![c].todo = StaleLogins(c)]
    /\ UNCHANGED <<engine, session, memory, flags, life, cpu, disturbed, spent>>

Leaves(c, login) ==
    /\ cpu = c
    /\ co[c].pc = "leaving" /\ login \in co[c].todo
    /\ login \in Names(joined) \union co[c].actual
    /\ \E sent \in BOOLEAN :
        /\ IF sent
           THEN /\ irc' = irc \ {login}
                /\ connected' = connected \ {login}
                /\ UNCHANGED spent
           ELSE Fails /\ UNCHANGED <<irc, connected>>
        /\ co' = [co EXCEPT ![c].pc = "part", ![c].todo = @ \ {login},
                            ![c].books = {e \in Entries : joined[e] = login},
                            ![c].sent = sent]
    /\ cpu' = None
    /\ UNCHANGED <<engine, memory, flags, life, disturbed>>

\* The entries that had the login before the await are dropped.
PartReturns(c) ==
    /\ cpu = None
    /\ co[c].pc = "part" /\ co[c].sent
    /\ joined' = [e \in Entries |-> IF e \in co[c].books THEN None ELSE joined[e]]
    /\ co' = [co EXCEPT ![c].pc = "leaving"]
    /\ cpu' = c
    /\ UNCHANGED <<engine, session, lastDesired, flags, life, disturbed, spent>>

\* Nothing is left to leave, or another coroutine has left it meanwhile.
Reports(c) ==
    /\ cpu = c
    /\ co[c].pc = "leaving"
    /\ co[c].todo \intersect (Names(joined) \union co[c].actual) = {}
    /\ co' = [co EXCEPT ![c].pc = "report"]
    /\ cpu' = None
    /\ UNCHANGED <<engine, session, memory, flags, life, disturbed, spent>>

-----------------------------------------------------------------------------
(* The environment *)

\* TwitchIO reconnects by itself; event_ready follows.
Reconnect ==
    /\ cpu = None
    /\ spent.reconnects < MaxReconnects
    /\ DropsWhile # "any" => Looping
    /\ DropsWhile = "resting" => co[task].pc = "wait"
    /\ irc' = Initial
    /\ \/ connected' = Initial
       \/ StaleCache /\ connected' = connected \union Initial
    /\ unready' = TRUE
    /\ disturbed' = TRUE
    /\ spent' = [spent EXCEPT !.reconnects = @ + 1]
    /\ UNCHANGED <<engine, memory, flags, task, stop, closer, co, cpu>>

\* A channel enables or disables the bot, or is renamed.
EngineChanges(e, login) ==
    /\ cpu = None
    /\ spent.changes < MaxChanges
    /\ engine[e] # login
    /\ engine' = [engine EXCEPT ![e] = login]
    /\ spent' = [spent EXCEPT !.changes = @ + 1]
    /\ UNCHANGED <<session, memory, flags, life, co, cpu, disturbed>>

-----------------------------------------------------------------------------

Reconciles(c) ==
    \/ Wakes(c) \/ Fetches(c) \/ FallsBack(c) \/ FetchFails(c)
    \/ CommandRaises(c) \/ Returns(c)
    \/ \E e \in Entries : \/ Rejoins(c, e) \/ KeepsEntry(c, e) \/ NewEntry(c, e)
                         \/ \E other \in Entries : AdoptsEntry(c, e, other)
    \/ JoinReturns(c) \/ StartsLeaving(c)
    \/ \E login \in Logins : Leaves(c, login)
    \/ PartReturns(c) \/ Reports(c)

EventReady == Restart \/ \E c \in Coroutines : Start(c)

Next ==
    \/ EventReady \/ Stop \/ StopReturns
    \/ \E c \in Coroutines : Reconciles(c)
    \/ Reconnect
    \/ \E e \in Ids, login \in Logins \union {None} : EngineChanges(e, login)

Spec == Init /\ [][Next]_vars

\* Every await has a timeout, the loop wakes at its interval, a login that
\* succeeds dispatches event_ready.  The environment is under no obligation.
Fairness ==
    /\ \A c \in Coroutines : WF_vars(Reconciles(c))
    /\ WF_vars(EventReady) /\ WF_vars(StopReturns)

FairSpec == Spec /\ Fairness

-----------------------------------------------------------------------------
(* Properties *)

AtRest == cpu = None /\ \A c \in Coroutines : co[c].pc \in {"off", "wait"}

Succeeded == Looping /\ \A c \in Coroutines : co[c].pc = "wait" => co[c].ok

\* After a reconciliation that succeeded on the session it began with, the bot
\* is in exactly the channels the engine asked for; after a reconnect that
\* takes a real JOIN, whatever TwitchIO still reports (start, _apply).
ReconciledIsJoined ==
    AtRest /\ Succeeded /\ ~disturbed => irc = Names(lastDesired)

\* The books of a successful reconciliation name the channels asked for, under
\* renames, bootstrap entries and swapped identities (_joined).
BooksMatchAnswer ==
    AtRest /\ Succeeded => Names(joined) = Names(lastDesired)

\* A failing engine never makes the bot leave a channel (the fail-safe of
\* reconcile_once).
EngineFailureNeverParts ==
    \A c \in Coroutines : co[c].pc = "part" => co[c].source = "engine"

\* Once sessions, wishes and failures settle, the bot ends up in the channels
\* the engine wants, unless it is being closed.
Converges == <>[](closer # "open" \/ irc = Names(engine))

\* close() does not hang: the loop it awaits ends.
CloseEnds == closer \in Coroutines ~> closer = "closed"

=============================================================================
