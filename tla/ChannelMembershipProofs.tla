------------------------ MODULE ChannelMembershipProofs ------------------------
(***************************************************************************)
(* The bot is where the engine wants it, for any channels, logins and      *)
(* renames.  The argument: while one coroutine reconciles, what it has     *)
(* applied stays applied - an entry it has placed keeps its login in the   *)
(* books, whichever entry the login is booked for - and what is left to    *)
(* part holds everything else; so when nothing is left, the books name     *)
(* exactly what was asked for.  For the session itself it is needed that   *)
(* the connection drops only between two rounds of the loop: then the flag *)
(* of a reconnect cannot be set, and cleared unseen, while a round is under *)
(* way.                                                                    *)
(*                                                                         *)
(* And a viewer's !fish gets what its casts have brought and no more, for   *)
(* any messages, rewards and answers that are lost.  The argument: each    *)
(* message is judged by its own handler, request, casts, operations and    *)
(* timeouts, which no other message's step touches; it has one cast of its *)
(* own, an answer has at most one action that is more than a message, and  *)
(* so a handler that is past the action has nothing left to bring.         *)
(***************************************************************************)
EXTENDS ChannelMembership, Sequences, FiniteSetTheorems, TLAPS

\* None and the phases of stop() are values of their own.
NoneApart ==
    /\ None \notin Membership
    /\ {"open", "closed"} \intersect Coroutines = {}

\* start() is not entered while another activation is at work: there is only one,
\* or the connection holds until the loop is there and rests.
Serial == DropsWhile = "resting" \/ \A c, d \in Coroutines : c = d

On(c) == co[c].pc # "off"
Alone == \A c, d \in Coroutines : On(c) /\ On(d) => c = d

\* The coroutine that is on is the task, or makes itself the task before another
\* connection can be reported; and a connection drops only while it waits.
Control ==
    /\ Alone
    /\ \A c \in Coroutines :
         /\ On(c) /\ co[c].loop => task = c
         /\ On(c) /\ ~co[c].loop => task = None /\ closer \notin Coroutines
         /\ co[c].pc = "wait" => co[c].loop
    /\ closer \in Coroutines => task = closer
    /\ unready => \/ task = None /\ \A c \in Coroutines : ~On(c)
                  \/ task # None /\ co[task].pc = "wait"

\* What is left to apply is wanted.
TypeInv ==
    /\ TypeOK
    /\ \A c \in Coroutines :
         co[c].pc \in {"items", "join"} => co[c].todo \subseteq Listed(co[c].desired)

Working == {"items", "join", "leaving", "part"}

\* The entries that have been placed: those whose command is awaited are not.
Placed(j) ==
    (Listed(j.desired) \ j.todo) \ (IF j.pc = "join" THEN j.books ELSE {})

\* What a coroutine works from.
Sources(j) ==
    j.pc \in Working =>
      /\ j.source = "engine" => lastDesired = j.desired
      /\ j.source = "fallback" =>
           /\ lastDesired = None /\ ~j.ok
           /\ j.desired = BootstrapEntries /\ j.actual \subseteq Bootstrap

\* Every login that was placed is in the books, for one of the entries placed.
Booked(j) ==
    j.pc \in {"items", "join"} =>
      /\ j.pc = "join" => j.books \subseteq Listed(j.desired) \ j.todo
      /\ \A e \in Placed(j) :
           \E f \in Placed(j) : j.desired[f] = j.desired[e] /\ joined[f] = j.desired[e]

\* What is booked is wanted, or still to leave, or being left.
Leaving(j) ==
    j.pc \in {"leaving", "part"} =>
      /\ j.todo \intersect Names(j.desired) = {}
      /\ Names(j.desired) \subseteq Names(joined)
      /\ \A e \in Entries :
           \/ joined[e] \in {None} \union Names(j.desired) \union j.todo
           \/ j.pc = "part" /\ e \in j.books
      /\ j.pc = "part" =>
           \A e \in j.books : joined[e] \notin Names(j.desired)
      /\ j.source = "fallback" => j.pc = "leaving" /\ j.todo = {}

\* A round that succeeded has left the books as it was asked to.
Settled(j) ==
    j.pc \in {"report", "wait"} /\ j.ok =>
      lastDesired = j.desired /\ Names(joined) = Names(j.desired)

Bookkeeping(j) == Sources(j) /\ Booked(j) /\ Leaving(j) /\ Settled(j)
FirstAnswer == lastDesired = None => Names(joined) \union connected \subseteq Bootstrap

BooksInv ==
    /\ FirstAnswer
    /\ \A c \in Coroutines : Bookkeeping(co[c])

\* Every login that was placed is in the session; what is in the session is wanted
\* or was there when the round began.
InSession(j) ==
    j.pc \in Working /\ j.source = "engine" =>
      /\ j.rejoin = force
      /\ connected \subseteq j.actual \union Names(j.desired)
      /\ j.pc \in {"items", "join"} /\ ~j.rejoin => j.actual \subseteq irc
      /\ j.pc = "items" \/ (j.pc = "join" /\ j.sent) =>
           \A e \in Listed(j.desired) \ j.todo : j.desired[e] \in irc
      /\ j.pc = "leaving" \/ (j.pc = "part" /\ j.sent) =>
           /\ Names(j.desired) \subseteq irc
           /\ connected \subseteq Names(j.desired) \union j.todo

\* A round that succeeded leaves the session as it was asked to, and one that is
\* what TwitchIO says it is.
Arrived(j) ==
    /\ j.pc = "report" /\ j.ok => irc = Names(j.desired) /\ connected = irc
    /\ j.pc = "wait" /\ j.ok /\ ~disturbed => irc = Names(j.desired)

\* TwitchIO knows of every channel of the session; what else it reports is left
\* over from a session before it, and a reconnect has asked for a rejoin.
SessionKnown ==
    /\ irc \subseteq connected
    /\ (unready /\ task # None) \/ force \/ irc = connected

SessionInv ==
    /\ SessionKnown
    /\ \A c \in Coroutines : InSession(co[c]) /\ Arrived(co[c])

-----------------------------------------------------------------------------
(* What a step leaves of a coroutine                                           *)

\* The fields a command does not touch, and the other coroutines.
OthersKept(c) == \A d \in Coroutines \ {c} : co'[d] = co[d]
PlanKept(c) ==
    /\ co'[c].loop = co[c].loop /\ co'[c].source = co[c].source
    /\ co'[c].desired = co[c].desired /\ co'[c].rejoin = co[c].rejoin
    /\ co'[c].actual = co[c].actual
    /\ OthersKept(c)

\* The changes of one coroutine, as the actions write them.
Command(c, pc, todo, books, sent) ==
    [co EXCEPT ![c].pc = pc, ![c].todo = todo, ![c].books = books, ![c].sent = sent]
Continue(c, pc, todo) == [co EXCEPT ![c].pc = pc, ![c].todo = todo]

\* A coroutine becomes another record: it has a type again, the others stay.
LEMMA Becomes ==
    ASSUME TypeOK, NEW c \in Coroutines, NEW n \in Coroutine, co' = [co EXCEPT ![c] = n]
    PROVE  co' \in [Coroutines -> Coroutine] /\ co'[c] = n /\ OthersKept(c)
<1>1. co \in [Coroutines -> Coroutine]
    BY DEF TypeOK
<1> HIDE DEF Coroutine
<1>2. QED
    BY <1>1 DEF OthersKept

\* A command is on its way (Joins, Leaves).
LEMMA Commanded ==
    ASSUME TypeOK, NEW c \in Coroutines, NEW todo, NEW books, NEW sent,
           NEW pc \in {"join", "part"},
           todo \subseteq Entries, books \subseteq Entries, sent \in BOOLEAN,
           co' = Command(c, pc, todo, books, sent)
    PROVE  /\ co' \in [Coroutines -> Coroutine]
           /\ co'[c].pc = pc /\ co'[c].todo = todo /\ co'[c].books = books
           /\ co'[c].sent = sent /\ co'[c].ok = co[c].ok /\ PlanKept(c)
<1> DEFINE n == [co[c] EXCEPT !.pc = pc, !.todo = todo, !.books = books, !.sent = sent]
<1>1. co \in [Coroutines -> Coroutine] /\ co[c] \in Coroutine
    BY DEF TypeOK
<1>2. co' = [co EXCEPT ![c] = n]
    <2> HIDE DEF Coroutine
    <2>1. QED
        BY <1>1 DEF Command
<1>3. n \in Coroutine /\ n.pc = pc /\ n.todo = todo /\ n.books = books /\ n.sent = sent
      /\ n.loop = co[c].loop /\ n.source = co[c].source /\ n.ok = co[c].ok
      /\ n.desired = co[c].desired /\ n.rejoin = co[c].rejoin /\ n.actual = co[c].actual
    <2> DEFINE m == [co[c] EXCEPT !.pc = pc, !.todo = todo]
    <2>1. m \in Coroutine /\ m.pc = pc /\ m.todo = todo
          /\ m.loop = co[c].loop /\ m.source = co[c].source /\ m.ok = co[c].ok
          /\ m.desired = co[c].desired /\ m.rejoin = co[c].rejoin /\ m.actual = co[c].actual
        BY <1>1 DEF Coroutine
    <2>2. n = [m EXCEPT !.books = books, !.sent = sent]
        OBVIOUS
    <2> HIDE DEF m, n
    <2>3. QED
        BY <2>1, <2>2 DEF Coroutine
<1> HIDE DEF n
<1>4. co' \in [Coroutines -> Coroutine] /\ co'[c] = n /\ OthersKept(c)
    BY <1>2, <1>3, Becomes
<1>5. QED
    BY <1>3, <1>4 DEF PlanKept

\* The phase changes, and what is left to do (AlreadyIn, StartsLeaving, and what
\* follows a command).
LEMMA Continued ==
    ASSUME TypeOK, NEW c \in Coroutines, NEW todo, todo \subseteq Entries,
           NEW pc \in {"items", "leaving", "report"},
           co' = Continue(c, pc, todo)
    PROVE  /\ co' \in [Coroutines -> Coroutine]
           /\ co'[c].pc = pc /\ co'[c].todo = todo /\ co'[c].ok = co[c].ok
           /\ PlanKept(c)
<1> DEFINE n == [co[c] EXCEPT !.pc = pc, !.todo = todo]
<1>1. co \in [Coroutines -> Coroutine] /\ co[c] \in Coroutine
    BY DEF TypeOK
<1>2. co' = [co EXCEPT ![c] = n]
    <2> HIDE DEF Coroutine
    <2>1. QED
        BY <1>1 DEF Continue
<1>3. n \in Coroutine /\ n.pc = pc /\ n.todo = todo
      /\ n.loop = co[c].loop /\ n.source = co[c].source /\ n.ok = co[c].ok
      /\ n.desired = co[c].desired /\ n.rejoin = co[c].rejoin /\ n.actual = co[c].actual
    BY <1>1 DEF Coroutine
<1> HIDE DEF n
<1>4. co' \in [Coroutines -> Coroutine] /\ co'[c] = n /\ OthersKept(c)
    BY <1>2, <1>3, Becomes
<1>5. QED
    BY <1>3, <1>4 DEF PlanKept

\* The records a round begins with.
LEMMA Beginnings ==
    ASSUME MembershipAssumption, TypeOK
    PROVE  /\ NotRunning \in Coroutine /\ NotRunning.pc = "off"
           /\ ~NotRunning.loop /\ ~NotRunning.ok
           /\ LET n == [NotRunning EXCEPT !.pc = "fetch"]
              IN  n \in Coroutine /\ n.pc = "fetch" /\ ~n.loop
           /\ \A c \in Coroutines :
                LET n == [co[c] EXCEPT !.pc = "fetch"]
                IN  n \in Coroutine /\ n.pc = "fetch" /\ n.loop = co[c].loop
<1>1. \A c \in Coroutines : co[c] \in Coroutine
    BY DEF TypeOK
<1>2. Nowhere \in Membership
    BY DEF Nowhere, Membership
<1>3. NotRunning \in Coroutine /\ NotRunning.pc = "off"
      /\ ~NotRunning.loop /\ ~NotRunning.ok
    BY <1>2 DEF NotRunning, Coroutine
<1>4. ASSUME NEW j \in Coroutine
      PROVE  LET n == [j EXCEPT !.pc = "fetch"]
             IN  n \in Coroutine /\ n.pc = "fetch" /\ n.loop = j.loop
    BY DEF Coroutine
<1>5. QED
    BY <1>1, <1>3, <1>4

\* What a round applies (Fetches, FallsBack).
AppliedTo(c, desired, source) ==
    /\ co' \in [Coroutines -> Coroutine]
    /\ co'[c].pc = "items" /\ co'[c].source = source
    /\ co'[c].desired = desired /\ co'[c].actual = connected
    /\ co'[c].todo = Listed(desired) /\ (co'[c].ok <=> source = "engine")
    /\ (co'[c].rejoin <=> source = "engine" /\ force)
    /\ co'[c].loop = co[c].loop /\ OthersKept(c)

\* The record a round goes on with, and the other coroutines as they were.
LEMMA Applied ==
    ASSUME TypeOK, NEW c \in Coroutines, NEW desired \in Membership,
           NEW source \in {"engine", "fallback"},
           co' = [co EXCEPT ![c] = Applying(c, desired, source)]
    PROVE  AppliedTo(c, desired, source)
<1> DEFINE L == Listed(desired)
           r == (source = "engine" /\ force)
           o == (source = "engine")
           m == [co[c] EXCEPT !.pc = "items", !.source = source, !.desired = desired]
           n == [m EXCEPT !.rejoin = r, !.actual = connected, !.todo = L, !.ok = o]
<1>1. co \in [Coroutines -> Coroutine] /\ co[c] \in Coroutine
    BY DEF TypeOK
<1>2. L \subseteq Entries /\ r \in BOOLEAN /\ o \in BOOLEAN /\ connected \subseteq Logins
    BY DEF TypeOK, Listed
<1>3. m \in Coroutine /\ m.pc = "items" /\ m.source = source /\ m.desired = desired
      /\ m.loop = co[c].loop
    BY <1>1 DEF Coroutine
<1>4. Applying(c, desired, source) = n
    BY DEF Applying
<1> HIDE DEF L, r, o, m
<1>5. n \in Coroutine /\ n.pc = "items" /\ n.source = source /\ n.desired = desired
      /\ n.loop = co[c].loop /\ n.rejoin = r /\ n.actual = connected /\ n.todo = L /\ n.ok = o
    BY <1>2, <1>3 DEF Coroutine
<1> HIDE DEF n
<1>6. co' \in [Coroutines -> Coroutine] /\ co'[c] = n /\ OthersKept(c)
    BY <1>4, <1>5, Becomes
<1>7. QED
    BY <1>5, <1>6 DEF AppliedTo, L, r, o

\* A round goes on with what the engine has answered.
LEMMA FetchApplied ==
    ASSUME TypeOK, NEW c \in Coroutines, engine \in Membership,
           co' = [co EXCEPT ![c] = Applying(c, engine, "engine")]
    PROVE  /\ co' \in [Coroutines -> Coroutine] /\ OthersKept(c)
           /\ co'[c].pc = "items" /\ co'[c].source = "engine" /\ co'[c].desired = engine
           /\ co'[c].todo = Listed(engine) /\ co'[c].actual = connected
           /\ (co'[c].rejoin <=> force)
<1>1. AppliedTo(c, engine, "engine")
    BY Applied
<1>2. QED
    BY <1>1 DEF AppliedTo

-----------------------------------------------------------------------------
(* What each action of a round does                                            *)

\* The types of the parts of a record.
LEMMA PartTypes ==
    ASSUME TypeOK, NEW c \in Coroutines
    PROVE  /\ co[c].pc \in {"off", "wait", "fetch", "items", "join", "leaving", "part",
                            "report"}
           /\ co[c].loop \in BOOLEAN /\ co[c].source \in {"engine", "fallback"}
           /\ co[c].ok \in BOOLEAN /\ co[c].desired \in Membership
           /\ co[c].rejoin \in BOOLEAN /\ co[c].actual \subseteq Logins
           /\ co[c].todo \subseteq Entries /\ co[c].books \subseteq Entries
           /\ co[c].sent \in BOOLEAN
  BY DEF TypeOK, Coroutine

LEMMA JoinsFacts ==
    ASSUME TypeOK, NEW c \in Coroutines, NEW e \in co[c].todo, NEW books,
           books \subseteq Entries, Joins(c, e, books)
    PROVE  /\ co' \in [Coroutines -> Coroutine] /\ PlanKept(c) /\ cpu' = None
           /\ co'[c].pc = "join" /\ co'[c].todo = co[c].todo \ {e}
           /\ co'[c].books = books /\ co'[c].ok = co[c].ok
           /\ \/ /\ co'[c].sent /\ irc' = irc \union {co[c].desired[e]}
                 /\ connected' = connected \union {co[c].desired[e]} /\ UNCHANGED spent
              \/ ~co'[c].sent /\ Fails /\ UNCHANGED <<irc, connected>>
<1> DEFINE todo == co[c].todo \ {e}
<1>1. PICK sent \in BOOLEAN :
        /\ IF sent
           THEN /\ irc' = irc \union {co[c].desired[e]}
                /\ connected' = connected \union {co[c].desired[e]}
                /\ UNCHANGED spent
           ELSE Fails /\ UNCHANGED <<irc, connected>>
        /\ co' = [co EXCEPT ![c].pc = "join", ![c].todo = @ \ {e},
                            ![c].books = books, ![c].sent = sent]
        /\ cpu' = None
    BY DEF Joins
<1>2. co' = Command(c, "join", todo, books, sent)
    <2>1. co \in [Coroutines -> Coroutine] /\ co[c] \in Coroutine
        BY DEF TypeOK
    <2>2. [co EXCEPT ![c].pc = "join"][c].todo = co[c].todo
        BY <2>1 DEF Coroutine
    <2>3. QED
        BY <1>1, <2>2 DEF Command
<1>3. todo \subseteq Entries
    BY PartTypes
<1> HIDE DEF todo
<1>4. /\ co' \in [Coroutines -> Coroutine] /\ PlanKept(c)
      /\ co'[c].pc = "join" /\ co'[c].todo = todo /\ co'[c].books = books
      /\ co'[c].ok = co[c].ok /\ co'[c].sent = sent
    BY <1>2, <1>3, Commanded
<1>5. QED
    BY <1>1, <1>4 DEF todo

LEMMA LeavesFacts ==
    ASSUME TypeOK, NEW c \in Coroutines, NEW login, Leaves(c, login)
    PROVE  /\ co' \in [Coroutines -> Coroutine] /\ PlanKept(c) /\ cpu' = None
           /\ co'[c].pc = "part" /\ co'[c].todo = co[c].todo \ {login}
           /\ co'[c].books = {e \in Entries : joined[e] = login} /\ co'[c].ok = co[c].ok
           /\ \/ /\ co'[c].sent /\ irc' = irc \ {login}
                 /\ connected' = connected \ {login} /\ UNCHANGED spent
              \/ ~co'[c].sent /\ Fails /\ UNCHANGED <<irc, connected>>
<1> DEFINE todo == co[c].todo \ {login}
           books == {e \in Entries : joined[e] = login}
<1>1. PICK sent \in BOOLEAN :
        /\ IF sent
           THEN /\ irc' = irc \ {login}
                /\ connected' = connected \ {login}
                /\ UNCHANGED spent
           ELSE Fails /\ UNCHANGED <<irc, connected>>
        /\ co' = [co EXCEPT ![c].pc = "part", ![c].todo = @ \ {login},
                            ![c].books = books, ![c].sent = sent]
    BY DEF Leaves
<1>2. co' = Command(c, "part", todo, books, sent)
    <2>1. co \in [Coroutines -> Coroutine] /\ co[c] \in Coroutine
        BY DEF TypeOK
    <2>2. [co EXCEPT ![c].pc = "part"][c].todo = co[c].todo
        BY <2>1 DEF Coroutine
    <2>3. QED
        BY <1>1, <2>2 DEF Command
<1>3. todo \subseteq Entries /\ books \subseteq Entries
    BY PartTypes
<1> HIDE DEF todo, books
<1>4. /\ co' \in [Coroutines -> Coroutine] /\ PlanKept(c)
      /\ co'[c].pc = "part" /\ co'[c].todo = todo /\ co'[c].books = books
      /\ co'[c].ok = co[c].ok /\ co'[c].sent = sent
    BY <1>2, <1>3, Commanded
<1>5. cpu' = None
    BY DEF Leaves
<1>6. QED
    BY <1>1, <1>4, <1>5 DEF todo, books

\* Joined already, or a command has returned, or there is nothing left to do.
LEMMA ContinuedFacts ==
    ASSUME TypeOK, NEW c \in Coroutines, NEW pc \in {"items", "leaving", "report"},
           co' = [co EXCEPT ![c].pc = pc]
    PROVE  /\ co' \in [Coroutines -> Coroutine] /\ PlanKept(c)
           /\ co'[c].pc = pc /\ co'[c].todo = co[c].todo /\ co'[c].ok = co[c].ok
<1>1. co \in [Coroutines -> Coroutine] /\ co[c] \in Coroutine
    BY DEF TypeOK
<1> DEFINE todo == co[c].todo
<1>2. co' = Continue(c, pc, todo)
    <2>1. [co[c] EXCEPT !.pc = pc] = [co[c] EXCEPT !.pc = pc, !.todo = co[c].todo]
        BY <1>1 DEF Coroutine
    <2>2. Continue(c, pc, todo)
            = [co EXCEPT ![c] = [co[c] EXCEPT !.pc = pc, !.todo = co[c].todo]]
        <3> HIDE DEF Coroutine
        <3>1. QED
            BY <1>1 DEF Continue
    <2>3. QED
        BY <2>1, <2>2
<1>3. todo \subseteq Entries
    BY PartTypes
<1> HIDE DEF todo
<1>4. QED
    <2>1. /\ co' \in [Coroutines -> Coroutine] /\ PlanKept(c)
          /\ co'[c].pc = pc /\ co'[c].todo = todo /\ co'[c].ok = co[c].ok
        BY <1>2, <1>3, Continued
    <2>2. QED
        BY <2>1 DEF todo

LEMMA AlreadyInFacts ==
    ASSUME TypeOK, NEW c \in Coroutines, NEW e, co[c].pc = "items", AlreadyIn(c, e)
    PROVE  /\ co' \in [Coroutines -> Coroutine] /\ PlanKept(c)
           /\ co'[c].pc = "items" /\ co'[c].todo = co[c].todo \ {e}
           /\ co'[c].ok = co[c].ok /\ UNCHANGED <<irc, connected, cpu, spent>>
<1>1. co \in [Coroutines -> Coroutine] /\ co[c] \in Coroutine
    BY DEF TypeOK
<1> DEFINE todo == co[c].todo \ {e}
           n == [co[c] EXCEPT !.pc = "items", !.todo = todo]
<1>2. co' = [co EXCEPT ![c] = [co[c] EXCEPT !.todo = todo]]
    BY DEF AlreadyIn
<1>3. [co[c] EXCEPT !.todo = todo] = n
    BY <1>1 DEF Coroutine
<1>4. co' = Continue(c, "items", todo)
    <2>1. Continue(c, "items", todo) = [co EXCEPT ![c] = n]
        <3> HIDE DEF Coroutine
        <3>1. QED
            BY <1>1 DEF Continue
    <2>2. QED
        BY <1>2, <1>3, <2>1
<1>5. todo \subseteq Entries
    BY PartTypes
<1> HIDE DEF todo, n
<1>6. /\ co' \in [Coroutines -> Coroutine] /\ PlanKept(c)
      /\ co'[c].pc = "items" /\ co'[c].todo = todo /\ co'[c].ok = co[c].ok
    BY <1>4, <1>5, Continued
<1>7. QED
    BY <1>6 DEF todo, AlreadyIn

LEMMA StartFacts ==
    ASSUME MembershipAssumption, TypeOK, NEW c \in Coroutines, Start(c)
    PROVE  /\ co' \in [Coroutines -> Coroutine] /\ OthersKept(c)
           /\ co'[c].pc = "fetch" /\ ~co'[c].loop
<1> DEFINE n == [NotRunning EXCEPT !.pc = "fetch"]
<1>1. n \in Coroutine /\ n.pc = "fetch" /\ ~n.loop
    BY Beginnings
<1>2. co' = [co EXCEPT ![c] = n]
    BY DEF Start
<1> HIDE DEF n
<1>3. QED
    BY <1>1, <1>2, Becomes

LEMMA WakesFacts ==
    ASSUME MembershipAssumption, TypeOK, NEW c \in Coroutines, Wakes(c)
    PROVE  /\ co' \in [Coroutines -> Coroutine] /\ OthersKept(c)
           /\ \/ co'[c].pc = "off"
              \/ co'[c].pc = "fetch" /\ co'[c].loop = co[c].loop
<1> DEFINE n == [co[c] EXCEPT !.pc = "fetch"]
<1>1. NotRunning \in Coroutine /\ NotRunning.pc = "off"
    BY Beginnings
<1>2. n \in Coroutine /\ n.pc = "fetch" /\ n.loop = co[c].loop
    BY Beginnings
<1>3. co' = [co EXCEPT ![c] = NotRunning] \/ co' = [co EXCEPT ![c] = n]
    BY DEF Wakes
<1> HIDE DEF n, NotRunning
<1>4. QED
    BY <1>1, <1>2, <1>3, Becomes

\* A round ends badly (FetchFails, CommandRaises).
LEMMA FailedFacts ==
    ASSUME TypeOK, NEW c \in Coroutines, FetchFails(c) \/ CommandRaises(c)
    PROVE  /\ co' \in [Coroutines -> Coroutine] /\ OthersKept(c)
           /\ co'[c].desired = co[c].desired
           /\ co'[c].pc = "report" /\ co'[c].loop = co[c].loop /\ ~co'[c].ok
<1> DEFINE n == [co[c] EXCEPT !.pc = "report", !.ok = FALSE]
<1>1. co \in [Coroutines -> Coroutine] /\ co[c] \in Coroutine
    BY DEF TypeOK
<1>2. n \in Coroutine /\ n.pc = "report" /\ n.loop = co[c].loop /\ ~n.ok
      /\ n.desired = co[c].desired
    BY <1>1 DEF Coroutine
<1>3. co' = [co EXCEPT ![c] = n]
    <2> HIDE DEF Coroutine
    <2>1. QED
        BY <1>1 DEF FetchFails, CommandRaises
<1> HIDE DEF n
<1>4. QED
    BY <1>2, <1>3, Becomes

LEMMA ReturnsFacts ==
    ASSUME TypeOK, NEW c \in Coroutines, Returns(c)
    PROVE  /\ co' \in [Coroutines -> Coroutine] /\ OthersKept(c)
           /\ co'[c].desired = co[c].desired
           /\ co'[c].pc = "wait" /\ co'[c].loop /\ co'[c].ok = co[c].ok
<1> DEFINE n == [co[c] EXCEPT !.pc = "wait", !.loop = TRUE]
<1>1. co \in [Coroutines -> Coroutine] /\ co[c] \in Coroutine
    BY DEF TypeOK
<1>2. n \in Coroutine /\ n.pc = "wait" /\ n.loop /\ n.ok = co[c].ok
      /\ n.desired = co[c].desired
    BY <1>1 DEF Coroutine
<1>3. co' = [co EXCEPT ![c] = n]
    <2> HIDE DEF Coroutine
    <2>1. QED
        BY <1>1 DEF Returns
<1> HIDE DEF n
<1>4. QED
    BY <1>2, <1>3, Becomes

\* A coroutine turns to what is left to leave.
LEMMA StartsLeavingFacts ==
    ASSUME TypeOK, NEW c \in Coroutines, StartsLeaving(c)
    PROVE  /\ co' \in [Coroutines -> Coroutine] /\ PlanKept(c)
           /\ co'[c].pc = "leaving" /\ co'[c].todo = StaleLogins(c) /\ co'[c].ok = co[c].ok
<1> DEFINE todo == StaleLogins(c)
<1>1. todo \subseteq Entries
    BY PartTypes DEF StaleLogins, Names, TypeOK, Membership, Entries
<1>2. co' = Continue(c, "leaving", todo)
    BY DEF StartsLeaving, Continue
<1> HIDE DEF todo
<1>3. /\ co' \in [Coroutines -> Coroutine] /\ PlanKept(c)
      /\ co'[c].pc = "leaving" /\ co'[c].todo = todo /\ co'[c].ok = co[c].ok
    BY <1>1, <1>2, Continued
<1>4. QED
    BY <1>3 DEF todo

-----------------------------------------------------------------------------
(* Types                                                                       *)

\* The logins a membership names are logins.
LEMMA NamesAreLogins ==
    ASSUME NEW m \in Membership
    PROVE  Names(m) \subseteq Logins
  BY DEF Membership, Names

\* The type of the counters, of a failure and of no failure.
LEMMA FailsType ==
    ASSUME MembershipAssumption, TypeOK, Fails \/ UNCHANGED spent
    PROVE  spent' \in [reconnects : 0 .. MaxReconnects, changes : 0 .. MaxChanges,
                       failures : 0 .. MaxFailures]
<1>1. CASE UNCHANGED spent
    BY <1>1 DEF TypeOK
<1>2. CASE Fails
    <2>1. spent.failures \in 0 .. MaxFailures /\ spent.failures < MaxFailures
        BY <1>2 DEF Fails, TypeOK
    <2>2. spent.failures + 1 \in 0 .. MaxFailures
        BY <2>1 DEF MembershipAssumption
    <2>3. QED
        BY <1>2, <2>2 DEF Fails, TypeOK
<1>3. QED
    BY <1>1, <1>2

\* What is left to apply is wanted, once it is so of the coroutine that moves.
LEMMA TodoStep ==
    ASSUME TypeInv, NEW c \in Coroutines, OthersKept(c),
           co'[c].pc \in {"items", "join"} => co'[c].todo \subseteq Listed(co'[c].desired)
    PROVE  \A d \in Coroutines :
              co'[d].pc \in {"items", "join"} => co'[d].todo \subseteq Listed(co'[d].desired)
  BY DEF TypeInv, OthersKept

LEMMA InitTypes == ASSUME MembershipAssumption, Init PROVE TypeInv
<1>1. co \in [Coroutines -> Coroutine]
    <2>1. Nowhere \in Membership
        BY DEF Nowhere, Membership
    <2>2. NotRunning \in Coroutine
        BY <2>1 DEF NotRunning, Coroutine
    <2> HIDE DEF Coroutine, NotRunning
    <2>3. QED
        BY <2>2 DEF Init
<1>2. engine \in Membership /\ joined \in Membership
    BY DEF Init, Membership, BootstrapEntries, Entries, MembershipAssumption
<1>3. spent \in [reconnects : 0 .. MaxReconnects, changes : 0 .. MaxChanges,
                 failures : 0 .. MaxFailures]
    BY DEF Init, MembershipAssumption
<1>4. \A c \in Coroutines : co[c].pc = "off"
    BY DEF Init, NotRunning
<1> HIDE DEF Coroutine, Membership
<1>5. QED
    BY <1>1, <1>2, <1>3, <1>4 DEF Init, TypeInv, TypeOK, MembershipAssumption

LEMMA ApplyTypes ==
    ASSUME MembershipAssumption, TypeInv, NEW c \in Coroutines,
           \E e \in Entries : \/ Rejoins(c, e) \/ KeepsEntry(c, e) \/ NewEntry(c, e)
                              \/ \E other \in Entries : AdoptsEntry(c, e, other)
    PROVE  TypeInv'
<1>1. PICK e \in Entries : \/ Rejoins(c, e) \/ KeepsEntry(c, e) \/ NewEntry(c, e)
                           \/ \E other \in Entries : AdoptsEntry(c, e, other)
    OBVIOUS
<1>2. /\ co[c].pc = "items" /\ e \in co[c].todo
      /\ UNCHANGED <<engine, lastDesired, flags, life, disturbed>>
    BY <1>1 DEF Rejoins, KeepsEntry, NewEntry, AdoptsEntry, Applies
<1>3. co[c].desired \in Membership /\ co[c].desired[e] \in Logins
      /\ co[c].todo \subseteq Listed(co[c].desired)
    BY <1>2, PartTypes DEF TypeInv, Listed, Membership
<1>4. AlreadyIn(c, e) \/ Joins(c, e, {}) \/ Joins(c, e, {e})
    BY <1>1 DEF Rejoins, KeepsEntry, NewEntry, AdoptsEntry, JoinsIfAbsent
<1>5. /\ co' \in [Coroutines -> Coroutine] /\ PlanKept(c)
      /\ co'[c].pc \in {"items", "join"} /\ co'[c].todo = co[c].todo \ {e}
      /\ irc' \subseteq Logins /\ connected' \subseteq Logins
      /\ cpu' \in {cpu, None} /\ (Fails \/ UNCHANGED spent)
    <2>1. TypeOK
        BY DEF TypeInv
    <2>2. irc \subseteq Logins /\ connected \subseteq Logins
        BY <2>1 DEF TypeOK
    <2>3. CASE AlreadyIn(c, e)
        BY <1>2, <2>1, <2>2, <2>3, AlreadyInFacts
    <2>4. ASSUME NEW books, books \subseteq Entries, Joins(c, e, books)
          PROVE  /\ co' \in [Coroutines -> Coroutine] /\ PlanKept(c)
                 /\ co'[c].pc \in {"items", "join"} /\ co'[c].todo = co[c].todo \ {e}
                 /\ irc' \subseteq Logins /\ connected' \subseteq Logins
                 /\ cpu' \in {cpu, None} /\ (Fails \/ UNCHANGED spent)
        BY <1>2, <1>3, <2>1, <2>2, <2>4, JoinsFacts
    <2>5. QED
        BY <1>4, <2>3, <2>4
<1>6. joined' \in Membership
    <2>1. joined \in Membership
        BY DEF TypeInv, TypeOK
    <2>2. \/ UNCHANGED joined
          \/ joined' = [joined EXCEPT ![e] = co[c].desired[e]]
          \/ \E other \in Entries :
                joined' = [joined EXCEPT ![other] = None, ![e] = co[c].desired[e]]
        BY <1>1 DEF Rejoins, KeepsEntry, NewEntry, AdoptsEntry
    <2>3. QED
        BY <1>3, <2>1, <2>2 DEF Membership
<1>7. spent' \in [reconnects : 0 .. MaxReconnects, changes : 0 .. MaxChanges,
                  failures : 0 .. MaxFailures]
    BY <1>5, FailsType DEF TypeInv
<1>8. TypeOK'
    BY <1>2, <1>5, <1>6, <1>7 DEF TypeInv, TypeOK, flags, life
<1>9. co'[c].todo \subseteq Listed(co'[c].desired)
    BY <1>3, <1>5 DEF PlanKept
<1>10. QED
    BY <1>5, <1>8, <1>9, TodoStep DEF TypeInv, PlanKept

\* Every other step of a coroutine.
LEMMA RoundTypes ==
    ASSUME MembershipAssumption, TypeInv, NEW c \in Coroutines,
           \/ Wakes(c) \/ Fetches(c) \/ FallsBack(c) \/ FetchFails(c)
           \/ CommandRaises(c) \/ Returns(c)
           \/ JoinReturns(c) \/ StartsLeaving(c)
           \/ \E login \in Logins : Leaves(c, login)
           \/ PartReturns(c) \/ Reports(c)
    PROVE  TypeInv'
<1>1. TypeOK /\ joined \in Membership /\ engine \in Membership
    BY DEF TypeInv, TypeOK
<1>2. BootstrapEntries \in Membership
    BY DEF Membership, BootstrapEntries, Entries, MembershipAssumption
<1>3. CASE Wakes(c)
    <2>1. /\ co' \in [Coroutines -> Coroutine] /\ OthersKept(c)
          /\ co'[c].pc \in {"off", "fetch"}
        BY <1>1, <1>3, WakesFacts
    <2>2. TypeOK'
        BY <1>1, <1>3, <2>1 DEF TypeOK, Wakes, session, memory, life
    <2>3. QED
        BY <2>1, <2>2, TodoStep DEF TypeInv
<1>4. CASE Fetches(c)
    <2>1. co' = [co EXCEPT ![c] = Applying(c, engine, "engine")]
        BY <1>4 DEF Fetches
    <2>2. /\ co' \in [Coroutines -> Coroutine] /\ OthersKept(c)
          /\ co'[c].todo = Listed(engine) /\ co'[c].desired = engine
        BY <1>1, <2>1, FetchApplied
    <2>3. TypeOK'
        BY <1>1, <1>4, <2>2 DEF TypeOK, Fetches, session, flags, life
    <2>4. QED
        BY <2>2, <2>3, TodoStep DEF TypeInv
<1>5. CASE FallsBack(c)
    <2>1. co' = [co EXCEPT ![c] = Applying(c, BootstrapEntries, "fallback")]
        BY <1>5 DEF FallsBack
    <2>2. /\ co' \in [Coroutines -> Coroutine] /\ OthersKept(c)
          /\ co'[c].todo = Listed(BootstrapEntries) /\ co'[c].desired = BootstrapEntries
        BY <1>1, <1>2, <2>1, Applied DEF AppliedTo
    <2>3. spent' \in [reconnects : 0 .. MaxReconnects, changes : 0 .. MaxChanges,
                      failures : 0 .. MaxFailures]
        BY <1>1, <1>5, FailsType DEF FallsBack
    <2>4. TypeOK'
        BY <1>1, <1>5, <2>2, <2>3 DEF TypeOK, FallsBack, session, memory, flags, life
    <2>5. QED
        BY <2>2, <2>4, TodoStep DEF TypeInv
<1>6. CASE FetchFails(c) \/ CommandRaises(c)
    <2>1. co' \in [Coroutines -> Coroutine] /\ OthersKept(c) /\ co'[c].pc = "report"
        BY <1>1, <1>6, FailedFacts
    <2>2. spent' \in [reconnects : 0 .. MaxReconnects, changes : 0 .. MaxChanges,
                      failures : 0 .. MaxFailures]
        BY <1>1, <1>6, FailsType DEF FetchFails, CommandRaises
    <2>3. TypeOK'
        BY <1>1, <1>6, <2>1, <2>2
            DEF TypeOK, FetchFails, CommandRaises, session, memory, flags, life
    <2>4. QED
        BY <2>1, <2>3, TodoStep DEF TypeInv
<1>7. CASE Returns(c)
    <2>1. co' \in [Coroutines -> Coroutine] /\ OthersKept(c) /\ co'[c].pc = "wait"
        BY <1>1, <1>7, ReturnsFacts
    <2>2. force' \in BOOLEAN /\ task' \in Coroutines \union {None}
        BY <1>1, <1>7, PartTypes DEF TypeOK, Returns, ForceAfter
    <2>3. TypeOK'
        BY <1>1, <1>7, <2>1, <2>2 DEF TypeOK, Returns, session, memory
    <2>4. QED
        BY <2>1, <2>3, TodoStep DEF TypeInv
<1>8. CASE JoinReturns(c)
    <2>1. co' = [co EXCEPT ![c].pc = "items"] /\ co[c].pc = "join"
        BY <1>8 DEF JoinReturns
    <2>2. /\ co' \in [Coroutines -> Coroutine] /\ PlanKept(c)
          /\ co'[c].todo = co[c].todo
        BY <1>1, <2>1, ContinuedFacts
    <2>3. joined' \in Membership
        <3>1. co[c].desired \in Membership
            BY <1>1, PartTypes
        <3>2. QED
            BY <1>1, <1>8, <3>1 DEF JoinReturns, Membership
    <2>4. TypeOK'
        BY <1>1, <1>8, <2>2, <2>3 DEF TypeOK, JoinReturns, session, flags, life
    <2>5. co'[c].todo \subseteq Listed(co'[c].desired)
        BY <2>1, <2>2 DEF TypeInv, PlanKept
    <2>6. QED
        BY <2>2, <2>4, <2>5, TodoStep DEF TypeInv, PlanKept
<1>9. CASE StartsLeaving(c)
    <2>1. co' \in [Coroutines -> Coroutine] /\ OthersKept(c) /\ co'[c].pc = "leaving"
        BY <1>1, <1>9, StartsLeavingFacts DEF PlanKept
    <2>2. TypeOK'
        BY <1>1, <1>9, <2>1 DEF TypeOK, StartsLeaving, session, memory, flags, life
    <2>3. QED
        BY <2>1, <2>2, TodoStep DEF TypeInv
<1>10. ASSUME NEW login \in Logins, Leaves(c, login)
       PROVE  TypeInv'
    <2>1. /\ co' \in [Coroutines -> Coroutine] /\ OthersKept(c) /\ co'[c].pc = "part"
          /\ cpu' = None /\ irc' \subseteq irc /\ connected' \subseteq connected
          /\ (Fails \/ UNCHANGED spent)
        BY <1>1, <1>10, LeavesFacts DEF PlanKept
    <2>2. spent' \in [reconnects : 0 .. MaxReconnects, changes : 0 .. MaxChanges,
                      failures : 0 .. MaxFailures]
        BY <1>1, <2>1, FailsType
    <2>3. UNCHANGED <<engine, memory, flags, life, disturbed>>
        BY <1>10 DEF Leaves
    <2>4. TypeOK'
        BY <1>1, <2>1, <2>2, <2>3 DEF TypeOK, memory, flags, life
    <2>5. QED
        BY <2>1, <2>4, TodoStep DEF TypeInv
<1>11. CASE PartReturns(c)
    <2>1. co' = [co EXCEPT ![c].pc = "leaving"]
        BY <1>11 DEF PartReturns
    <2>2. co' \in [Coroutines -> Coroutine] /\ OthersKept(c) /\ co'[c].pc = "leaving"
        BY <1>1, <2>1, ContinuedFacts DEF PlanKept
    <2>3. joined' \in Membership
        BY <1>1, <1>11 DEF PartReturns, Membership
    <2>4. TypeOK'
        BY <1>1, <1>11, <2>2, <2>3 DEF TypeOK, PartReturns, session, flags, life
    <2>5. QED
        BY <2>2, <2>4, TodoStep DEF TypeInv
<1>12. CASE Reports(c)
    <2>1. co' = [co EXCEPT ![c].pc = "report"]
        BY <1>12 DEF Reports
    <2>2. co' \in [Coroutines -> Coroutine] /\ OthersKept(c) /\ co'[c].pc = "report"
        BY <1>1, <2>1, ContinuedFacts DEF PlanKept
    <2>3. TypeOK'
        BY <1>1, <1>12, <2>2 DEF TypeOK, Reports, session, memory, flags, life
    <2>4. QED
        BY <2>2, <2>3, TodoStep DEF TypeInv
<1>13. QED
    BY <1>3, <1>4, <1>5, <1>6, <1>7, <1>8, <1>9, <1>10, <1>11, <1>12

LEMMA TypeStep ==
    ASSUME MembershipAssumption, TypeInv, [Next]_vars
    PROVE  TypeInv'
<1>1. TypeOK
    BY DEF TypeInv
<1>2. CASE \E c \in Coroutines : Start(c)
    <2>1. PICK c \in Coroutines : Start(c)
        BY <1>2
    <2>2. co' \in [Coroutines -> Coroutine] /\ OthersKept(c) /\ co'[c].pc = "fetch"
        BY <1>1, <2>1, StartFacts
    <2>3. TypeOK'
        BY <1>1, <2>1, <2>2 DEF TypeOK, Start, session, memory
    <2>4. QED
        BY <2>2, <2>3, TodoStep DEF TypeInv
<1>3. CASE Restart \/ Stop \/ StopReturns \/ UNCHANGED vars
    <2>1. UNCHANGED co
        BY <1>3 DEF Restart, Stop, StopReturns, vars
    <2>2. TypeOK'
        <3>1. CASE Restart
            BY <1>1, <3>1 DEF TypeOK, Restart, session, memory
        <3>2. CASE Stop
            BY <1>1, <3>2 DEF TypeOK, Stop, session, memory
        <3>3. CASE StopReturns
            BY <1>1, <3>3 DEF TypeOK, StopReturns, session, memory, flags
        <3>4. CASE UNCHANGED vars
            BY <1>1, <3>4 DEF TypeOK, vars, session, memory, flags, life
        <3>5. QED
            BY <1>3, <3>1, <3>2, <3>3, <3>4
    <2>3. QED
        BY <2>1, <2>2 DEF TypeInv
<1>4. CASE Reconnect
    <2>1. spent' \in [reconnects : 0 .. MaxReconnects, changes : 0 .. MaxChanges,
                      failures : 0 .. MaxFailures]
        <3>1. /\ spent.reconnects \in 0 .. MaxReconnects /\ spent.reconnects < MaxReconnects
              /\ MaxReconnects \in Nat
            BY <1>1, <1>4 DEF Reconnect, TypeOK, MembershipAssumption
        <3>2. spent.reconnects + 1 \in 0 .. MaxReconnects
            BY <3>1
        <3>3. QED
            BY <1>1, <1>4, <3>2 DEF Reconnect, TypeOK
    <2>2. irc' \subseteq Logins /\ connected' \subseteq Logins /\ UNCHANGED co
        BY <1>1, <1>4 DEF Reconnect, TypeOK, MembershipAssumption
    <2>3. TypeOK'
        BY <1>1, <1>4, <2>1, <2>2 DEF TypeOK, Reconnect, memory, flags
    <2>4. QED
        BY <2>2, <2>3 DEF TypeInv
<1>5. CASE \E e \in Ids, login \in Logins \union {None} : EngineChanges(e, login)
    <2>1. PICK e \in Ids, login \in Logins \union {None} : EngineChanges(e, login)
        BY <1>5
    <2>2. spent' \in [reconnects : 0 .. MaxReconnects, changes : 0 .. MaxChanges,
                      failures : 0 .. MaxFailures]
        <3>1. /\ spent.changes \in 0 .. MaxChanges /\ spent.changes < MaxChanges
              /\ MaxChanges \in Nat
            BY <1>1, <2>1 DEF EngineChanges, TypeOK, MembershipAssumption
        <3>2. spent.changes + 1 \in 0 .. MaxChanges
            BY <3>1
        <3>3. QED
            BY <1>1, <2>1, <3>2 DEF EngineChanges, TypeOK
    <2>3. engine' \in Membership /\ UNCHANGED co
        BY <1>1, <2>1 DEF EngineChanges, TypeOK, Membership, Entries
    <2>4. TypeOK'
        BY <1>1, <2>1, <2>2, <2>3 DEF TypeOK, EngineChanges, session, memory, flags, life
    <2>5. QED
        BY <2>3, <2>4 DEF TypeInv
<1>6. CASE \E c \in Coroutines : Reconciles(c)
    BY <1>6, ApplyTypes, RoundTypes DEF Reconciles
<1>7. QED
    BY <1>2, <1>3, <1>4, <1>5, <1>6 DEF Next, EventReady

-----------------------------------------------------------------------------
(* One round at a time                                                         *)

\* What an action of a round does to what Control speaks of.
RoundMoves(c) ==
    /\ On(c) /\ OthersKept(c) /\ UNCHANGED <<unready, closer>>
    /\ co[c].pc = "wait" => ~(DropsWhile = "resting" /\ unready)
    /\ \/ co'[c].pc \notin {"off", "wait"} /\ co'[c].loop = co[c].loop /\ UNCHANGED task
       \/ co'[c].pc = "off" /\ co[c].pc = "wait" /\ UNCHANGED task
       \/ /\ co'[c].pc = "wait" /\ co'[c].loop /\ co[c].pc = "report"
          /\ task' = IF co[c].loop THEN task ELSE c

LEMMA EveryRoundMoves ==
    ASSUME MembershipAssumption, TypeInv, NEW c \in Coroutines, Reconciles(c)
    PROVE  RoundMoves(c)
<1>1. TypeOK
    BY DEF TypeInv
<1>2. CASE Wakes(c)
    BY <1>1, <1>2, WakesFacts DEF RoundMoves, On, Wakes, life
<1>3. CASE Fetches(c)
    <2>1. co' = [co EXCEPT ![c] = Applying(c, engine, "engine")] /\ engine \in Membership
        BY <1>1, <1>3 DEF Fetches, TypeOK
    <2>2. OthersKept(c) /\ co'[c].pc = "items" /\ co'[c].loop = co[c].loop
        BY <1>1, <2>1, Applied DEF AppliedTo
    <2>3. QED
        BY <1>3, <2>2 DEF RoundMoves, On, Fetches, life
<1>4. CASE FallsBack(c)
    <2>1. /\ co' = [co EXCEPT ![c] = Applying(c, BootstrapEntries, "fallback")]
          /\ BootstrapEntries \in Membership
        BY <1>4 DEF FallsBack, Membership, BootstrapEntries, Entries, MembershipAssumption
    <2>2. OthersKept(c) /\ co'[c].pc = "items" /\ co'[c].loop = co[c].loop
        BY <1>1, <2>1, Applied DEF AppliedTo
    <2>3. QED
        BY <1>4, <2>2 DEF RoundMoves, On, FallsBack, life
<1>5. CASE FetchFails(c) \/ CommandRaises(c)
    BY <1>1, <1>5, FailedFacts DEF RoundMoves, On, FetchFails, CommandRaises, life
<1>6. CASE Returns(c)
    BY <1>1, <1>6, ReturnsFacts DEF RoundMoves, On, Returns
<1>7. CASE JoinReturns(c)
    <2>1. co' = [co EXCEPT ![c].pc = "items"]
        BY <1>7 DEF JoinReturns
    <2>2. PlanKept(c) /\ co'[c].pc = "items"
        BY <1>1, <2>1, ContinuedFacts
    <2>3. QED
        BY <1>7, <2>2 DEF RoundMoves, On, JoinReturns, PlanKept, life
<1>8. CASE StartsLeaving(c)
    BY <1>1, <1>8, StartsLeavingFacts DEF RoundMoves, On, StartsLeaving, PlanKept, life
<1>9. ASSUME NEW login \in Logins, Leaves(c, login)
      PROVE  RoundMoves(c)
    <2>1. PlanKept(c) /\ co'[c].pc = "part"
        BY <1>1, <1>9, LeavesFacts
    <2>2. QED
        BY <1>9, <2>1 DEF RoundMoves, On, Leaves, PlanKept, life
<1>10. CASE PartReturns(c)
    <2>1. co' = [co EXCEPT ![c].pc = "leaving"]
        BY <1>10 DEF PartReturns
    <2>2. PlanKept(c) /\ co'[c].pc = "leaving"
        BY <1>1, <2>1, ContinuedFacts
    <2>3. QED
        BY <1>10, <2>2 DEF RoundMoves, On, PartReturns, PlanKept, life
<1>11. CASE Reports(c)
    <2>1. co' = [co EXCEPT ![c].pc = "report"]
        BY <1>11 DEF Reports
    <2>2. PlanKept(c) /\ co'[c].pc = "report"
        BY <1>1, <2>1, ContinuedFacts
    <2>3. QED
        BY <1>11, <2>2 DEF RoundMoves, On, Reports, PlanKept, life
<1>12. ASSUME NEW e \in Entries,
              \/ Rejoins(c, e) \/ KeepsEntry(c, e) \/ NewEntry(c, e)
              \/ \E other \in Entries : AdoptsEntry(c, e, other)
       PROVE  RoundMoves(c)
    <2>1. co[c].pc = "items" /\ e \in co[c].todo /\ UNCHANGED life
        BY <1>12 DEF Rejoins, KeepsEntry, NewEntry, AdoptsEntry, Applies
    <2>2. AlreadyIn(c, e) \/ Joins(c, e, {}) \/ Joins(c, e, {e})
        BY <1>12 DEF Rejoins, KeepsEntry, NewEntry, AdoptsEntry, JoinsIfAbsent
    <2>3. PlanKept(c) /\ co'[c].pc \in {"items", "join"}
        <3>1. CASE AlreadyIn(c, e)
            BY <1>1, <2>1, <3>1, AlreadyInFacts
        <3>2. ASSUME NEW books, books \subseteq Entries, Joins(c, e, books)
              PROVE  PlanKept(c) /\ co'[c].pc \in {"items", "join"}
            BY <1>1, <2>1, <3>2, JoinsFacts
        <3>3. QED
            BY <2>2, <3>1, <3>2
    <2>4. QED
        BY <2>1, <2>3 DEF RoundMoves, On, PlanKept, life
<1>13. QED
    BY <1>2, <1>3, <1>4, <1>5, <1>6, <1>7, <1>8, <1>9, <1>10, <1>11, <1>12 DEF Reconciles

\* A round is under way only when no reconnect is unheard of.
LEMMA RoundIsReady ==
    ASSUME MembershipAssumption, DropsWhile = "resting", TypeInv, Control,
           NEW c \in Coroutines, RoundMoves(c)
    PROVE  ~unready
<1>1. task \in Coroutines \union {None} /\ None \notin Coroutines
    BY DEF TypeInv, TypeOK, MembershipAssumption
<1>2. \A d \in Coroutines \ {c} : co[d].pc = "off"
    BY DEF RoundMoves, Control, Alone, On
<1>3. SUFFICES ASSUME unready PROVE FALSE
    OBVIOUS
<1>4. task # None /\ co[task].pc = "wait"
    BY <1>3 DEF Control, RoundMoves
<1>5. task = c
    BY <1>1, <1>2, <1>4
<1>6. QED
    BY <1>3, <1>4, <1>5 DEF RoundMoves

LEMMA RoundKeepsControl ==
    ASSUME NoneApart, MembershipAssumption, DropsWhile = "resting", TypeInv, Control,
           NEW c \in Coroutines, RoundMoves(c)
    PROVE  Control'
<1>1. \A d \in Coroutines \ {c} : co'[d] = co[d] /\ co[d].pc = "off"
    BY DEF RoundMoves, OthersKept, Control, Alone, On
<1>2. ~unready
    BY RoundIsReady
<1>3. ~unready' /\ closer' = closer
    BY <1>2 DEF RoundMoves
<1>4. IF co[c].loop THEN task = c ELSE task = None /\ closer \notin Coroutines
    BY DEF Control, RoundMoves
<1>5. /\ co'[c].pc # "off" /\ co'[c].loop => task' = c
      /\ co'[c].pc # "off" /\ ~co'[c].loop => task' = None /\ closer' \notin Coroutines
      /\ co'[c].pc = "wait" => co'[c].loop
      /\ closer' \in Coroutines => task' = closer'
    <2>1. closer \in Coroutines => task = closer
        BY DEF Control
    <2>2. QED
        BY <1>3, <1>4, <2>1 DEF RoundMoves
<1>6. \A d \in Coroutines \ {c} : co'[d].pc = "off"
    BY <1>1
<1>7. QED
    BY <1>3, <1>5, <1>6 DEF Control, Alone, On

LEMMA ControlStep ==
    ASSUME NoneApart, MembershipAssumption, DropsWhile = "resting", TypeInv, Control,
           [Next]_vars
    PROVE  Control'
<1>1. /\ task \in Coroutines \union {None} /\ None \notin Coroutines
      /\ {"open", "closed"} \intersect Coroutines = {}
    BY DEF TypeInv, TypeOK, MembershipAssumption, NoneApart
<1>2. CASE \E c \in Coroutines : Start(c)
    <2>1. PICK c \in Coroutines : Start(c)
        BY <1>2
    <2>2. task = None /\ \A d \in Coroutines : ~On(d)
        BY <2>1 DEF Start, Looping, Control
    <2>3. /\ \A d \in Coroutines \ {c} : co'[d].pc = "off"
          /\ co'[c].pc = "fetch" /\ ~co'[c].loop
        BY <2>1, <2>2, StartFacts DEF OthersKept, On, TypeInv
    <2>4. ~unready' /\ UNCHANGED <<task, closer>>
        BY <2>1 DEF Start
    <2>5. closer \notin Coroutines
        BY <1>1, <2>2 DEF Control
    <2>6. QED
        BY <2>2, <2>3, <2>4, <2>5 DEF Control, Alone, On
<1>3. CASE Restart
    <2>1. UNCHANGED <<co, task, closer>> /\ ~unready'
        BY <1>3 DEF Restart
    <2>2. QED
        BY <2>1 DEF Control, Alone, On
<1>4. CASE Stop
    <2>1. UNCHANGED <<co, task, unready>> /\ closer' = IF task = None THEN "closed" ELSE task
        BY <1>4 DEF Stop
    <2>2. QED
        BY <1>1, <2>1 DEF Control, Alone, On
<1>5. CASE StopReturns
    <2>1. /\ UNCHANGED <<co, unready>> /\ closer' = "closed" /\ task' = None
          /\ closer \in Coroutines /\ co[closer].pc = "off"
        BY <1>5 DEF StopReturns
    <2>2. task = closer
        BY <2>1 DEF Control
    <2>3. \A c \in Coroutines : ~On(c)
        BY <2>1, <2>2 DEF Control, On
    <2>4. ~On(task) /\ task # None
        BY <1>1, <2>1, <2>2, <2>3
    <2>5. QED
        BY <1>1, <2>1, <2>3 DEF Control, Alone, On
<1>6. CASE \E c \in Coroutines : Reconciles(c)
    BY <1>6, EveryRoundMoves, RoundKeepsControl
<1>7. CASE Reconnect
    <2>1. UNCHANGED <<co, task, closer>> /\ task # None /\ co[task].pc = "wait"
        BY <1>7 DEF Reconnect, Looping
    <2>2. QED
        BY <2>1 DEF Control, Alone, On
<1>8. CASE \/ \E e \in Ids, login \in Logins \union {None} : EngineChanges(e, login)
           \/ UNCHANGED vars
    <2>1. UNCHANGED <<co, task, closer, unready>>
        BY <1>8 DEF EngineChanges, life, vars
    <2>2. QED
        BY <2>1 DEF Control, Alone, On
<1>9. QED
    BY <1>2, <1>3, <1>4, <1>5, <1>6, <1>7, <1>8 DEF Next, EventReady

-----------------------------------------------------------------------------
(* The books                                                                   *)

\* A coroutine that applies nothing and says nothing has nothing to keep.
LEMMA Idles ==
    ASSUME NEW c \in Coroutines, co'[c].pc \in {"off", "fetch"}
    PROVE  Bookkeeping(co[c])'
  BY DEF Bookkeeping, Sources, Booked, Leaving, Settled, Working

\* When one coroutine moves, only what it does is to be looked at.
LEMMA OneMoves ==
    ASSUME Alone', NEW c \in Coroutines, On(c)', FirstAnswer', Bookkeeping(co[c])'
    PROVE  BooksInv'
<1>1. \A d \in Coroutines \ {c} : co'[d].pc = "off"
    BY DEF Alone, On
<1>2. QED
    BY <1>1, Idles DEF BooksInv

\* Bootstrap entries name the bootstrap channels.
LEMMA BootstrapNames ==
    ASSUME MembershipAssumption
    PROVE  BootstrapEntries \in Membership /\ Names(BootstrapEntries) = Bootstrap
<1>1. Bootstrap \subseteq Entries /\ None \notin Entries
    BY DEF MembershipAssumption, Entries
<1>2. BootstrapEntries \in Membership
    BY <1>1 DEF BootstrapEntries, Membership, Entries, MembershipAssumption
<1>3. QED
    BY <1>1, <1>2 DEF Names, BootstrapEntries

\* Before the engine's first answer a round applies the bootstrap channels.
LEMMA BeforeFirstAnswer ==
    ASSUME MembershipAssumption, NoneApart, TypeInv, BooksInv, NEW c \in Coroutines,
           co[c].pc \in Working, lastDesired = None
    PROVE  co[c].desired = BootstrapEntries /\ Names(co[c].desired) = Bootstrap
<1>1. co[c].source \in {"engine", "fallback"} /\ co[c].desired \in Membership
    BY PartTypes DEF TypeInv
<1>2. co[c].source # "engine"
    BY <1>1 DEF BooksInv, Bookkeeping, Sources, NoneApart
<1>3. QED
    BY <1>1, <1>2, BootstrapNames DEF BooksInv, Bookkeeping, Sources

LEMMA FetchBooks ==
    ASSUME MembershipAssumption, NoneApart, TypeInv, BooksInv, NEW c \in Coroutines,
           Fetches(c) \/ FallsBack(c)
    PROVE  FirstAnswer' /\ Bookkeeping(co[c])'
<1>1. TypeOK
    BY DEF TypeInv
<1>2. CASE Fetches(c)
    <2>1. co' = [co EXCEPT ![c] = Applying(c, engine, "engine")] /\ lastDesired' = engine
        BY <1>2 DEF Fetches
    <2>2. engine \in Membership
        BY <1>1 DEF TypeOK
    <2>3. /\ co'[c].pc = "items" /\ co'[c].source = "engine" /\ co'[c].desired = engine
          /\ co'[c].todo = Listed(engine)
        BY <1>1, <2>1, <2>2, FetchApplied
    <2>4. lastDesired' # None
        BY <2>1, <2>2 DEF NoneApart
    <2>5. QED
        BY <2>1, <2>3, <2>4
            DEF FirstAnswer, Bookkeeping, Sources, Booked, Placed, Leaving, Settled, Working
<1>3. CASE FallsBack(c)
    <2>1. /\ co' = [co EXCEPT ![c] = Applying(c, BootstrapEntries, "fallback")]
          /\ lastDesired = None /\ UNCHANGED <<lastDesired, joined, connected>>
        BY <1>3 DEF FallsBack, MayFallBack, memory, session
    <2>2. /\ co'[c].pc = "items" /\ co'[c].source = "fallback" /\ ~co'[c].ok
          /\ co'[c].desired = BootstrapEntries /\ co'[c].actual = connected
          /\ co'[c].todo = Listed(BootstrapEntries)
        BY <1>1, <2>1, BootstrapNames, Applied DEF AppliedTo
    <2>3. FirstAnswer' /\ connected \subseteq Bootstrap
        BY <2>1 DEF BooksInv, FirstAnswer
    <2>4. QED
        BY <2>1, <2>2, <2>3
            DEF Bookkeeping, Sources, Booked, Placed, Leaving, Settled, Working
<1>4. QED
    BY <1>2, <1>3

\* What a round came to is kept until it is asked for again.
LEMMA EndBooks ==
    ASSUME MembershipAssumption, TypeInv, BooksInv, NEW c \in Coroutines,
           FetchFails(c) \/ CommandRaises(c) \/ Returns(c)
    PROVE  FirstAnswer' /\ Bookkeeping(co[c])'
<1>1. UNCHANGED <<lastDesired, joined, connected>>
    BY DEF FetchFails, CommandRaises, Returns, memory, session
<1>2. FirstAnswer'
    BY <1>1 DEF BooksInv, FirstAnswer
<1>3. CASE FetchFails(c) \/ CommandRaises(c)
    <2>1. co'[c].pc = "report" /\ ~co'[c].ok
        BY <1>3, FailedFacts DEF TypeInv
    <2>2. QED
        BY <1>2, <2>1 DEF Bookkeeping, Sources, Booked, Leaving, Settled, Working
<1>4. CASE Returns(c)
    <2>1. co'[c].pc = "wait" /\ co'[c].ok = co[c].ok /\ co'[c].desired = co[c].desired
        BY <1>4, ReturnsFacts DEF TypeInv
    <2>2. co[c].pc = "report" /\ Settled(co[c])
        BY <1>4 DEF Returns, BooksInv, Bookkeeping
    <2>3. QED
        BY <1>1, <1>2, <2>1, <2>2 DEF Bookkeeping, Sources, Booked, Leaving, Settled, Working
<1>5. QED
    BY <1>3, <1>4

\* An entry is applied: booked at once, and joined unless the bot is in; a rejoin,
\* or the first join of an entry that nobody has, is booked when it returns.
Places(c, e) ==
    \/ Rejoins(c, e) \/ KeepsEntry(c, e) \/ NewEntry(c, e)
    \/ \E other \in Entries : AdoptsEntry(c, e, other)

EntryTaken(c, e) ==
    /\ co[c].pc = "items" /\ e \in co[c].todo /\ co[c].desired[e] \in Logins
    /\ UNCHANGED <<engine, lastDesired, flags, life, disturbed>>
    /\ co' \in [Coroutines -> Coroutine] /\ PlanKept(c)
    /\ co'[c].pc \in {"items", "join"}
    /\ co'[c].todo = co[c].todo \ {e} /\ co'[c].ok = co[c].ok

EntryLands(c, e) ==
    \/ /\ co'[c].pc = "items" /\ ~co[c].rejoin
       /\ co[c].desired[e] \in co[c].actual /\ UNCHANGED <<irc, connected>>
    \/ /\ co'[c].pc = "join" /\ co'[c].sent
       /\ irc' = irc \union {co[c].desired[e]}
       /\ connected' = connected \union {co[c].desired[e]}
    \/ co'[c].pc = "join" /\ ~co'[c].sent /\ UNCHANGED <<irc, connected>>

\* The entry has its login, and whoever else had it has lost it to the entry.
EntryBooked(c, e) ==
    \/ UNCHANGED joined /\ co'[c].pc = "join" /\ co'[c].books = {e}
    \/ /\ joined'[e] = co[c].desired[e]
       /\ co'[c].pc = "join" => co'[c].books = {}
       /\ \A f \in Entries \ {e} :
            \/ joined'[f] = joined[f]
            \/ joined[f] = co[c].desired[e] /\ joined'[f] = None

LEMMA ApplyFacts ==
    ASSUME TypeInv, NEW c \in Coroutines, NEW e \in Entries, Places(c, e)
    PROVE  EntryTaken(c, e) /\ EntryLands(c, e) /\ EntryBooked(c, e)
<1>1. TypeOK /\ joined \in [Entries -> Logins \union {None}]
    BY DEF TypeInv, TypeOK, Membership
<1>2. /\ co[c].pc = "items" /\ e \in co[c].todo
      /\ UNCHANGED <<engine, lastDesired, flags, life, disturbed>>
    BY DEF Places, Rejoins, KeepsEntry, NewEntry, AdoptsEntry, Applies
<1>3. co[c].desired[e] \in Logins
    BY <1>1, <1>2, PartTypes DEF TypeInv, Listed, Membership
<1>4. ASSUME AlreadyIn(c, e), ~co[c].rejoin, co[c].desired[e] \in co[c].actual
      PROVE  EntryTaken(c, e) /\ EntryLands(c, e) /\ co'[c].pc = "items"
    <2>1. /\ co' \in [Coroutines -> Coroutine] /\ PlanKept(c) /\ co'[c].pc = "items"
          /\ co'[c].todo = co[c].todo \ {e} /\ co'[c].ok = co[c].ok
          /\ UNCHANGED <<irc, connected>>
        BY <1>1, <1>2, <1>4, AlreadyInFacts
    <2>2. QED
        BY <1>2, <1>3, <1>4, <2>1 DEF EntryTaken, EntryLands
<1>5. ASSUME NEW books, books \subseteq Entries, Joins(c, e, books)
      PROVE  /\ EntryTaken(c, e) /\ EntryLands(c, e) /\ co'[c].pc = "join"
             /\ co'[c].books = books
    <2>1. /\ co' \in [Coroutines -> Coroutine] /\ PlanKept(c) /\ co'[c].pc = "join"
          /\ co'[c].todo = co[c].todo \ {e} /\ co'[c].ok = co[c].ok
          /\ co'[c].books = books
          /\ \/ /\ co'[c].sent /\ irc' = irc \union {co[c].desired[e]}
                /\ connected' = connected \union {co[c].desired[e]}
             \/ ~co'[c].sent /\ UNCHANGED <<irc, connected>>
        BY <1>1, <1>2, <1>5, JoinsFacts
    <2>2. QED
        BY <1>2, <1>3, <2>1 DEF EntryTaken, EntryLands
<1>6. CASE Rejoins(c, e)
    <2>1. Joins(c, e, {e}) /\ UNCHANGED joined
        BY <1>6 DEF Rejoins
    <2>2. QED
        BY <1>5, <2>1 DEF EntryBooked
<1>7. CASE NewEntry(c, e)
    <2>1. \/ Joins(c, e, {e}) /\ UNCHANGED joined
          \/ /\ AlreadyIn(c, e) /\ co[c].desired[e] \in co[c].actual /\ ~co[c].rejoin
             /\ joined' = [joined EXCEPT ![e] = co[c].desired[e]]
        BY <1>7 DEF NewEntry
    <2>2. CASE Joins(c, e, {e}) /\ UNCHANGED joined
        BY <1>5, <2>2 DEF EntryBooked
    <2>3. CASE /\ AlreadyIn(c, e) /\ co[c].desired[e] \in co[c].actual /\ ~co[c].rejoin
               /\ joined' = [joined EXCEPT ![e] = co[c].desired[e]]
        <3>1. /\ joined'[e] = co[c].desired[e]
              /\ \A f \in Entries \ {e} : joined'[f] = joined[f]
            BY <1>1, <2>3
        <3>2. QED
            BY <1>4, <2>3, <3>1 DEF EntryBooked
    <2>4. QED
        BY <2>1, <2>2, <2>3
<1>8. ASSUME KeepsEntry(c, e) \/ \E other \in Entries : AdoptsEntry(c, e, other)
      PROVE  /\ ~co[c].rejoin
             /\ \/ AlreadyIn(c, e) /\ co[c].desired[e] \in co[c].actual
                \/ Joins(c, e, {})
             /\ joined'[e] = co[c].desired[e]
             /\ \A f \in Entries \ {e} :
                  \/ joined'[f] = joined[f]
                  \/ joined[f] = co[c].desired[e] /\ joined'[f] = None
    <2>1. CASE KeepsEntry(c, e)
        BY <1>1, <2>1 DEF KeepsEntry, JoinsIfAbsent
    <2>2. ASSUME NEW other \in Entries, AdoptsEntry(c, e, other)
          PROVE  /\ ~co[c].rejoin
                 /\ \/ AlreadyIn(c, e) /\ co[c].desired[e] \in co[c].actual
                    \/ Joins(c, e, {})
                 /\ joined'[e] = co[c].desired[e]
                 /\ \A f \in Entries \ {e} :
                      \/ joined'[f] = joined[f]
                      \/ joined[f] = co[c].desired[e] /\ joined'[f] = None
        BY <1>1, <2>2 DEF AdoptsEntry, JoinsIfAbsent
    <2>3. QED
        BY <1>8, <2>1, <2>2
<1>9. CASE KeepsEntry(c, e) \/ \E other \in Entries : AdoptsEntry(c, e, other)
    <2>1. CASE AlreadyIn(c, e) /\ co[c].desired[e] \in co[c].actual
        BY <1>4, <1>8, <1>9, <2>1 DEF EntryBooked
    <2>2. CASE Joins(c, e, {})
        BY <1>5, <1>8, <1>9, <2>2 DEF EntryBooked
    <2>3. QED
        BY <1>8, <1>9, <2>1, <2>2
<1>10. QED
    BY <1>6, <1>7, <1>9 DEF Places

LEMMA ApplyBooks ==
    ASSUME MembershipAssumption, NoneApart, TypeInv, BooksInv, NEW c \in Coroutines,
           NEW e \in Entries, Places(c, e)
    PROVE  FirstAnswer' /\ Bookkeeping(co[c])'
<1> DEFINE D == co[c].desired
<1> DEFINE Now == joined'[e] = D[e] /\ (co'[c].pc = "join" => co'[c].books = {})
                  /\ \A f \in Entries \ {e} :
                       joined'[f] = joined[f] \/ (joined[f] = D[e] /\ joined'[f] = None)
           Later == UNCHANGED joined /\ co'[c].pc = "join" /\ co'[c].books = {e}
<1>1. /\ co[c].pc = "items" /\ e \in co[c].todo /\ D[e] \in Logins
      /\ UNCHANGED lastDesired
      /\ PlanKept(c) /\ co'[c].desired = D /\ co'[c].todo = co[c].todo \ {e}
      /\ co'[c].ok = co[c].ok /\ co'[c].pc \in {"items", "join"}
      /\ connected' \subseteq connected \union {D[e]}
      /\ Later \/ Now
    <2>1. EntryTaken(c, e) /\ EntryLands(c, e) /\ EntryBooked(c, e)
        BY ApplyFacts
    <2>2. connected' \subseteq connected \union {D[e]}
        BY <2>1 DEF EntryLands
    <2>3. Later \/ Now
        BY <2>1 DEF EntryBooked
    <2> HIDE DEF Later, Now
    <2>4. QED
        BY <2>1, <2>2, <2>3 DEF EntryTaken, PlanKept
<1>2. co[c].todo \subseteq Listed(D) /\ D \in Membership /\ None \notin Logins
    BY <1>1, PartTypes DEF TypeInv, MembershipAssumption
<1>3. FirstAnswer'
    <2>1. SUFFICES ASSUME lastDesired = None
                   PROVE  Names(joined)' \union connected' \subseteq Bootstrap
        BY <1>1 DEF FirstAnswer
    <2>2. Names(joined) \union connected \subseteq Bootstrap
        BY <2>1 DEF BooksInv, FirstAnswer
    <2>3. Names(D) = Bootstrap
        BY <1>1, <2>1, BeforeFirstAnswer DEF Working
    <2>4. D[e] \in Bootstrap
        BY <1>1, <1>2, <2>3 DEF Names
    <2>5. Names(joined)' \subseteq Bootstrap
        BY <1>1, <2>2, <2>4 DEF Names
    <2>6. QED
        BY <1>1, <2>2, <2>4, <2>5
<1>4. Sources(co[c])'
    <2>1. Sources(co[c])
        BY DEF BooksInv, Bookkeeping
    <2>2. QED
        BY <1>1, <2>1 DEF Sources, PlanKept, Working
<1>5. Booked(co[c])'
    <2> DEFINE P == Listed(D) \ co[c].todo
               Q == (Listed(D) \ (co[c].todo \ {e})) \ (IF co'[c].pc = "join" THEN co'[c].books ELSE {})
    <2>1. \A p \in P : \E f \in P : D[f] = D[p] /\ joined[f] = D[p]
        BY <1>1 DEF BooksInv, Bookkeeping, Booked, Placed
    <2>2. e \notin P /\ e \in Listed(D) /\ P \subseteq Entries
        BY <1>1, <1>2 DEF Listed
    <2>3. Placed(co[c])' = Q
        BY <1>1 DEF Placed
    <2>4. CASE Later
        <3>1. Q = P
            BY <2>2, <2>4
        <3>2. QED
            BY <1>1, <2>1, <2>2, <2>3, <2>4, <3>1 DEF Booked
    <2>5. CASE Now
        <3>1. Q = P \union {e}
            BY <2>2, <2>5
        <3>2. \A p \in Q : \E f \in Q : D[f] = D[p] /\ joined'[f] = D[p]
            <4>1. SUFFICES ASSUME NEW p \in P
                           PROVE  \E f \in Q : D[f] = D[p] /\ joined'[f] = D[p]
                BY <2>5, <3>1
            <4>2. PICK f \in P : D[f] = D[p] /\ joined[f] = D[p]
                BY <2>1
            <4>3. f # e /\ f \in Entries
                BY <2>2
            <4>4. CASE joined'[f] = joined[f]
                BY <3>1, <4>2, <4>4
            <4>5. CASE joined[f] = D[e]
                BY <2>5, <3>1, <4>2, <4>5
            <4>6. QED
                BY <2>5, <4>3, <4>4, <4>5
        <3>3. QED
            BY <1>1, <2>3, <2>5, <3>2 DEF Booked
    <2>6. QED
        BY <1>1, <2>4, <2>5
<1>6. QED
    BY <1>1, <1>3, <1>4, <1>5 DEF Bookkeeping, Leaving, Settled

\* An entry whose login has been joined is booked.
LEMMA JoinReturnsBooks ==
    ASSUME MembershipAssumption, NoneApart, TypeInv, BooksInv, NEW c \in Coroutines,
           JoinReturns(c)
    PROVE  FirstAnswer' /\ Bookkeeping(co[c])'
<1> DEFINE D == co[c].desired
           B == co[c].books
<1>1. /\ co[c].pc = "join" /\ UNCHANGED <<lastDesired, connected>>
      /\ joined' = [e \in Entries |-> IF e \in B THEN D[e] ELSE joined[e]]
      /\ co' = [co EXCEPT ![c].pc = "items"]
    BY DEF JoinReturns, session
<1>2. /\ PlanKept(c) /\ co'[c].pc = "items" /\ co'[c].todo = co[c].todo
      /\ co'[c].ok = co[c].ok
    BY <1>1, ContinuedFacts DEF TypeInv
<1>3. /\ co[c].todo \subseteq Listed(D) /\ B \subseteq Listed(D) \ co[c].todo
      /\ D \in Membership
    BY <1>1, PartTypes DEF TypeInv, BooksInv, Bookkeeping, Booked
<1>4. FirstAnswer'
    <2>1. SUFFICES ASSUME lastDesired = None
                   PROVE  Names(joined)' \union connected' \subseteq Bootstrap
        BY <1>1 DEF FirstAnswer
    <2>2. Names(joined) \union connected \subseteq Bootstrap
        BY <2>1 DEF BooksInv, FirstAnswer
    <2>3. Names(D) = Bootstrap
        BY <1>1, <2>1, BeforeFirstAnswer DEF Working
    <2>4. \A e \in B : D[e] \in Bootstrap
        BY <1>3, <2>3 DEF Names, Listed
    <2>5. Names(joined)' \subseteq Bootstrap
        BY <1>1, <2>2, <2>4 DEF Names
    <2>6. QED
        BY <1>1, <2>2, <2>5
<1>5. Sources(co[c])'
    <2>1. Sources(co[c])
        BY DEF BooksInv, Bookkeeping
    <2>2. QED
        BY <1>1, <1>2, <2>1 DEF Sources, PlanKept, Working
<1>6. Booked(co[c])'
    <2> DEFINE P == (Listed(D) \ co[c].todo) \ B
               Q == Listed(D) \ co[c].todo
    <2>1. \A p \in P : \E f \in P : D[f] = D[p] /\ joined[f] = D[p]
        BY <1>1 DEF BooksInv, Bookkeeping, Booked, Placed
    <2>2. \A p \in Q : \E f \in Q : D[f] = D[p] /\ joined'[f] = D[p]
        <3>1. Q = P \union B /\ Q \subseteq Entries
            BY <1>3 DEF Listed
        <3>2. \A p \in P : \E f \in Q : D[f] = D[p] /\ joined'[f] = D[p]
            BY <1>1, <2>1, <3>1
        <3>3. \A p \in B : D[p] = D[p] /\ joined'[p] = D[p]
            BY <1>1, <3>1
        <3>4. QED
            BY <3>1, <3>2, <3>3
    <2>3. Placed(co[c])' = Q
        BY <1>2 DEF Placed, PlanKept
    <2> HIDE DEF Q
    <2>4. QED
        BY <1>2, <2>2, <2>3 DEF Booked, PlanKept
<1>7. QED
    BY <1>2, <1>4, <1>5, <1>6 DEF Bookkeeping, Leaving, Settled

\* Everything is placed; what is left to leave holds the rest.
LEMMA StartsLeavingBooks ==
    ASSUME MembershipAssumption, NoneApart, TypeInv, BooksInv, NEW c \in Coroutines,
           StartsLeaving(c)
    PROVE  FirstAnswer' /\ Bookkeeping(co[c])'
<1> DEFINE D == co[c].desired
           S == StaleLogins(c)
<1>1. /\ co[c].pc = "items" /\ co[c].todo = {} /\ UNCHANGED <<lastDesired, joined, connected>>
    BY DEF StartsLeaving, memory, session
<1>2. PlanKept(c) /\ co'[c].pc = "leaving" /\ co'[c].todo = S /\ co'[c].ok = co[c].ok
    BY StartsLeavingFacts DEF TypeInv
<1>3. FirstAnswer'
    BY <1>1 DEF BooksInv, FirstAnswer
<1>4. Sources(co[c]) /\ Booked(co[c])
    BY DEF BooksInv, Bookkeeping
<1>5. Sources(co[c])'
    BY <1>1, <1>2, <1>4 DEF Sources, PlanKept, Working
<1>6. S = (Names(joined) \union co[c].actual) \ Names(D)
    BY DEF StaleLogins
<1>7. Names(D) \subseteq Names(joined)
    <2>1. \A e \in Listed(D) : \E f \in Listed(D) : joined[f] = D[e]
        BY <1>1, <1>4 DEF Booked, Placed
    <2>2. QED
        BY <2>1 DEF Names, Listed
<1>8. \A e \in Entries : joined[e] \in {None} \union Names(D) \union S
    BY <1>6 DEF Names
<1>9. co[c].source = "fallback" => S = {}
    <2>1. SUFFICES ASSUME co[c].source = "fallback" PROVE S = {}
        OBVIOUS
    <2>2. lastDesired = None /\ D = BootstrapEntries /\ co[c].actual \subseteq Bootstrap
        BY <1>1, <1>4, <2>1 DEF Sources, Working
    <2>3. Names(joined) \subseteq Bootstrap
        BY <2>2 DEF BooksInv, FirstAnswer
    <2>4. QED
        BY <1>6, <2>2, <2>3, BootstrapNames
<1> HIDE DEF S
<1>10. Leaving(co[c])'
    BY <1>1, <1>2, <1>6, <1>7, <1>8, <1>9 DEF Leaving, PlanKept
<1>11. QED
    BY <1>2, <1>3, <1>5, <1>10 DEF Bookkeeping, Booked, Settled

LEMMA LeavesBooks ==
    ASSUME MembershipAssumption, NoneApart, TypeInv, BooksInv, NEW c \in Coroutines,
           NEW login, Leaves(c, login)
    PROVE  FirstAnswer' /\ Bookkeeping(co[c])'
<1> DEFINE D == co[c].desired
<1>1. /\ co[c].pc = "leaving" /\ login \in co[c].todo /\ UNCHANGED <<lastDesired, joined>>
    BY DEF Leaves, memory
<1>2. /\ PlanKept(c) /\ co'[c].pc = "part" /\ co'[c].todo = co[c].todo \ {login}
      /\ co'[c].books = {e \in Entries : joined[e] = login} /\ co'[c].ok = co[c].ok
      /\ connected' \subseteq connected
    BY LeavesFacts DEF TypeInv
<1>3. FirstAnswer'
    BY <1>1, <1>2 DEF BooksInv, FirstAnswer
<1>4. Sources(co[c]) /\ Leaving(co[c])
    BY DEF BooksInv, Bookkeeping
<1>5. Sources(co[c])'
    BY <1>1, <1>2, <1>4 DEF Sources, PlanKept, Working
<1>6. /\ co[c].todo \intersect Names(D) = {} /\ Names(D) \subseteq Names(joined)
      /\ \A e \in Entries : joined[e] \in {None} \union Names(D) \union co[c].todo
      /\ co[c].source # "fallback"
    BY <1>1, <1>4 DEF Leaving
<1>7. Leaving(co[c])'
    BY <1>1, <1>2, <1>6 DEF Leaving, PlanKept
<1>8. QED
    BY <1>2, <1>3, <1>5, <1>7 DEF Bookkeeping, Booked, Settled

\* The entries of the login that was left are dropped.
LEMMA PartReturnsBooks ==
    ASSUME MembershipAssumption, NoneApart, TypeInv, BooksInv, NEW c \in Coroutines,
           PartReturns(c)
    PROVE  FirstAnswer' /\ Bookkeeping(co[c])'
<1> DEFINE D == co[c].desired
           B == co[c].books
<1>1. /\ co[c].pc = "part" /\ UNCHANGED <<lastDesired, connected>>
      /\ joined' = [e \in Entries |-> IF e \in B THEN None ELSE joined[e]]
      /\ co' = [co EXCEPT ![c].pc = "leaving"]
    BY DEF PartReturns, session
<1>2. /\ PlanKept(c) /\ co'[c].pc = "leaving" /\ co'[c].todo = co[c].todo
      /\ co'[c].ok = co[c].ok
    BY <1>1, ContinuedFacts DEF TypeInv
<1>3. FirstAnswer'
    <2>1. Names(joined)' \subseteq Names(joined)
        BY <1>1 DEF Names
    <2>2. QED
        BY <1>1, <2>1 DEF BooksInv, FirstAnswer
<1>4. Sources(co[c]) /\ Leaving(co[c])
    BY DEF BooksInv, Bookkeeping
<1>5. Sources(co[c])'
    BY <1>1, <1>2, <1>4 DEF Sources, PlanKept, Working
<1>6. /\ co[c].todo \intersect Names(D) = {} /\ Names(D) \subseteq Names(joined)
      /\ \A e \in Entries : joined[e] \in {None} \union Names(D) \union co[c].todo \/ e \in B
      /\ \A e \in B : joined[e] \notin Names(D)
      /\ co[c].source # "fallback"
    BY <1>1, <1>4 DEF Leaving
<1>7. Names(D) \subseteq Names(joined)'
    BY <1>1, <1>6 DEF Names
<1>8. \A e \in Entries : joined'[e] \in {None} \union Names(D) \union co[c].todo
    BY <1>1, <1>6
<1>9. Leaving(co[c])'
    BY <1>2, <1>6, <1>7, <1>8 DEF Leaving, PlanKept
<1>10. QED
    BY <1>2, <1>3, <1>5, <1>9 DEF Bookkeeping, Booked, Settled

\* Nothing is left to leave: the books name what was asked for.
LEMMA ReportsBooks ==
    ASSUME MembershipAssumption, NoneApart, TypeInv, BooksInv, NEW c \in Coroutines,
           Reports(c)
    PROVE  FirstAnswer' /\ Bookkeeping(co[c])'
<1> DEFINE D == co[c].desired
<1>1. /\ co[c].pc = "leaving" /\ UNCHANGED <<lastDesired, joined, connected>>
      /\ co[c].todo \intersect (Names(joined) \union co[c].actual) = {}
      /\ co' = [co EXCEPT ![c].pc = "report"]
    BY DEF Reports, memory, session
<1>2. PlanKept(c) /\ co'[c].pc = "report" /\ co'[c].ok = co[c].ok
    BY <1>1, ContinuedFacts DEF TypeInv
<1>3. FirstAnswer'
    BY <1>1 DEF BooksInv, FirstAnswer
<1>4. Sources(co[c]) /\ Leaving(co[c]) /\ co[c].source \in {"engine", "fallback"}
    BY PartTypes DEF BooksInv, Bookkeeping, TypeInv
<1>5. co[c].ok => lastDesired = D
    BY <1>1, <1>4 DEF Sources, Working
<1>6. Names(joined) = Names(D)
    BY <1>1, <1>4 DEF Leaving, Names
<1>7. QED
    BY <1>1, <1>2, <1>3, <1>5, <1>6
        DEF Bookkeeping, Sources, Booked, Leaving, Settled, PlanKept, Working

LEMMA InitBooks == ASSUME MembershipAssumption, Init PROVE BooksInv
<1>1. \A c \in Coroutines : co[c].pc = "off"
    BY DEF Init, NotRunning
<1>2. FirstAnswer
    BY BootstrapNames DEF Init, FirstAnswer, MembershipAssumption
<1>3. QED
    BY <1>1, <1>2
        DEF BooksInv, Bookkeeping, Sources, Booked, Leaving, Settled, Working

\* What the outside does leaves the books and the coroutines alone.
LEMMA OutsideBooks ==
    ASSUME BooksInv, UNCHANGED <<co, joined, lastDesired>>,
           connected' \subseteq connected \union Bootstrap
    PROVE  BooksInv'
<1>1. FirstAnswer'
    BY DEF BooksInv, FirstAnswer
<1>2. ASSUME NEW c \in Coroutines
      PROVE  Bookkeeping(co[c])'
    <2>1. Bookkeeping(co[c])
        BY DEF BooksInv
    <2>2. QED
        BY <2>1 DEF Bookkeeping, Sources, Booked, Placed, Leaving, Settled
<1>3. QED
    BY <1>1, <1>2 DEF BooksInv

\* A round that is under way does not end without its report.
LEMMA StaysOn ==
    ASSUME MembershipAssumption, TypeInv, NEW c \in Coroutines, Reconciles(c), ~Wakes(c)
    PROVE  On(c)'
<1>1. RoundMoves(c)
    BY EveryRoundMoves
<1>2. co[c].pc # "wait"
    BY DEF Reconciles, Fetches, FallsBack, FetchFails, CommandRaises, Returns, Rejoins,
           KeepsEntry, NewEntry, AdoptsEntry, Applies, JoinReturns, StartsLeaving,
           Leaves, PartReturns, Reports
<1>3. QED
    BY <1>1, <1>2 DEF RoundMoves, On

LEMMA RoundBooks ==
    ASSUME MembershipAssumption, NoneApart, TypeInv, Alone, Alone', BooksInv,
           NEW c \in Coroutines, Reconciles(c)
    PROVE  BooksInv'
<1>1. CASE Wakes(c)
    <2>1. OthersKept(c) /\ co'[c].pc \in {"off", "fetch"}
        BY <1>1, WakesFacts DEF TypeInv
    <2>2. \A d \in Coroutines : co'[d].pc \in {"off", "fetch"}
        BY <1>1, <2>1 DEF Alone, On, OthersKept, Wakes
    <2>3. UNCHANGED <<joined, lastDesired, connected>>
        BY <1>1 DEF Wakes, memory, session
    <2>4. FirstAnswer'
        BY <2>3 DEF BooksInv, FirstAnswer
    <2>5. QED
        BY <2>2, <2>4, Idles DEF BooksInv
<1>2. SUFFICES ASSUME ~Wakes(c)
               PROVE  FirstAnswer' /\ Bookkeeping(co[c])'
    BY <1>1, StaysOn, OneMoves
<1>3. CASE Fetches(c) \/ FallsBack(c)
    BY <1>3, FetchBooks
<1>4. CASE FetchFails(c) \/ CommandRaises(c) \/ Returns(c)
    BY <1>4, EndBooks
<1>5. CASE \E e \in Entries : Places(c, e)
    BY <1>5, ApplyBooks
<1>6. CASE \E login \in Logins : Leaves(c, login)
    BY <1>6, LeavesBooks
<1>7. CASE JoinReturns(c) \/ StartsLeaving(c) \/ PartReturns(c) \/ Reports(c)
    BY <1>7, JoinReturnsBooks, StartsLeavingBooks, PartReturnsBooks, ReportsBooks
<1>8. QED
    BY <1>2, <1>3, <1>4, <1>5, <1>6, <1>7 DEF Reconciles, Places

LEMMA BooksStep ==
    ASSUME MembershipAssumption, NoneApart, TypeInv, Alone, Alone', BooksInv, [Next]_vars
    PROVE  BooksInv'
<1>1. CASE \E c \in Coroutines : Start(c)
    <2>1. PICK c \in Coroutines : Start(c)
        BY <1>1
    <2>2. co'[c].pc = "fetch"
        BY <2>1, StartFacts DEF TypeInv
    <2>3. UNCHANGED <<joined, lastDesired, connected>>
        BY <2>1 DEF Start, memory, session
    <2>4. FirstAnswer'
        BY <2>3 DEF BooksInv, FirstAnswer
    <2>5. QED
        BY <2>2, <2>4, Idles, OneMoves DEF On
<1>2. CASE Restart \/ Stop \/ StopReturns \/ UNCHANGED vars
           \/ \E e \in Ids, login \in Logins \union {None} : EngineChanges(e, login)
    <2>1. UNCHANGED <<co, joined, lastDesired, connected>>
        BY <1>2 DEF Restart, Stop, StopReturns, EngineChanges, vars, memory, session
    <2>2. QED
        BY <2>1, OutsideBooks
<1>3. CASE Reconnect
    <2>1. UNCHANGED <<co, joined, lastDesired>>
          /\ connected' \subseteq connected \union Bootstrap
        BY <1>3 DEF Reconnect, memory, MembershipAssumption
    <2>2. QED
        BY <2>1, OutsideBooks
<1>4. CASE \E c \in Coroutines : Reconciles(c)
    BY <1>4, RoundBooks
<1>5. QED
    BY <1>1, <1>2, <1>3, <1>4 DEF Next, EventReady

LEMMA InitControl == ASSUME MembershipAssumption, NoneApart, Init PROVE Control
<1>1. \A c \in Coroutines : co[c].pc = "off"
    BY DEF Init, NotRunning
<1>2. QED
    BY <1>1 DEF Init, Control, Alone, On, NoneApart

-----------------------------------------------------------------------------
(* The session                                                                 *)

\* What the steps of a round are taken under.
SessionAssumed ==
    /\ MembershipAssumption /\ NoneApart /\ DropsWhile = "resting"
    /\ TypeInv /\ Control /\ BooksInv /\ SessionInv

InSessionAsAsked(c) == InSession(co[c]) /\ Arrived(co[c])

LEMMA SessionInit == ASSUME MembershipAssumption, Init PROVE SessionInv
<1>1. \A c \in Coroutines : co[c].pc = "off"
    BY DEF Init, NotRunning
<1>2. QED
    BY <1>1 DEF Init, SessionInv, SessionKnown, InSession, Arrived, Working

LEMMA IdlesInSession ==
    ASSUME NEW c \in Coroutines, co'[c].pc \in {"off", "fetch"}
    PROVE  InSessionAsAsked(c)'
  BY DEF InSessionAsAsked, InSession, Arrived, Working

LEMMA OneMovesInSession ==
    ASSUME Alone', NEW c \in Coroutines, On(c)', SessionKnown', InSessionAsAsked(c)'
    PROVE  SessionInv'
<1>1. \A d \in Coroutines \ {c} : co'[d].pc = "off"
    BY DEF Alone, On
<1>2. \A d \in Coroutines : InSessionAsAsked(d)'
    BY <1>1, IdlesInSession
<1>3. QED
    BY <1>2 DEF SessionInv, InSessionAsAsked

\* The flag and TwitchIO's report are read while no reconnect is unheard of: what
\* is reported is in the session, or everything is to be joined again.
LEMMA FetchesInSession ==
    ASSUME SessionAssumed, NEW c \in Coroutines, Fetches(c), ~unready
    PROVE  SessionKnown' /\ InSessionAsAsked(c)'
<1>1. /\ co' = [co EXCEPT ![c] = Applying(c, engine, "engine")] /\ engine \in Membership
      /\ UNCHANGED <<irc, connected, force, unready, task>>
    BY DEF Fetches, SessionAssumed, TypeInv, TypeOK, session, flags, life
<1>2. /\ co'[c].pc = "items" /\ co'[c].source = "engine" /\ co'[c].desired = engine
      /\ co'[c].todo = Listed(engine) /\ co'[c].actual = connected
      /\ (co'[c].rejoin <=> force) /\ co'[c].rejoin \in BOOLEAN
    <2>1. /\ co' \in [Coroutines -> Coroutine]
          /\ co'[c].pc = "items" /\ co'[c].source = "engine" /\ co'[c].desired = engine
          /\ co'[c].todo = Listed(engine) /\ co'[c].actual = connected
          /\ (co'[c].rejoin <=> force)
        BY <1>1, FetchApplied DEF SessionAssumed, TypeInv
    <2>2. QED
        BY <2>1 DEF Coroutine
<1>3. SessionKnown' /\ force \in BOOLEAN /\ (force \/ irc = connected)
    BY <1>1 DEF SessionAssumed, SessionInv, SessionKnown, TypeInv, TypeOK
<1>4. InSession(co[c])'
    BY <1>1, <1>2, <1>3 DEF InSession
<1>5. QED
    BY <1>2, <1>3, <1>4 DEF InSessionAsAsked, Arrived

\* A fallback applies no answer of the engine.
LEMMA FallsBackInSession ==
    ASSUME SessionAssumed, NEW c \in Coroutines, FallsBack(c)
    PROVE  SessionKnown' /\ InSessionAsAsked(c)'
<1>1. /\ co' = [co EXCEPT ![c] = Applying(c, BootstrapEntries, "fallback")]
      /\ UNCHANGED <<irc, connected, force, unready, task>>
    BY DEF FallsBack, session, flags, life
<1>2. co'[c].pc = "items" /\ co'[c].source = "fallback"
    BY <1>1, BootstrapNames, Applied DEF AppliedTo, SessionAssumed, TypeInv
<1>3. QED
    BY <1>1, <1>2
        DEF SessionAssumed, SessionInv, SessionKnown, InSessionAsAsked, InSession, Arrived

\* A reconciliation that succeeded clears the flag: the session is as reported.
LEMMA EndsInSession ==
    ASSUME SessionAssumed, NEW c \in Coroutines,
           FetchFails(c) \/ CommandRaises(c) \/ Returns(c), ~unready
    PROVE  SessionKnown' /\ InSessionAsAsked(c)'
<1>1. UNCHANGED <<irc, connected, unready>>
    BY DEF FetchFails, CommandRaises, Returns, session, life
<1>2. SessionKnown /\ Arrived(co[c]) /\ TypeOK
    BY DEF SessionAssumed, SessionInv, TypeInv
<1>3. CASE FetchFails(c) \/ CommandRaises(c)
    <2>1. co'[c].pc = "report" /\ ~co'[c].ok
        BY <1>2, <1>3, FailedFacts
    <2>2. UNCHANGED <<force, task>>
        BY <1>3 DEF FetchFails, CommandRaises, flags, life
    <2>3. QED
        BY <1>1, <1>2, <2>1, <2>2
            DEF SessionKnown, InSessionAsAsked, InSession, Arrived, Working
<1>4. CASE Returns(c)
    <2>1. co'[c].pc = "wait" /\ co'[c].ok = co[c].ok /\ co'[c].desired = co[c].desired
        BY <1>2, <1>4, ReturnsFacts
    <2>2. co[c].pc = "report" /\ force' = (force /\ ~co[c].ok)
        BY <1>4 DEF Returns, ForceAfter
    <2>3. co[c].ok => irc = Names(co[c].desired) /\ connected = irc
        BY <1>2, <2>2 DEF Arrived
    <2>4. SessionKnown'
        BY <1>1, <1>2, <2>2, <2>3 DEF SessionKnown
    <2>5. QED
        BY <1>1, <2>1, <2>3, <2>4 DEF InSessionAsAsked, InSession, Arrived, Working
<1>5. QED
    BY <1>3, <1>4

LEMMA PlacesInSession ==
    ASSUME SessionAssumed, NEW c \in Coroutines, NEW e \in Entries, Places(c, e)
    PROVE  SessionKnown' /\ InSessionAsAsked(c)'
<1> DEFINE D == co[c].desired
<1>1. EntryTaken(c, e) /\ EntryLands(c, e)
    BY ApplyFacts DEF SessionAssumed
<1>2. /\ co[c].pc = "items" /\ e \in co[c].todo /\ D[e] \in Names(D)
      /\ co'[c].desired = D /\ co'[c].todo = co[c].todo \ {e}
      /\ co'[c].source = co[c].source /\ co'[c].rejoin = co[c].rejoin
      /\ co'[c].actual = co[c].actual
      /\ co'[c].pc \in {"items", "join"} /\ UNCHANGED <<force, unready, task>>
    <2>1. None \notin Logins
        BY DEF SessionAssumed, MembershipAssumption
    <2>2. QED
        BY <1>1, <2>1 DEF EntryTaken, PlanKept, flags, life, Names
<1>3. SessionKnown /\ InSession(co[c])
    BY DEF SessionAssumed, SessionInv
<1>4. \/ /\ co'[c].pc = "items" /\ ~co[c].rejoin
         /\ D[e] \in co[c].actual /\ UNCHANGED <<irc, connected>>
      \/ /\ co'[c].pc = "join" /\ co'[c].sent
         /\ irc' = irc \union {D[e]} /\ connected' = connected \union {D[e]}
      \/ co'[c].pc = "join" /\ ~co'[c].sent /\ UNCHANGED <<irc, connected>>
    BY <1>1 DEF EntryLands
<1>5. SessionKnown'
    BY <1>2, <1>3, <1>4 DEF SessionKnown
<1>6. InSession(co[c])'
    <2>1. SUFFICES ASSUME co[c].source = "engine"
                   PROVE  InSession(co[c])'
        BY <1>2 DEF InSession
    <2>2. /\ co[c].rejoin = force
          /\ connected \subseteq co[c].actual \union Names(D)
          /\ ~co[c].rejoin => co[c].actual \subseteq irc
          /\ \A f \in Listed(D) \ co[c].todo : D[f] \in irc
        BY <1>2, <1>3, <2>1 DEF InSession, Working
    <2>3. connected' \subseteq co[c].actual \union Names(D) /\ irc \subseteq irc'
        BY <1>2, <1>4, <2>2
    <2>4. co'[c].pc = "items" \/ co'[c].sent =>
             \A f \in Listed(D) \ (co[c].todo \ {e}) : D[f] \in irc'
        BY <1>4, <2>2, <2>3
    <2>5. QED
        BY <1>2, <2>2, <2>3, <2>4 DEF InSession
<1>7. QED
    BY <1>2, <1>5, <1>6 DEF InSessionAsAsked, Arrived

\* A command has returned: what it did to the session is known.
LEMMA CommandReturnsInSession ==
    ASSUME SessionAssumed, NEW c \in Coroutines, JoinReturns(c) \/ PartReturns(c)
    PROVE  SessionKnown' /\ InSessionAsAsked(c)'
<1>1. /\ UNCHANGED <<irc, connected, force, unready, task>> /\ co[c].sent
      /\ \/ co[c].pc = "join" /\ co' = [co EXCEPT ![c].pc = "items"]
         \/ co[c].pc = "part" /\ co' = [co EXCEPT ![c].pc = "leaving"]
    BY DEF JoinReturns, PartReturns, session, flags, life
<1>2. /\ PlanKept(c) /\ co'[c].todo = co[c].todo
      /\ \/ co[c].pc = "join" /\ co'[c].pc = "items"
         \/ co[c].pc = "part" /\ co'[c].pc = "leaving"
    BY <1>1, ContinuedFacts DEF SessionAssumed, TypeInv
<1>3. SessionKnown /\ InSession(co[c])
    BY DEF SessionAssumed, SessionInv
<1>4. SessionKnown'
    BY <1>1, <1>3 DEF SessionKnown
<1>5. InSession(co[c])'
    BY <1>1, <1>2, <1>3 DEF InSession, PlanKept, Working
<1>6. QED
    BY <1>2, <1>4, <1>5 DEF InSessionAsAsked, Arrived

LEMMA StartsLeavingInSession ==
    ASSUME SessionAssumed, NEW c \in Coroutines, StartsLeaving(c)
    PROVE  SessionKnown' /\ InSessionAsAsked(c)'
<1> DEFINE D == co[c].desired
<1>1. /\ UNCHANGED <<irc, connected, force, unready, task>>
      /\ co[c].pc = "items" /\ co[c].todo = {}
    BY DEF StartsLeaving, session, flags, life
<1>2. /\ PlanKept(c) /\ co'[c].pc = "leaving"
      /\ co'[c].todo = (Names(joined) \union co[c].actual) \ Names(D)
    BY StartsLeavingFacts DEF SessionAssumed, TypeInv, StaleLogins
<1>3. SessionKnown /\ InSession(co[c])
    BY DEF SessionAssumed, SessionInv
<1>4. SessionKnown'
    BY <1>1, <1>3 DEF SessionKnown
<1>5. InSession(co[c])'
    <2>1. SUFFICES ASSUME co[c].source = "engine"
                   PROVE  InSession(co[c])'
        BY <1>2 DEF InSession, PlanKept
    <2>2. /\ co[c].rejoin = force
          /\ connected \subseteq co[c].actual \union Names(D)
          /\ \A f \in Listed(D) : D[f] \in irc
        BY <1>1, <1>3, <2>1 DEF InSession, Working
    <2>3. Names(D) \subseteq irc
        BY <2>2 DEF Names, Listed
    <2>4. QED
        BY <1>1, <1>2, <2>2, <2>3 DEF InSession, PlanKept
<1>6. QED
    BY <1>2, <1>4, <1>5 DEF InSessionAsAsked, Arrived

LEMMA LeavesInSession ==
    ASSUME SessionAssumed, NEW c \in Coroutines, NEW login, Leaves(c, login)
    PROVE  SessionKnown' /\ InSessionAsAsked(c)'
<1> DEFINE D == co[c].desired
<1>1. /\ UNCHANGED <<force, unready, task>>
      /\ co[c].pc = "leaving" /\ login \in co[c].todo
    BY DEF Leaves, flags, life
<1>2. /\ PlanKept(c) /\ co'[c].pc = "part" /\ co'[c].todo = co[c].todo \ {login}
      /\ \/ /\ irc' = irc \ {login} /\ connected' = connected \ {login}
         \/ ~co'[c].sent /\ UNCHANGED <<irc, connected>>
    BY LeavesFacts DEF SessionAssumed, TypeInv
<1>3. SessionKnown /\ InSession(co[c]) /\ co[c].todo \intersect Names(D) = {}
    BY <1>1 DEF SessionAssumed, SessionInv, BooksInv, Bookkeeping, Leaving
<1>4. SessionKnown'
    BY <1>1, <1>2, <1>3 DEF SessionKnown
<1>5. InSession(co[c])'
    <2>1. SUFFICES ASSUME co[c].source = "engine"
                   PROVE  InSession(co[c])'
        BY <1>2 DEF InSession, PlanKept
    <2>2. /\ co[c].rejoin = force
          /\ connected \subseteq co[c].actual \union Names(D)
          /\ Names(D) \subseteq irc /\ connected \subseteq Names(D) \union co[c].todo
        BY <1>1, <1>3, <2>1 DEF InSession, Working
    <2>3. QED
        BY <1>1, <1>2, <1>3, <2>2 DEF InSession, PlanKept
<1>6. QED
    BY <1>2, <1>4, <1>5 DEF InSessionAsAsked, Arrived

\* Nothing is left to leave: the bot is where the engine asked it to be.
LEMMA ReportsInSession ==
    ASSUME SessionAssumed, NEW c \in Coroutines, Reports(c)
    PROVE  SessionKnown' /\ InSessionAsAsked(c)'
<1> DEFINE D == co[c].desired
<1>1. /\ UNCHANGED <<irc, connected, force, unready, task>>
      /\ co[c].pc = "leaving" /\ co[c].todo \intersect co[c].actual = {}
      /\ co' = [co EXCEPT ![c].pc = "report"]
    BY DEF Reports, session, flags, life
<1>2. PlanKept(c) /\ co'[c].pc = "report" /\ co'[c].ok = co[c].ok
    BY <1>1, ContinuedFacts DEF SessionAssumed, TypeInv
<1>3. SessionKnown /\ InSession(co[c]) /\ Sources(co[c])
    BY DEF SessionAssumed, SessionInv, BooksInv, Bookkeeping
<1>4. SessionKnown'
    BY <1>1, <1>3 DEF SessionKnown
<1>5. co[c].ok => irc = Names(D) /\ connected = irc
    <2>1. SUFFICES ASSUME co[c].ok PROVE irc = Names(D) /\ connected = irc
        OBVIOUS
    <2>2. co[c].source = "engine"
        BY <1>1, <1>3, <2>1, PartTypes DEF Sources, Working, SessionAssumed, TypeInv
    <2>3. /\ connected \subseteq co[c].actual \union Names(D)
          /\ Names(D) \subseteq irc /\ connected \subseteq Names(D) \union co[c].todo
        BY <1>1, <1>3, <2>2 DEF InSession, Working
    <2>4. QED
        BY <1>1, <1>3, <2>3 DEF SessionKnown
<1>6. QED
    BY <1>1, <1>2, <1>4, <1>5 DEF InSessionAsAsked, InSession, Arrived, PlanKept, Working

LEMMA RoundInSession ==
    ASSUME SessionAssumed, Alone', NEW c \in Coroutines, Reconciles(c)
    PROVE  SessionInv'
<1>1. ~unready
    BY EveryRoundMoves, RoundIsReady DEF SessionAssumed
<1>2. CASE Wakes(c)
    <2>1. OthersKept(c) /\ co'[c].pc \in {"off", "fetch"}
        BY <1>2, WakesFacts DEF SessionAssumed, TypeInv
    <2>2. \A d \in Coroutines : co'[d].pc \in {"off", "fetch"}
        BY <1>2, <2>1 DEF SessionAssumed, Control, Alone, On, OthersKept, Wakes
    <2>3. UNCHANGED <<irc, connected, force, unready, task>>
        BY <1>2 DEF Wakes, session, life
    <2>4. SessionKnown'
        BY <2>3 DEF SessionAssumed, SessionInv, SessionKnown
    <2>5. QED
        BY <2>2, <2>4, IdlesInSession DEF SessionInv, InSessionAsAsked
<1>3. SUFFICES ASSUME ~Wakes(c)
               PROVE  SessionKnown' /\ InSessionAsAsked(c)'
    BY <1>2, StaysOn, OneMovesInSession DEF SessionAssumed
<1>4. CASE Fetches(c) \/ FallsBack(c)
    BY <1>1, <1>4, FetchesInSession, FallsBackInSession
<1>5. CASE FetchFails(c) \/ CommandRaises(c) \/ Returns(c)
    BY <1>1, <1>5, EndsInSession
<1>6. CASE \E e \in Entries : Places(c, e)
    BY <1>6, PlacesInSession
<1>7. CASE \E login \in Logins : Leaves(c, login)
    BY <1>7, LeavesInSession
<1>8. CASE JoinReturns(c) \/ StartsLeaving(c) \/ PartReturns(c) \/ Reports(c)
    BY <1>8, CommandReturnsInSession, StartsLeavingInSession, ReportsInSession
<1>9. QED
    BY <1>3, <1>4, <1>5, <1>6, <1>7, <1>8 DEF Reconciles, Places

\* Nobody works on a session while a reconnect is unheard of, or while the
\* connection drops.
LEMMA ReadyOrAtRest ==
    ASSUME MembershipAssumption, TypeInv, Control, unready \/ Reconnect,
           DropsWhile = "resting"
    PROVE  \A c \in Coroutines : co[c].pc \in {"off", "wait"}
<1>1. None \notin Coroutines /\ task \in Coroutines \union {None}
    BY DEF MembershipAssumption, TypeInv, TypeOK
<1>2. \/ \A c \in Coroutines : ~On(c)
      \/ task # None /\ co[task].pc = "wait"
    BY DEF Control, Reconnect, Looping
<1>3. QED
    BY <1>1, <1>2 DEF Control, Alone, On

LEMMA SessionStep ==
    ASSUME SessionAssumed, Alone', [Next]_vars
    PROVE  SessionInv'
<1>1. \A c \in Coroutines : InSession(co[c]) /\ Arrived(co[c])
    BY DEF SessionAssumed, SessionInv
<1>2. CASE \E c \in Coroutines : Start(c)
    <2>1. PICK c \in Coroutines : Start(c)
        BY <1>2
    <2>2. co'[c].pc = "fetch"
        BY <2>1, StartFacts DEF SessionAssumed, TypeInv
    <2>3. UNCHANGED <<irc, connected, force, task>> /\ unready
        BY <2>1 DEF Start, session
    <2>4. task = None
        BY <2>1, <2>3 DEF Start, Looping, SessionAssumed, Control
    <2>5. SessionKnown'
        BY <2>3, <2>4 DEF SessionAssumed, SessionInv, SessionKnown
    <2>6. QED
        BY <2>2, <2>5, IdlesInSession, OneMovesInSession DEF On
<1>3. CASE Restart
    <2>1. UNCHANGED <<co, irc, connected>> /\ force' /\ disturbed' /\ unready
        BY <1>3 DEF Restart, session
    <2>2. \A c \in Coroutines : co[c].pc \in {"off", "wait"}
        BY <2>1, ReadyOrAtRest DEF SessionAssumed
    <2>3. SessionKnown'
        BY <2>1 DEF SessionAssumed, SessionInv, SessionKnown
    <2>4. ASSUME NEW c \in Coroutines PROVE InSession(co[c])' /\ Arrived(co[c])'
        BY <2>1, <2>2 DEF InSession, Arrived, Working
    <2>5. QED
        BY <2>3, <2>4 DEF SessionInv
<1>4. CASE Reconnect
    <2>1. /\ UNCHANGED <<co, task>> /\ unready' /\ disturbed' /\ task # None
          /\ irc' \subseteq connected'
        BY <1>4 DEF Reconnect, Looping, SessionAssumed
    <2>2. \A c \in Coroutines : co[c].pc \in {"off", "wait"}
        BY <1>4, ReadyOrAtRest DEF SessionAssumed
    <2>3. SessionKnown'
        BY <2>1 DEF SessionKnown
    <2>4. ASSUME NEW c \in Coroutines PROVE InSession(co[c])' /\ Arrived(co[c])'
        BY <2>1, <2>2 DEF InSession, Arrived, Working
    <2>5. QED
        BY <2>3, <2>4 DEF SessionInv
<1>5. CASE StopReturns
    <2>1. UNCHANGED <<co, irc, connected, force, unready, disturbed>>
          /\ closer \in Coroutines /\ co[closer].pc = "off"
        BY <1>5 DEF StopReturns, session, flags
    <2>2. ~unready \/ task = None
        BY <2>1 DEF SessionAssumed, Control
    <2>3. SessionKnown'
        BY <2>1, <2>2 DEF SessionAssumed, SessionInv, SessionKnown
    <2>4. ASSUME NEW c \in Coroutines PROVE InSession(co[c])' /\ Arrived(co[c])'
        BY <1>1, <2>1 DEF InSession, Arrived
    <2>5. QED
        BY <2>3, <2>4 DEF SessionInv
<1>6. CASE Stop \/ UNCHANGED vars
           \/ \E e \in Ids, login \in Logins \union {None} : EngineChanges(e, login)
    <2>1. UNCHANGED <<co, irc, connected, force, unready, task, disturbed>>
        BY <1>6 DEF Stop, EngineChanges, vars, session, flags, life
    <2>2. SessionKnown'
        BY <2>1 DEF SessionAssumed, SessionInv, SessionKnown
    <2>3. ASSUME NEW c \in Coroutines PROVE InSession(co[c])' /\ Arrived(co[c])'
        BY <1>1, <2>1 DEF InSession, Arrived
    <2>4. QED
        BY <2>2, <2>3 DEF SessionInv
<1>7. CASE \E c \in Coroutines : Reconciles(c)
    BY <1>7, RoundInSession
<1>8. QED
    BY <1>2, <1>3, <1>4, <1>5, <1>6, <1>7 DEF Next, EventReady

-----------------------------------------------------------------------------
(* Theorems                                                                    *)

\* The bot's books, flags and counters keep their types, whatever the channels,
\* the reconnects and the failures.
THEOREM MembershipTypeCorrect == ASSUME MembershipAssumption PROVE Spec => []TypeOK
<1>1. Init => TypeInv
    BY InitTypes
<1>2. TypeInv /\ [Next]_vars => TypeInv'
    BY TypeStep
<1>3. TypeInv => TypeOK
    BY DEF TypeInv
<1>4. QED
    BY <1>1, <1>2, <1>3, PTL DEF Spec

\* While one round runs at a time: the types, the order of the rounds, the books.
OneRoundInv ==
    /\ TypeInv /\ Alone /\ BooksInv
    /\ DropsWhile = "resting" => Control

LEMMA OneRound ==
    ASSUME MembershipAssumption, NoneApart, Serial
    PROVE  Spec => []OneRoundInv
<1>1. ASSUME Init PROVE OneRoundInv
    BY <1>1, InitTypes, InitControl, InitBooks DEF OneRoundInv, Control
<1>2. ASSUME OneRoundInv, [Next]_vars PROVE OneRoundInv'
    <2>1. TypeInv'
        BY <1>2, TypeStep DEF OneRoundInv
    <2>2. DropsWhile = "resting" => Control'
        BY <1>2, ControlStep DEF OneRoundInv
    <2>3. Alone'
        BY <2>2 DEF Control, Alone, Serial
    <2>4. BooksInv'
        BY <1>2, <2>3, BooksStep DEF OneRoundInv
    <2>5. QED
        BY <2>1, <2>2, <2>3, <2>4 DEF OneRoundInv
<1>3. QED
    BY <1>1, <1>2, PTL DEF Spec

\* The books of a successful reconciliation name exactly the channels the engine
\* answered with (_joined, _apply): an identity that is renamed, that takes over a
\* bootstrap entry or that swaps its login with another loses no login and leaves
\* none behind.  One round at a time is needed: two activations of start() book
\* over each other.
THEOREM BooksMatch ==
    ASSUME MembershipAssumption, NoneApart, Serial
    PROVE  Spec => []BooksMatchAnswer
<1>1. ASSUME OneRoundInv PROVE BooksMatchAnswer
    <2>1. SUFFICES ASSUME AtRest, Succeeded
                   PROVE  Names(joined) = Names(lastDesired)
        BY DEF BooksMatchAnswer
    <2>2. task \in Coroutines /\ co[task].pc = "wait" /\ co[task].ok
        BY <1>1, <2>1 DEF AtRest, Succeeded, Looping, OneRoundInv, TypeInv, TypeOK
    <2>3. Settled(co[task])
        BY <1>1, <2>2 DEF OneRoundInv, BooksInv, Bookkeeping
    <2>4. QED
        BY <2>2, <2>3 DEF Settled
<1>2. QED
    BY <1>1, OneRound, PTL

\* An engine that does not answer never makes the bot leave a channel
\* (reconcile_once): before its first answer there is nothing in the books but
\* bootstrap channels, and after it there is no fallback.
THEOREM EngineFailuresPartNobody ==
    ASSUME MembershipAssumption, NoneApart, Serial
    PROVE  Spec => []EngineFailureNeverParts
<1>1. ASSUME OneRoundInv PROVE EngineFailureNeverParts
    <2>1. SUFFICES ASSUME NEW c \in Coroutines, co[c].pc = "part"
                   PROVE  co[c].source = "engine"
        BY DEF EngineFailureNeverParts
    <2>2. co[c].source \in {"engine", "fallback"}
        BY <1>1, PartTypes DEF OneRoundInv, TypeInv
    <2>3. QED
        BY <1>1, <2>1, <2>2 DEF OneRoundInv, BooksInv, Bookkeeping, Leaving
<1>2. QED
    BY <1>1, OneRound, PTL

\* After a successful reconciliation the IRC session is in exactly the channels the
\* engine answered with, also after a reconnect that TwitchIO's own report hides
\* (start, _apply, _force_rejoin).  The connection is taken to drop only while the
\* loop waits: a drop in the middle of a round is joined over, and forgotten.
THEOREM ReconciledChannelsAreJoined ==
    ASSUME MembershipAssumption, NoneApart, DropsWhile = "resting"
    PROVE  Spec => []ReconciledIsJoined
<1>1. Spec => []OneRoundInv
    BY OneRound DEF Serial
<1>2. Init => SessionInv
    BY SessionInit
<1>3. ASSUME OneRoundInv, OneRoundInv', SessionInv, [Next]_vars PROVE SessionInv'
    BY <1>3, SessionStep DEF OneRoundInv, SessionAssumed
<1>4. ASSUME OneRoundInv, SessionInv PROVE ReconciledIsJoined
    <2>1. SUFFICES ASSUME AtRest, Succeeded, ~disturbed
                   PROVE  irc = Names(lastDesired)
        BY DEF ReconciledIsJoined
    <2>2. task \in Coroutines /\ co[task].pc = "wait" /\ co[task].ok
        BY <1>4, <2>1 DEF AtRest, Succeeded, Looping, OneRoundInv, TypeInv, TypeOK
    <2>3. Settled(co[task]) /\ Arrived(co[task])
        BY <1>4, <2>2 DEF OneRoundInv, BooksInv, Bookkeeping, SessionInv
    <2>4. QED
        BY <2>1, <2>2, <2>3 DEF Settled, Arrived
<1>5. QED
    BY <1>1, <1>2, <1>3, <1>4, PTL DEF Spec

-----------------------------------------------------------------------------
(* The bot's other half, a viewer's !fish.  Its parameters and variables are   *)
(* ChatActions', but for the handler of a message, which is its command here.  *)

CONSTANTS Messages, Users, Mods, Rewards, MostExtra

VARIABLES by, command, call, cooling, casts, ops, bans, announced, said

Chat == INSTANCE ChatActions WITH task <- command

\* The instance counts with its own copy of Cardinality.
LEMMA SameCount ==
    ASSUME NEW S
    PROVE  Chat!Cardinality(S) = Cardinality(S)
  BY DEF Chat!Cardinality, Cardinality

TimesOut == {"timeout", "roulette", "robbery"}
ActionRecord == [type : {"say", "points", "timeout", "dupe"}, amount : Int]

\* What the presenter answers to a reward: some action, at most one of them more
\* than a message, and that one of the reward's own kind and amount.
IsAnswer(acts, r) ==
    /\ acts \in Seq(ActionRecord) /\ Len(acts) # 0
    /\ \A k \in 1 .. Len(acts) :
          /\ acts[k].type = "points" => r.type = "points" /\ acts[k].amount = r.amount
          /\ acts[k].type = "dupe" => r.type = "dupe" /\ acts[k].amount = r.amount
          /\ acts[k].type = "timeout" => r.type \in TimesOut
    /\ \A k, l \in 1 .. Len(acts) : acts[k].type # "say" /\ acts[l].type # "say" => k = l

\* A reward's messages around an action of its kind.
LEMMA Shapes ==
    ASSUME NEW r, r.amount \in Int, NEW type \in {"say", "points", "timeout", "dupe"},
           type = "points" => r.type = "points", type = "dupe" => r.type = "dupe",
           type = "timeout" => r.type \in TimesOut
    PROVE  /\ IsAnswer(<<Chat!Act(type, r)>>, r)
           /\ IsAnswer(<<Chat!Basic(r), Chat!Act(type, r)>>, r)
           /\ IsAnswer(<<Chat!Basic(r), Chat!Basic(r), Chat!Act(type, r)>>, r)
<1> DEFINE a == Chat!Basic(r)
           b == Chat!Act(type, r)
<1>1. a \in ActionRecord /\ a.type = "say" /\ a.amount = r.amount
    BY DEF Chat!Basic, Chat!Act, ActionRecord
<1>2. b \in ActionRecord /\ b.type = type /\ b.amount = r.amount
    BY DEF Chat!Act, ActionRecord
<1> HIDE DEF a, b
<1>3. IsAnswer(<<b>>, r)
    BY <1>2 DEF IsAnswer
<1>4. IsAnswer(<<a, b>>, r)
    BY <1>1, <1>2 DEF IsAnswer
<1>5. IsAnswer(<<a, a, b>>, r)
    <2> DEFINE s == <<a, a, b>>
    <2>1. s \in Seq(ActionRecord) /\ Len(s) = 3
        BY <1>1, <1>2
    <2>2. s[1] = a /\ s[2] = a /\ s[3] = b
        OBVIOUS
    <2> HIDE DEF s
    <2>3. \A k \in 1 .. Len(s) : k = 1 \/ k = 2 \/ k = 3
        BY <2>1
    <2>4. \A k \in 1 .. Len(s) : s[k].type # "say" => k = 3
        BY <1>1, <2>2, <2>3
    <2>5. \A k \in 1 .. Len(s) : s[k] = a \/ s[k] = b
        BY <2>2, <2>3
    <2>6. \A k \in 1 .. Len(s) :
              /\ s[k].type = "points" => r.type = "points" /\ s[k].amount = r.amount
              /\ s[k].type = "dupe" => r.type = "dupe" /\ s[k].amount = r.amount
              /\ s[k].type = "timeout" => r.type \in TimesOut
        <3> SUFFICES ASSUME NEW k \in 1 .. Len(s)
                     PROVE  /\ s[k].type = "points" => r.type = "points" /\ s[k].amount = r.amount
                            /\ s[k].type = "dupe" => r.type = "dupe" /\ s[k].amount = r.amount
                            /\ s[k].type = "timeout" => r.type \in TimesOut
            OBVIOUS
        <3>1. CASE s[k] = a
            BY <1>1, <3>1
        <3>2. CASE s[k] = b
            BY <1>2, <3>2
        <3>3. QED
            BY <2>5, <3>1, <3>2
    <2>7. \A k, l \in 1 .. Len(s) : s[k].type # "say" /\ s[l].type # "say" => k = l
        BY <2>4
    <2>8. IsAnswer(s, r)
        BY <2>1, <2>6, <2>7 DEF IsAnswer
    <2>9. QED
        BY <2>8 DEF s
<1>6. QED
    BY <1>3, <1>4, <1>5 DEF a, b

\* build_response answers so.
LEMMA PresentedAnswers ==
    ASSUME NEW r, r.amount \in Int, NEW acts \in Chat!Presented(r)
    PROVE  IsAnswer(acts, r)
<1>1. Chat!Basic(r) = Chat!Act("say", r)
    BY DEF Chat!Basic
<1>2. ASSUME NEW s \in Chat!PresentReward(r) PROVE IsAnswer(s, r)
    <2>1. CASE r.type = "points"
        <3>1. s \in Chat!PresentPoints(r)
            BY <1>2, <2>1 DEF Chat!PresentReward
        <3>2. s = <<Chat!Basic(r), Chat!Act("points", r)>> \/ s = <<Chat!Act("points", r)>>
            BY <3>1 DEF Chat!PresentPoints
        <3>3. QED
            BY <2>1, <3>2, Shapes
    <2>2. CASE r.type = "timeout"
        <3>1. s = <<Chat!Basic(r), Chat!Act("timeout", r)>>
            BY <1>2, <2>2 DEF Chat!PresentReward, Chat!PresentTimeout
        <3>2. QED
            BY <2>2, <3>1, Shapes DEF TimesOut
    <2>3. CASE r.type = "dupe"
        <3>1. s = <<Chat!Basic(r), Chat!Act("dupe", r)>>
            BY <1>2, <2>3 DEF Chat!PresentReward, Chat!PresentDupe
        <3>2. QED
            BY <2>3, <3>1, Shapes
    <2>4. CASE r.type = "robbery"
        <3>1. \/ s = <<Chat!Basic(r), Chat!Basic(r)>>
              \/ s = <<Chat!Basic(r), Chat!Basic(r), Chat!Act("timeout", r)>>
            BY <1>2, <2>4 DEF Chat!PresentReward, Chat!PresentRobbery
        <3>2. QED
            BY <1>1, <2>4, <3>1, Shapes DEF TimesOut
    <2>5. CASE r.type = "roulette"
        <3>1. \/ s = <<Chat!Basic(r), Chat!Basic(r)>>
              \/ s = <<Chat!Basic(r), Chat!Basic(r), Chat!Act("timeout", r)>>
            BY <1>2, <2>5 DEF Chat!PresentReward, Chat!PresentRoulette
        <3>2. QED
            BY <1>1, <2>5, <3>1, Shapes DEF TimesOut
    <2>6. CASE r.type = "fish"
        <3>1. s = <<Chat!Basic(r), Chat!Basic(r)>>
            BY <1>2, <2>6 DEF Chat!PresentReward, Chat!PresentFish
        <3>2. QED
            BY <1>1, <3>1, Shapes
    <2>7. CASE r.type \notin {"points", "timeout", "dupe", "robbery", "roulette", "fish"}
        <3>1. s = <<Chat!Basic(r)>>
            BY <1>2, <2>7 DEF Chat!PresentReward
        <3>2. QED
            BY <1>1, <3>1, Shapes
    <2>8. QED
        BY <2>1, <2>2, <2>3, <2>4, <2>5, <2>6, <2>7
<1>3. ASSUME NEW s, IsAnswer(s, r) PROVE IsAnswer(Append(s, Chat!Basic(r)), r)
    <2> DEFINE a == Chat!Basic(r)
               w == Append(s, a)
    <2>1. a \in ActionRecord /\ a.type = "say"
        BY DEF Chat!Basic, Chat!Act, ActionRecord
    <2> HIDE DEF a
    <2>2. s \in Seq(ActionRecord)
        BY <1>3 DEF IsAnswer
    <2>3. /\ w \in Seq(ActionRecord) /\ Len(w) = Len(s) + 1
          /\ \A k \in 1 .. Len(s) : w[k] = s[k]
          /\ w[Len(s) + 1] = a
        BY <2>1, <2>2
    <2> HIDE DEF w
    <2>4. \A k \in 1 .. Len(w) : w[k].type # "say" => k \in 1 .. Len(s) /\ w[k] = s[k]
        BY <2>1, <2>2, <2>3
    <2>5. IsAnswer(w, r)
        BY <1>3, <2>2, <2>3, <2>4 DEF IsAnswer
    <2>6. QED
        BY <2>5 DEF w, a
<1>4. QED
    BY <1>2, <1>3 DEF Chat!Presented

-----------------------------------------------------------------------------
(* What is invariant of the chat, one message at a time.                       *)

AllRewards == Rewards \union {Chat!Nothing}
Statuses == {"resolved", "cooldown_rejected"}
CastRecord(m) ==
    [msg : {m}, n : Nat, user : Users, extra : BOOLEAN, status : Statuses, reward : AllRewards]
RequestRecord ==
    [at : {"none", "sent", "lost", "answered"}, extra : BOOLEAN, acts : Seq(ActionRecord)]
HandlerRecord ==
    [at : {"new", "asking", "acting", "resting", "asking_extra", "extra", "ended"},
     acts : Seq(ActionRecord), i : Nat, inner : Seq(ActionRecord), j : Nat, left : Nat]

OpsOf(m) == {o \in ops : o.key[1] = m}
ToldOf(m) == {a \in announced : a.msg = m}

\* An action of this type is still to come.
Ahead(acts, i, type) == \E k \in i .. Len(acts) : acts[k].type = type

Extras(C) == {c \in C : c.extra}
Harsh(C) == {c \in C : c.reward.type \in TimesOut}

\* The most extra casts a message's first reward brings.
Bound(r) == IF r.type = "dupe" THEN Chat!Extra(r.amount) ELSE 0

\* A message, by the values of its handler t, its request q, its author u, its
\* timeouts b, its casts C, its operations O and what was announced for it, A.
Typed(m, t, q, u, b, C) ==
    /\ t \in HandlerRecord /\ q \in RequestRecord /\ u \in Users \union {None} /\ b \in Nat
    /\ t.at # "new" => u \in Users
    /\ IsFiniteSet(C) /\ C \subseteq CastRecord(m)
    /\ \A c \in C : c.n <= Cardinality(C) /\ (c.extra => c.status = "resolved")

\* What the handler works on is the answer to a cast of its message.
Answered(acts, C) == \E c \in C : IsAnswer(acts, c.reward)

\* The command's own answer, and its place in it.
Outer(t, C) ==
    /\ \E c \in C : ~ c.extra /\ IsAnswer(t.acts, c.reward)
    /\ t.i \in 1 .. Len(t.acts)

\* A message has one cast of its own, which is made while its handler asks, or late.
Begins(t, q, C, O) ==
    /\ t.at = "new" => t = Chat!NoTask /\ q = Chat!NoCall /\ C = {} /\ O = {}
    /\ t.at = "asking" =>
         /\ t.i = 1 /\ O = {} /\ ~ q.extra
         /\ \/ q.at = "sent" /\ C = {}
            \/ q.at = "answered" /\ \E c \in C : C = {c} /\ ~ c.extra /\ IsAnswer(q.acts, c.reward)
    /\ q.at = "lost" /\ ~ q.extra => C = {} /\ t.at = "ended"
    /\ \A c, d \in C : ~ c.extra /\ ~ d.extra => c = d

\* Extra casts are asked for at the answer's dupe, one after the other.
Goes(t, q, C, O) ==
    /\ t.at \in {"acting", "resting", "asking_extra", "extra"} => Outer(t, C)
    /\ t.at = "acting" =>
         /\ q.at \in {"none", "lost"}
         /\ Ahead(t.acts, t.i, "dupe") => q.at = "none" /\ Extras(C) = {}
         /\ Ahead(t.acts, t.i, "points") => O = {}
    /\ t.at \in {"resting", "asking_extra", "extra"} =>
         t.acts[t.i].type = "dupe" /\ t.left \in 1 .. MostExtra
    /\ t.at \in {"resting", "extra"} => q.at = "none"
    /\ t.at = "asking_extra" =>
         q.extra /\ (q.at = "sent" \/ (q.at = "answered" /\ Answered(q.acts, C)))
    /\ t.at = "extra" => t.j \in 1 .. Len(t.inner) /\ Answered(t.inner, C)
    /\ t.at = "ended" => q.at \in {"none", "lost"}

\* Extra casts that are to come.
Owed(t, q) ==
    IF t.at = "resting" \/ (t.at = "asking_extra" /\ q.at = "sent") THEN t.left
    ELSE IF t.at \in {"asking_extra", "extra"} THEN t.left - 1
    ELSE IF q.at = "lost" /\ q.extra THEN 1 ELSE 0

Budgeted(t, q, C) ==
    \A c \in C : ~ c.extra => Cardinality(Extras(C)) + Owed(t, q) <= Bound(c.reward)

\* A timeout is to come.
TimeoutAhead(t, q) ==
    \/ q.at = "answered" /\ Ahead(q.acts, 1, "timeout")
    \/ t.at = "acting" /\ Ahead(t.acts, t.i, "timeout")
    \/ t.at = "extra" /\ Ahead(t.inner, t.j, "timeout")

Threats(t, q) == IF TimeoutAhead(t, q) THEN 1 ELSE 0

Punished(t, q, b, C) == b + Threats(t, q) <= Cardinality(Harsh(C))

Spared(u, b, C) ==
    u \in Mods => b = 0 /\ \A c \in C : c.reward.type \notin {"timeout", "roulette"}

Paid(u, C, O) ==
    \A o \in O : o.user = u /\ \E c \in C : c.reward.type = "points" /\ c.reward.amount = o.amount

Honest(u, O, A) ==
    \A a \in A : a.user = u /\ \E o \in O : ~ a.extra => o.amount = a.amount

MessageInv(m, t, q, u, b, C, O, A) ==
    /\ Typed(m, t, q, u, b, C)
    /\ Begins(t, q, C, O) /\ Goes(t, q, C, O)
    /\ Budgeted(t, q, C) /\ Punished(t, q, b, C)
    /\ Spared(u, b, C) /\ Paid(u, C, O) /\ Honest(u, O, A)

Sound(m) == MessageInv(m, command[m], call[m], by[m], bans[m], Chat!CastsOf(m), OpsOf(m), ToldOf(m))

ChatInv ==
    /\ command \in [Messages -> HandlerRecord] /\ call \in [Messages -> RequestRecord]
    /\ by \in [Messages -> Users \union {None}] /\ bans \in [Messages -> Nat]
    /\ cooling \subseteq Users
    /\ \A c \in casts : c.msg \in Messages
    /\ \A o \in ops : o.key[1] \in Messages
    /\ \A a \in announced : a.msg \in Messages
    /\ \A m \in Messages : Sound(m)

-----------------------------------------------------------------------------
(* What the operators keep *)

LEMMA Special ==
    ASSUME NEW acts, NEW r, IsAnswer(acts, r), NEW i \in 1 .. Len(acts), acts[i].type # "say",
           NEW type, type # "say"
    PROVE  ~ Ahead(acts, i + 1, type)
BY DEF IsAnswer, Ahead

LEMMA AheadShrinks ==
    ASSUME NEW acts, NEW i \in Nat, NEW type, Ahead(acts, i + 1, type)
    PROVE  Ahead(acts, i, type)
<1>1. PICK k \in i + 1 .. Len(acts) : acts[k].type = type
    BY DEF Ahead
<1>2. k \in i .. Len(acts)
    OBVIOUS
<1>3. QED
    BY <1>1, <1>2 DEF Ahead

LEMMA HandlerTypes ==
    ASSUME NEW t \in HandlerRecord
    PROVE  /\ t.i \in Nat /\ t.j \in Nat /\ t.left \in Nat
           /\ t.i + 1 \in Nat /\ t.j + 1 \in Nat
           /\ t.acts \in Seq(ActionRecord) /\ t.inner \in Seq(ActionRecord)
           /\ Len(t.acts) \in Nat /\ Len(t.inner) \in Nat
<1>1. /\ t.i \in Nat /\ t.j \in Nat /\ t.left \in Nat
      /\ t.acts \in Seq(ActionRecord) /\ t.inner \in Seq(ActionRecord)
    BY DEF HandlerRecord
<1>2. QED
    BY <1>1

LEMMA NextOuterIs ==
    ASSUME NEW t \in HandlerRecord, t.i \in 1 .. Len(t.acts)
    PROVE  /\ Chat!NextOuter(t) \in HandlerRecord
           /\ Chat!NextOuter(t).acts = t.acts
           /\ \/ Chat!NextOuter(t).at = "acting" /\ Chat!NextOuter(t).i = t.i + 1
                 /\ Chat!NextOuter(t).i \in 1 .. Len(t.acts)
              \/ Chat!NextOuter(t).at = "ended"
<1>1. t.i \in Nat /\ t.i + 1 \in Nat /\ Len(t.acts) \in Nat
    BY HandlerTypes
<1>2. <<>> \in Seq(ActionRecord)
    OBVIOUS
<1>3. Chat!NextOuter(t) \in HandlerRecord
    BY <1>1, <1>2 DEF Chat!NextOuter, HandlerRecord
<1>4. Chat!NextOuter(t).acts = t.acts /\ Chat!NextOuter(t).i = t.i + 1
    BY DEF Chat!NextOuter, HandlerRecord
<1>5. Chat!NextOuter(t).at = IF t.i < Len(t.acts) THEN "acting" ELSE "ended"
    BY DEF Chat!NextOuter, HandlerRecord
<1>6. QED
    BY <1>1, <1>3, <1>4, <1>5

LEMMA OverIs == Chat!Over \in HandlerRecord /\ Chat!Over.at = "ended"
<1>1. <<>> \in Seq(ActionRecord)
    OBVIOUS
<1>2. QED
    BY <1>1 DEF Chat!Over, Chat!NoTask, HandlerRecord

\* A budget is never overdrawn.
LEMMA OwedIsNat ==
    ASSUME NEW t, NEW q, t.left \in Nat,
           t.at \in {"resting", "asking_extra", "extra"} => t.left >= 1
    PROVE  Owed(t, q) \in Nat
<1>1. CASE t.at \in {"resting", "asking_extra", "extra"}
    <2>1. t.left - 1 \in Nat
        BY <1>1
    <2>2. Owed(t, q) = t.left \/ Owed(t, q) = t.left - 1
        BY <1>1 DEF Owed
    <2>3. QED
        BY <2>1, <2>2
<1>2. CASE t.at \notin {"resting", "asking_extra", "extra"}
    BY <1>2 DEF Owed
<1>3. QED
    BY <1>1, <1>2

LEMMA ThreatsAre ==
    ASSUME NEW t, NEW q
    PROVE  /\ Threats(t, q) \in {0, 1}
           /\ TimeoutAhead(t, q) => Threats(t, q) = 1
           /\ ~ TimeoutAhead(t, q) => Threats(t, q) = 0
BY DEF Threats

LEMMA RewardAmounts ==
    ASSUME Chat!ChatActionsAssumption
    PROVE  \A r \in AllRewards : r.amount \in Int
BY DEF Chat!ChatActionsAssumption, AllRewards, Chat!Nothing

LEMMA BoundIsNat ==
    ASSUME Chat!ChatActionsAssumption, NEW r, r.amount \in Int
    PROVE  Bound(r) \in Nat
BY DEF Chat!ChatActionsAssumption, Bound, Chat!Extra

LEMMA PartsAreFinite ==
    ASSUME NEW C, IsFiniteSet(C)
    PROVE  /\ IsFiniteSet(Extras(C)) /\ Cardinality(Extras(C)) \in Nat
           /\ IsFiniteSet(Harsh(C)) /\ Cardinality(Harsh(C)) \in Nat
<1>1. Extras(C) \subseteq C /\ Harsh(C) \subseteq C
    BY DEF Extras, Harsh
<1>2. QED
    BY <1>1, FS_Subset, FS_CardinalityType

-----------------------------------------------------------------------------
(* The steps of one message *)

\* The handler goes on with the command's own answer, or is over: q2 is what is left of its
\* request, b2, O2 and A2 what the action it leaves has brought.
LEMMA GoesOutwards ==
    ASSUME Chat!ChatActionsAssumption, NEW m, NEW t, NEW q, NEW u, NEW b, NEW C, NEW O, NEW A,
           MessageInv(m, t, q, u, b, C, O, A),
           t.at \in {"acting", "extra", "asking_extra"},
           NEW q2 \in RequestRecord, q2.at \in {"none", "lost"}, q2.at = "lost" => q2.extra,
           t.at = "acting" => q2 = q, t.at = "extra" => q2.at = "none",
           t.at = "asking_extra" => q.at = "sent",
           NEW b2 \in Nat, NEW O2, NEW A2,
           \/ b2 = b
           \/ /\ b2 = b + 1 /\ TimeoutAhead(t, q)
              /\ t.at = "acting" => t.acts[t.i].type = "timeout",
           t.at = "acting" => O2 = O \/ t.acts[t.i].type = "points",
           Spared(u, b2, C), Paid(u, C, O2), Honest(u, O2, A2),
           NEW n \in {Chat!NextOuter(t), Chat!Over}
    PROVE  MessageInv(m, n, q2, u, b2, C, O2, A2)
<1>1. /\ Typed(m, t, q, u, b, C) /\ Begins(t, q, C, O) /\ Goes(t, q, C, O)
      /\ Budgeted(t, q, C) /\ Punished(t, q, b, C)
    BY DEF MessageInv
<1>2. /\ t \in HandlerRecord /\ Outer(t, C) /\ t.i \in 1 .. Len(t.acts) /\ t.i \in Nat
      /\ t.at # "acting" => t.acts[t.i].type = "dupe"
    BY <1>1 DEF Typed, Goes, Outer, HandlerRecord
<1>3. /\ n \in HandlerRecord
      /\ \/ n.at = "acting" /\ n.acts = t.acts /\ n.i = t.i + 1 /\ n.i \in 1 .. Len(t.acts)
         \/ n.at = "ended"
    BY <1>2, NextOuterIs, OverIs
<1>4. PICK own \in C : ~ own.extra /\ IsAnswer(t.acts, own.reward)
    BY <1>2 DEF Outer
<1>5. ASSUME NEW type, type # "say", Ahead(t.acts, t.i + 1, type)
      PROVE  t.at = "acting" /\ t.acts[t.i].type = "say" /\ Ahead(t.acts, t.i, type)
    <2>1. t.acts[t.i].type = "say"
        BY <1>2, <1>4, <1>5, Special
    <2>2. Ahead(t.acts, t.i, type)
        BY <1>2, <1>5, AheadShrinks
    <2>3. QED
        BY <1>2, <2>1, <2>2
<1>6. Typed(m, n, q2, u, b2, C)
    BY <1>1, <1>3 DEF Typed
<1>7. Begins(n, q2, C, O2)
    BY <1>1, <1>3 DEF Begins
<1>8. Goes(n, q2, C, O2)
    <2>1. Outer(n, C) \/ n.at = "ended"
        BY <1>3, <1>4 DEF Outer
    <2>2. ASSUME n.at = "acting", Ahead(n.acts, n.i, "dupe")
          PROVE  q2.at = "none" /\ Extras(C) = {}
        BY <1>1, <1>3, <1>5, <2>2 DEF Goes
    <2>3. ASSUME n.at = "acting", Ahead(n.acts, n.i, "points")
          PROVE  O2 = {}
        BY <1>1, <1>3, <1>5, <2>3 DEF Goes
    <2>4. QED
        BY <1>3, <2>1, <2>2, <2>3 DEF Goes
<1>9. Budgeted(n, q2, C)
    <2>1. t.left \in Nat /\ (t.at \in {"extra", "asking_extra"} => t.left >= 1)
        <3>1. t.left \in Nat
            BY <1>2, HandlerTypes
        <3>2. t.at \in {"extra", "asking_extra"} => t.left \in 1 .. MostExtra
            BY <1>1 DEF Goes
        <3>3. QED
            BY <3>1, <3>2 DEF Chat!ChatActionsAssumption
    <2>2. Owed(t, q) \in Nat
        <3>1. t.at # "resting"
            OBVIOUS
        <3>2. QED
            BY <2>1, <3>1, OwedIsNat
    <2>3. n.at \notin {"resting", "asking_extra", "extra"}
        BY <1>3
    <2>4. Owed(n, q2) \in Nat /\ Owed(n, q2) <= Owed(t, q)
        <3> DEFINE lost(p) == p.at = "lost" /\ p.extra
        <3>1. (lost(q2) => Owed(n, q2) = 1) /\ (~ lost(q2) => Owed(n, q2) = 0)
            BY <2>3 DEF Owed
        <3>2. CASE t.at = "acting"
            <4>1. Owed(t, q) = Owed(n, q2)
                BY <2>3, <3>2 DEF Owed
            <4>2. QED
                BY <2>2, <4>1
        <3>3. CASE t.at = "extra"
            BY <2>2, <3>1, <3>3
        <3>4. CASE t.at = "asking_extra"
            <4>1. q.at = "sent" => Owed(t, q) = t.left
                BY <3>4 DEF Owed
            <4>2. q.at = "sent" \/ ~ lost(q2)
                BY <3>4
            <4>3. QED
                BY <2>1, <2>2, <3>1, <4>1, <4>2
        <3>5. QED
            BY <3>2, <3>3, <3>4
    <2>5. Cardinality(Extras(C)) \in Nat
        BY <1>1, PartsAreFinite DEF Typed
    <2>6. \A c \in C : Bound(c.reward) \in Nat
        BY <1>1, RewardAmounts, BoundIsNat DEF Typed, CastRecord
    <2> SUFFICES ASSUME NEW c \in C, ~ c.extra
                 PROVE  Cardinality(Extras(C)) + Owed(n, q2) <= Bound(c.reward)
        BY DEF Budgeted
    <2>7. Cardinality(Extras(C)) + Owed(t, q) <= Bound(c.reward)
        BY <1>1 DEF Budgeted
    <2>8. QED
        BY <2>2, <2>4, <2>5, <2>6, <2>7
<1>10. Punished(n, q2, b2, C)
    <2>1. Cardinality(Harsh(C)) \in Nat /\ b \in Nat
        BY <1>1, PartsAreFinite DEF Typed
    <2>2. TimeoutAhead(n, q2) => TimeoutAhead(t, q) /\ t.at = "acting" /\ t.acts[t.i].type = "say"
        BY <1>3, <1>5 DEF TimeoutAhead
    <2>3. b2 + Threats(n, q2) <= b + Threats(t, q)
        BY <2>1, <2>2, ThreatsAre
    <2>4. Threats(n, q2) \in Nat /\ Threats(t, q) \in Nat
        BY ThreatsAre
    <2>5. QED
        BY <1>1, <2>1, <2>3, <2>4 DEF Punished
<1>11. QED
    BY <1>6, <1>7, <1>8, <1>9, <1>10 DEF MessageInv

\* An extra cast's answer goes on, or the handler rests before the next extra cast.
LEMMA GoesInwards ==
    ASSUME Chat!ChatActionsAssumption, NEW m, NEW t, NEW q, NEW u, NEW b, NEW C, NEW O, NEW A,
           MessageInv(m, t, q, u, b, C, O, A), t.at = "extra",
           NEW t2 \in HandlerRecord, t2.acts = t.acts, t2.i = t.i,
           \/ /\ t2.at = "extra" /\ t2.inner = t.inner /\ t2.left = t.left
              /\ t2.j = t.j + 1 /\ t2.j \in 1 .. Len(t.inner)
           \/ t2.at = "resting" /\ t2.left = t.left - 1 /\ t2.left \in 1 .. MostExtra,
           NEW b2 \in Nat, NEW O2, NEW A2,
           b2 = b \/ (b2 = b + 1 /\ t.inner[t.j].type = "timeout"),
           Spared(u, b2, C), Paid(u, C, O2), Honest(u, O2, A2)
    PROVE  MessageInv(m, t2, q, u, b2, C, O2, A2)
<1>1. /\ Typed(m, t, q, u, b, C) /\ Begins(t, q, C, O) /\ Goes(t, q, C, O)
      /\ Budgeted(t, q, C) /\ Punished(t, q, b, C)
    BY DEF MessageInv
<1>2. /\ t \in HandlerRecord /\ Outer(t, C) /\ t.acts[t.i].type = "dupe" /\ q.at = "none"
      /\ t.j \in 1 .. Len(t.inner) /\ Answered(t.inner, C)
    BY <1>1 DEF Typed, Goes
<1>3. Typed(m, t2, q, u, b2, C)
    BY <1>1 DEF Typed
<1>4. Begins(t2, q, C, O2)
    BY <1>1, <1>2 DEF Begins
<1>5. Goes(t2, q, C, O2)
    <2>1. t2.left \in 1 .. MostExtra
        BY <1>1 DEF Goes
    <2>2. Outer(t2, C)
        BY <1>2 DEF Outer
    <2>3. QED
        BY <1>2, <2>1, <2>2 DEF Goes
<1>6. Budgeted(t2, q, C)
    <2>1. Owed(t2, q) = Owed(t, q)
        BY DEF Owed
    <2>2. QED
        BY <1>1, <2>1 DEF Budgeted
<1>7. Punished(t2, q, b2, C)
    <2>1. Cardinality(Harsh(C)) \in Nat /\ b \in Nat
        BY <1>1, PartsAreFinite DEF Typed
    <2>2. t.j \in Nat
        BY <1>2, HandlerTypes
    <2>3. TimeoutAhead(t2, q) => TimeoutAhead(t, q) /\ b2 = b
        <3> SUFFICES ASSUME TimeoutAhead(t2, q)
                     PROVE  TimeoutAhead(t, q) /\ b2 = b
            OBVIOUS
        <3>1. Ahead(t.inner, t.j + 1, "timeout")
            BY <1>2 DEF TimeoutAhead
        <3>2. Ahead(t.inner, t.j, "timeout")
            BY <2>2, <3>1, AheadShrinks
        <3>3. t.inner[t.j].type = "say"
            BY <1>2, <3>1, Special DEF Answered
        <3>4. QED
            BY <3>2, <3>3 DEF TimeoutAhead
    <2>4. b2 = b + 1 => TimeoutAhead(t, q) \/ b2 = b
        <3>1. t.inner[t.j].type = "timeout" => Ahead(t.inner, t.j, "timeout")
            BY <1>2, <2>2 DEF Ahead
        <3>2. QED
            BY <3>1 DEF TimeoutAhead
    <2>5. b2 + Threats(t2, q) <= b + Threats(t, q)
        BY <2>1, <2>3, <2>4, ThreatsAre
    <2>6. Threats(t2, q) \in Nat /\ Threats(t, q) \in Nat
        BY ThreatsAre
    <2>7. QED
        BY <1>1, <2>1, <2>5, <2>6 DEF Punished
<1>8. QED
    BY <1>3, <1>4, <1>5, <1>6, <1>7 DEF MessageInv

\* Where the action leads a handler: further, or out when the chat cannot be told.
Ways(t) == {Chat!Performed(t)} \union Chat!Broken(t)

\* The handler performs the action it is at.
LEMMA MovesOn ==
    ASSUME Chat!ChatActionsAssumption, NEW m, NEW t, NEW q, NEW u, NEW b, NEW C, NEW O, NEW A,
           MessageInv(m, t, q, u, b, C, O, A), t.at \in {"acting", "extra"},
           NEW b2 \in Nat, NEW O2, NEW A2,
           b2 = b \/ (b2 = b + 1 /\ Chat!At(t).type = "timeout"),
           O2 = O \/ Chat!At(t).type = "points",
           Spared(u, b2, C), Paid(u, C, O2), Honest(u, O2, A2), NEW n \in Ways(t)
    PROVE  MessageInv(m, n, q, u, b2, C, O2, A2)
<1>1. Typed(m, t, q, u, b, C) /\ Begins(t, q, C, O) /\ Goes(t, q, C, O)
    BY DEF MessageInv
<1>2. /\ t \in HandlerRecord /\ q \in RequestRecord /\ q.at \in {"none", "lost"}
      /\ q.at = "lost" => q.extra
      /\ t.at = "extra" => q.at = "none"
    BY <1>1 DEF Typed, Goes, Begins
<1>3. /\ t.i \in 1 .. Len(t.acts) /\ t.i \in Nat /\ t.j \in Nat /\ t.left \in Nat
      /\ t.at = "extra" => t.j \in 1 .. Len(t.inner) /\ t.left \in 1 .. MostExtra
    BY <1>1, <1>2, HandlerTypes DEF Goes, Outer
<1>4. ASSUME NEW k \in {Chat!NextOuter(t), Chat!Over}
      PROVE  MessageInv(m, k, q, u, b2, C, O2, A2)
    <2>1. Chat!At(t) = IF t.at = "extra" THEN t.inner[t.j] ELSE t.acts[t.i]
        BY DEF Chat!At
    <2>2. Chat!At(t).type = "timeout" => TimeoutAhead(t, q)
        BY <1>3, <2>1 DEF Ahead, TimeoutAhead
    <2>3. \/ b2 = b
          \/ b2 = b + 1 /\ TimeoutAhead(t, q) /\ (t.at = "acting" => t.acts[t.i].type = "timeout")
        BY <2>1, <2>2
    <2>4. t.at = "acting" => O2 = O \/ t.acts[t.i].type = "points"
        BY <2>1
    <2>5. QED
        BY <1>2, <2>3, <2>4, GoesOutwards
<1>5. CASE t.at = "acting"
    <2>1. n \in {Chat!NextOuter(t), Chat!Over}
        BY <1>5 DEF Ways, Chat!Performed, Chat!Broken
    <2>2. QED
        BY <1>4, <2>1
<1>6. CASE t.at = "extra" /\ n = Chat!Performed(t)
    <2>1. Chat!At(t) = t.inner[t.j]
        BY <1>6 DEF Chat!At
    <2>2. Chat!Performed(t) = IF t.j < Len(t.inner) THEN [t EXCEPT !.j = @ + 1]
                         ELSE IF t.left > 1
                              THEN [t EXCEPT !.at = "resting", !.left = @ - 1,
                                             !.inner = <<>>, !.j = 1]
                              ELSE Chat!NextOuter(t)
        BY <1>6 DEF Chat!Performed
    <2>3. t.j + 1 \in Nat /\ Len(t.inner) \in Nat
        BY <1>2, HandlerTypes
    <2>4. CASE t.j < Len(t.inner)
        <3> DEFINE t2 == [t EXCEPT !.j = @ + 1]
        <3>1. /\ t2 \in HandlerRecord /\ t2.acts = t.acts /\ t2.i = t.i /\ t2.at = "extra"
              /\ t2.inner = t.inner /\ t2.left = t.left /\ t2.j = t.j + 1
            BY <1>2, <1>6, <2>3 DEF HandlerRecord
        <3>2. Chat!Performed(t) = t2
            BY <2>2, <2>4
        <3> HIDE DEF t2
        <3>3. t2.j \in 1 .. Len(t.inner)
            BY <1>3, <2>3, <2>4, <3>1
        <3>4. MessageInv(m, t2, q, u, b2, C, O2, A2)
            BY <1>6, <2>1, <3>1, <3>3, GoesInwards
        <3>5. QED
            BY <1>6, <3>2, <3>4
    <2>5. CASE ~ t.j < Len(t.inner) /\ t.left > 1
        <3> DEFINE t2 == [t EXCEPT !.at = "resting", !.left = @ - 1, !.inner = <<>>, !.j = 1]
        <3>0. t.left - 1 \in Nat /\ <<>> \in Seq(ActionRecord)
            BY <1>3, <2>5
        <3>1. /\ t2 \in HandlerRecord /\ t2.acts = t.acts /\ t2.i = t.i /\ t2.at = "resting"
              /\ t2.left = t.left - 1
            BY <1>2, <3>0 DEF HandlerRecord
        <3>2. Chat!Performed(t) = t2
            BY <2>2, <2>5
        <3> HIDE DEF t2
        <3>3. t2.left \in 1 .. MostExtra
            BY <1>3, <1>6, <2>5, <3>1 DEF Chat!ChatActionsAssumption
        <3>4. MessageInv(m, t2, q, u, b2, C, O2, A2)
            BY <1>6, <2>1, <3>1, <3>3, GoesInwards
        <3>5. QED
            BY <1>6, <3>2, <3>4
    <2>6. CASE ~ t.j < Len(t.inner) /\ ~ t.left > 1
        BY <1>4, <1>6, <2>2, <2>6
    <2>7. QED
        BY <2>4, <2>5, <2>6
<1>7. CASE t.at = "extra" /\ n # Chat!Performed(t)
    <2>1. n \in {Chat!NextOuter(t), Chat!Over}
        BY <1>7 DEF Ways, Chat!Broken
    <2>2. QED
        BY <1>4, <2>1
<1>8. QED
    BY <1>5, <1>6, <1>7

\* The extra casts of the command's own reward are to come.
LEMMA Duplicates ==
    ASSUME Chat!ChatActionsAssumption, NEW m, NEW t, NEW q, NEW u, NEW b, NEW C, NEW O, NEW A,
           MessageInv(m, t, q, u, b, C, O, A), t.at = "acting", Chat!At(t).type = "dupe"
    PROVE  MessageInv(m, [t EXCEPT !.at = "resting", !.left = Chat!Extra(Chat!At(t).amount)],
                      q, u, b, C, O, A)
<1> DEFINE left == Chat!Extra(Chat!At(t).amount)
           t2 == [t EXCEPT !.at = "resting", !.left = left]
<1>1. /\ Typed(m, t, q, u, b, C) /\ Begins(t, q, C, O) /\ Goes(t, q, C, O)
      /\ Budgeted(t, q, C) /\ Punished(t, q, b, C)
      /\ Spared(u, b, C) /\ Paid(u, C, O) /\ Honest(u, O, A)
    BY DEF MessageInv
<1>2. /\ t \in HandlerRecord /\ Outer(t, C) /\ t.i \in 1 .. Len(t.acts)
      /\ t.i \in Nat /\ Chat!At(t) = t.acts[t.i]
    BY <1>1, HandlerTypes DEF Typed, Goes, Outer, Chat!At
<1>3. q.at = "none" /\ Extras(C) = {}
    <2>1. Ahead(t.acts, t.i, "dupe")
        BY <1>2 DEF Ahead
    <2>2. QED
        BY <1>1, <2>1 DEF Goes
<1>4. PICK own \in C : ~ own.extra /\ IsAnswer(t.acts, own.reward)
    BY <1>2 DEF Outer
<1>5. Bound(own.reward) = left /\ left \in 1 .. MostExtra
    <2>1. own.reward.type = "dupe" /\ Chat!At(t).amount = own.reward.amount
        BY <1>2, <1>4 DEF IsAnswer
    <2>2. own.reward.amount \in Int
        BY <1>1, RewardAmounts DEF Typed, CastRecord
    <2>3. QED
        BY <2>1, <2>2 DEF Chat!ChatActionsAssumption, Bound, Chat!Extra
<1> HIDE DEF left
<1>6. left \in Nat
    BY <1>5
<1>7. t2 \in HandlerRecord /\ t2.acts = t.acts /\ t2.i = t.i /\ t2.at = "resting" /\ t2.left = left
    BY <1>2, <1>6 DEF HandlerRecord
<1> HIDE DEF t2
<1>8. Typed(m, t2, q, u, b, C)
    BY <1>1, <1>7 DEF Typed
<1>9. Begins(t2, q, C, O)
    BY <1>1, <1>3, <1>7 DEF Begins
<1>10. Goes(t2, q, C, O)
    BY <1>2, <1>3, <1>5, <1>7 DEF Goes, Outer
<1>11. Budgeted(t2, q, C)
    <2>1. Owed(t2, q) = left
        BY <1>7 DEF Owed
    <2>2. Cardinality(Extras(C)) = 0
        BY <1>3, FS_EmptySet
    <2>3. \A c \in C : ~ c.extra => c = own
        BY <1>1, <1>4 DEF Begins
    <2>4. QED
        BY <1>5, <1>6, <2>1, <2>2, <2>3 DEF Budgeted
<1>12. Punished(t2, q, b, C)
    <2>1. ~ TimeoutAhead(t2, q)
        BY <1>3, <1>7 DEF TimeoutAhead
    <2>2. b \in Nat /\ Cardinality(Harsh(C)) \in Nat
        BY <1>1, PartsAreFinite DEF Typed
    <2>3. QED
        BY <1>1, <2>1, <2>2, ThreatsAre DEF Punished
<1>13. QED
    BY <1>1, <1>8, <1>9, <1>10, <1>11, <1>12 DEF MessageInv, t2, left

\* An extra cast is asked for.
LEMMA AsksExtra ==
    ASSUME Chat!ChatActionsAssumption, NEW m, NEW t, NEW q, NEW u, NEW b, NEW C, NEW O, NEW A,
           MessageInv(m, t, q, u, b, C, O, A), t.at = "resting"
    PROVE  MessageInv(m, [t EXCEPT !.at = "asking_extra"],
                      [Chat!NoCall EXCEPT !.at = "sent", !.extra = TRUE], u, b, C, O, A)
<1> DEFINE t2 == [t EXCEPT !.at = "asking_extra"]
           q2 == [Chat!NoCall EXCEPT !.at = "sent", !.extra = TRUE]
<1>1. /\ Typed(m, t, q, u, b, C) /\ Begins(t, q, C, O) /\ Goes(t, q, C, O)
      /\ Budgeted(t, q, C) /\ Punished(t, q, b, C)
      /\ Spared(u, b, C) /\ Paid(u, C, O) /\ Honest(u, O, A)
    BY DEF MessageInv
<1>2. /\ t \in HandlerRecord /\ Outer(t, C) /\ t.acts[t.i].type = "dupe"
      /\ t.left \in 1 .. MostExtra
    BY <1>1 DEF Typed, Goes
<1>3. /\ t2 \in HandlerRecord /\ t2.acts = t.acts /\ t2.i = t.i /\ t2.at = "asking_extra"
      /\ t2.left = t.left
    BY <1>2 DEF HandlerRecord
<1>4. q2 \in RequestRecord /\ q2.at = "sent" /\ q2.extra
    <2>1. <<>> \in Seq(ActionRecord)
        OBVIOUS
    <2>2. QED
        BY <2>1 DEF RequestRecord, Chat!NoCall
<1> HIDE DEF t2, q2
<1>5. Typed(m, t2, q2, u, b, C)
    BY <1>1, <1>3, <1>4 DEF Typed
<1>6. Begins(t2, q2, C, O)
    BY <1>1, <1>3, <1>4 DEF Begins
<1>7. Goes(t2, q2, C, O)
    BY <1>2, <1>3, <1>4 DEF Goes, Outer
<1>8. Budgeted(t2, q2, C)
    <2>1. Owed(t2, q2) = t.left /\ Owed(t, q) = t.left
        BY <1>3, <1>4 DEF Owed
    <2>2. QED
        BY <1>1, <2>1 DEF Budgeted
<1>9. Punished(t2, q2, b, C)
    <2>1. ~ TimeoutAhead(t2, q2)
        BY <1>3, <1>4 DEF TimeoutAhead
    <2>2. b \in Nat /\ Cardinality(Harsh(C)) \in Nat
        BY <1>1, PartsAreFinite DEF Typed
    <2>3. QED
        BY <1>1, <2>1, <2>2, ThreatsAre DEF Punished
<1>10. QED
    BY <1>1, <1>5, <1>6, <1>7, <1>8, <1>9 DEF MessageInv, t2, q2

\* A handler that has an answer is one that asks.
LEMMA AnswersAreAwaited ==
    ASSUME NEW t, NEW q, NEW C, NEW O, t \in HandlerRecord, Begins(t, q, C, O), Goes(t, q, C, O)
    PROVE  q.at \in {"sent", "answered"} => t.at \in {"asking", "asking_extra"}
BY DEF Begins, Goes, HandlerRecord, Chat!NoCall

\* The answer is taken up.
LEMMA TakesAnswer ==
    ASSUME Chat!ChatActionsAssumption, NEW m, NEW t, NEW q, NEW u, NEW b, NEW C, NEW O, NEW A,
           MessageInv(m, t, q, u, b, C, O, A), q.at = "answered"
    PROVE  MessageInv(m, IF t.at = "asking" THEN [t EXCEPT !.at = "acting", !.acts = q.acts]
                         ELSE [t EXCEPT !.at = "extra", !.inner = q.acts, !.j = 1],
                      Chat!NoCall, u, b, C, O, A)
<1>1. /\ Typed(m, t, q, u, b, C) /\ Begins(t, q, C, O) /\ Goes(t, q, C, O)
      /\ Budgeted(t, q, C) /\ Punished(t, q, b, C)
      /\ Spared(u, b, C) /\ Paid(u, C, O) /\ Honest(u, O, A)
    BY DEF MessageInv
<1>2. t \in HandlerRecord /\ q \in RequestRecord /\ q.acts \in Seq(ActionRecord)
    BY <1>1 DEF Typed, RequestRecord
<1>3. b \in Nat /\ Cardinality(Harsh(C)) \in Nat
    BY <1>1, PartsAreFinite DEF Typed
<1>4. Chat!NoCall \in RequestRecord /\ Chat!NoCall.at = "none"
    <2>1. <<>> \in Seq(ActionRecord)
        OBVIOUS
    <2>2. QED
        BY <2>1 DEF RequestRecord, Chat!NoCall
<1>5. ASSUME t.at = "asking"
      PROVE  MessageInv(m, [t EXCEPT !.at = "acting", !.acts = q.acts], Chat!NoCall, u, b, C, O, A)
    <2> DEFINE t2 == [t EXCEPT !.at = "acting", !.acts = q.acts]
    <2>1. t2 \in HandlerRecord /\ t2.acts = q.acts /\ t2.i = t.i /\ t2.at = "acting"
        BY <1>2 DEF HandlerRecord
    <2> HIDE DEF t2
    <2>2. PICK own \in C : C = {own} /\ ~ own.extra /\ IsAnswer(q.acts, own.reward)
        BY <1>1, <1>5 DEF Begins
    <2>3. t.i = 1 /\ O = {}
        BY <1>1, <1>5 DEF Begins
    <2>4. t2.i \in 1 .. Len(t2.acts)
        BY <1>2, <2>1, <2>2, <2>3 DEF IsAnswer
    <2>5. Extras(C) = {}
        BY <2>2 DEF Extras
    <2>6. Typed(m, t2, Chat!NoCall, u, b, C)
        BY <1>1, <1>4, <1>5, <2>1 DEF Typed
    <2>7. Begins(t2, Chat!NoCall, C, O)
        BY <1>1, <1>4, <2>1 DEF Begins
    <2>8. Goes(t2, Chat!NoCall, C, O)
        BY <1>4, <2>1, <2>2, <2>3, <2>4, <2>5 DEF Goes, Outer
    <2>9. Budgeted(t2, Chat!NoCall, C)
        <3>1. Owed(t2, Chat!NoCall) = 0 /\ Owed(t, q) = 0
            BY <1>4, <1>5, <2>1 DEF Owed
        <3>2. QED
            BY <1>1, <3>1 DEF Budgeted
    <2>10. Punished(t2, Chat!NoCall, b, C)
        <3>1. TimeoutAhead(t2, Chat!NoCall) => TimeoutAhead(t, q)
            BY <1>4, <2>1, <2>3 DEF TimeoutAhead
        <3>2. QED
            BY <1>1, <1>3, <3>1, ThreatsAre DEF Punished
    <2>11. QED
        BY <1>1, <2>6, <2>7, <2>8, <2>9, <2>10 DEF MessageInv, t2
<1>6. ASSUME t.at = "asking_extra"
      PROVE  MessageInv(m, [t EXCEPT !.at = "extra", !.inner = q.acts, !.j = 1], Chat!NoCall,
                        u, b, C, O, A)
    <2> DEFINE t2 == [t EXCEPT !.at = "extra", !.inner = q.acts, !.j = 1]
    <2>1. /\ t2 \in HandlerRecord /\ t2.acts = t.acts /\ t2.i = t.i /\ t2.at = "extra"
          /\ t2.inner = q.acts /\ t2.j = 1 /\ t2.left = t.left
        BY <1>2 DEF HandlerRecord
    <2> HIDE DEF t2
    <2>2. /\ Outer(t, C) /\ t.acts[t.i].type = "dupe" /\ t.left \in 1 .. MostExtra
          /\ Answered(q.acts, C)
        BY <1>1, <1>6 DEF Goes
    <2>3. t2.j \in 1 .. Len(t2.inner)
        BY <1>2, <2>1, <2>2 DEF Answered, IsAnswer
    <2>4. Typed(m, t2, Chat!NoCall, u, b, C)
        BY <1>1, <1>4, <1>6, <2>1 DEF Typed
    <2>5. Begins(t2, Chat!NoCall, C, O)
        BY <1>1, <1>4, <2>1 DEF Begins
    <2>6. Goes(t2, Chat!NoCall, C, O)
        BY <1>4, <2>1, <2>2, <2>3 DEF Goes, Outer
    <2>7. Budgeted(t2, Chat!NoCall, C)
        <3>1. Owed(t2, Chat!NoCall) = t.left - 1 /\ Owed(t, q) = t.left - 1
            BY <1>6, <2>1 DEF Owed
        <3>2. QED
            BY <1>1, <3>1 DEF Budgeted
    <2>8. Punished(t2, Chat!NoCall, b, C)
        <3>1. TimeoutAhead(t2, Chat!NoCall) => TimeoutAhead(t, q)
            BY <1>4, <2>1 DEF TimeoutAhead
        <3>2. QED
            BY <1>1, <1>3, <3>1, ThreatsAre DEF Punished
    <2>9. QED
        BY <1>1, <2>4, <2>5, <2>6, <2>7, <2>8 DEF MessageInv, t2
<1>7. t.at = "asking" \/ t.at = "asking_extra"
    BY <1>1, <1>2, AnswersAreAwaited
<1>8. QED
    BY <1>5, <1>6, <1>7

Abandoned(q) == {[q EXCEPT !.at = "lost"], Chat!NoCall}

\* The handler gives up on its request, which the engine may yet come to.
LEMMA GivesUp ==
    ASSUME Chat!ChatActionsAssumption, NEW m, NEW t, NEW q, NEW u, NEW b, NEW C, NEW O, NEW A,
           MessageInv(m, t, q, u, b, C, O, A), q.at = "sent",
           NEW q2 \in Abandoned(q), NEW t2 \in {Chat!AfterFailure(t), Chat!Over}
    PROVE  MessageInv(m, t2, q2, u, b, C, O, A)
<1>1. /\ Typed(m, t, q, u, b, C) /\ Begins(t, q, C, O) /\ Goes(t, q, C, O)
      /\ Budgeted(t, q, C) /\ Punished(t, q, b, C)
      /\ Spared(u, b, C) /\ Paid(u, C, O) /\ Honest(u, O, A)
    BY DEF MessageInv
<1>2. t \in HandlerRecord /\ q \in RequestRecord /\ b \in Nat
    BY <1>1 DEF Typed
<1>3. /\ q2 \in RequestRecord /\ q2.at \in {"none", "lost"}
      /\ q2.at = "lost" => q2.extra = q.extra
    <2>1. <<>> \in Seq(ActionRecord)
        OBVIOUS
    <2>2. Chat!NoCall \in RequestRecord /\ Chat!NoCall.at = "none"
        BY <2>1 DEF RequestRecord, Chat!NoCall
    <2>3. CASE q2 = Chat!NoCall
        BY <2>2, <2>3
    <2>4. CASE q2 = [q EXCEPT !.at = "lost"]
        BY <1>2, <2>4 DEF RequestRecord
    <2>5. QED
        BY <2>3, <2>4 DEF Abandoned
<1>4. ASSUME t.at = "asking" PROVE MessageInv(m, t2, q2, u, b, C, O, A)
    <2>1. t2 \in HandlerRecord /\ t2.at = "ended"
        BY <1>2, <1>4, OverIs DEF HandlerRecord, Chat!AfterFailure
    <2>2. C = {} /\ ~ q.extra
        BY <1>1, <1>4 DEF Begins
    <2>3. Typed(m, t2, q2, u, b, C)
        BY <1>1, <1>3, <1>4, <2>1 DEF Typed
    <2>4. Begins(t2, q2, C, O)
        BY <1>1, <1>3, <2>1, <2>2 DEF Begins
    <2>5. Goes(t2, q2, C, O)
        BY <1>3, <2>1 DEF Goes
    <2>6. Budgeted(t2, q2, C)
        BY <2>2 DEF Budgeted
    <2>7. Punished(t2, q2, b, C)
        <3>1. ~ TimeoutAhead(t2, q2)
            BY <1>3, <2>1 DEF TimeoutAhead
        <3>2. Cardinality(Harsh(C)) \in Nat
            BY <1>1, PartsAreFinite DEF Typed
        <3>3. QED
            BY <1>1, <1>2, <3>1, <3>2, ThreatsAre DEF Punished
    <2>8. QED
        BY <1>1, <2>1, <2>3, <2>4, <2>5, <2>6, <2>7 DEF MessageInv
<1>5. ASSUME t.at = "asking_extra" PROVE MessageInv(m, t2, q2, u, b, C, O, A)
    <2>1. t2 \in {Chat!NextOuter(t), Chat!Over}
        BY <1>5 DEF Chat!AfterFailure
    <2>2. q.extra
        BY <1>1, <1>5 DEF Goes
    <2>3. q2.at = "lost" => q2.extra
        BY <1>3, <2>2
    <2>4. QED
        BY <1>1, <1>2, <1>3, <1>5, <2>1, <2>3, GoesOutwards
<1>6. t.at = "asking" \/ t.at = "asking_extra"
    BY <1>1, <1>2, AnswersAreAwaited
<1>7. QED
    BY <1>4, <1>5, <1>6

\* A message that begins.
LEMMA IsSent ==
    ASSUME Chat!ChatActionsAssumption, NEW v \in Users,
           NEW m, NEW t, NEW q, NEW u, NEW b, NEW C, NEW O, NEW A,
           MessageInv(m, t, q, u, b, C, O, A), t.at = "new"
    PROVE  MessageInv(m, [t EXCEPT !.at = "asking"], [Chat!NoCall EXCEPT !.at = "sent"],
                      v, b, C, O, A)
<1> DEFINE t2 == [t EXCEPT !.at = "asking"]
           q2 == [Chat!NoCall EXCEPT !.at = "sent"]
<1>1. /\ Typed(m, t, q, u, b, C) /\ Begins(t, q, C, O) /\ Punished(t, q, b, C)
      /\ Honest(u, O, A)
    BY DEF MessageInv
<1>2. t \in HandlerRecord /\ b \in Nat /\ t = Chat!NoTask /\ C = {} /\ O = {} /\ t.i = 1
    BY <1>1 DEF Typed, Begins, Chat!NoTask
<1>3. A = {}
    BY <1>1, <1>2 DEF Honest
<1>4. t2 \in HandlerRecord /\ t2.at = "asking" /\ t2.i = 1
    BY <1>2 DEF HandlerRecord
<1>5. q2 \in RequestRecord /\ q2.at = "sent" /\ ~ q2.extra
    <2>1. <<>> \in Seq(ActionRecord)
        OBVIOUS
    <2>2. QED
        BY <2>1 DEF RequestRecord, Chat!NoCall
<1> HIDE DEF t2, q2
<1>6. b = 0 /\ Harsh(C) = {}
    <2>1. Harsh(C) = {}
        BY <1>2 DEF Harsh
    <2>2. Cardinality(Harsh(C)) = 0
        BY <2>1, FS_EmptySet
    <2>3. Threats(t, q) \in Nat
        BY ThreatsAre
    <2>4. QED
        BY <1>1, <1>2, <2>1, <2>2, <2>3 DEF Punished
<1>7. Typed(m, t2, q2, v, b, C)
    BY <1>1, <1>4, <1>5 DEF Typed
<1>8. Begins(t2, q2, C, O) /\ Goes(t2, q2, C, O)
    BY <1>2, <1>4, <1>5 DEF Begins, Goes
<1>9. Budgeted(t2, q2, C) /\ Spared(v, b, C) /\ Paid(v, C, O) /\ Honest(v, O, A)
    BY <1>2, <1>3, <1>6 DEF Budgeted, Spared, Paid, Honest
<1>10. Punished(t2, q2, b, C)
    <2>1. ~ TimeoutAhead(t2, q2)
        BY <1>4, <1>5 DEF TimeoutAhead
    <2>2. Cardinality(Harsh(C)) = 0
        BY <1>6, FS_EmptySet
    <2>3. QED
        BY <1>6, <2>1, <2>2, ThreatsAre DEF Punished
<1>11. QED
    BY <1>7, <1>8, <1>9, <1>10 DEF MessageInv, t2, q2

\* What a moderator's cast may bring.
Allowed(u, r) == u \in Mods => r.type \notin {"timeout", "roulette"}

\* The engine's cast: c is new to the journal, and acts the answer to it.
LEMMA IsCast ==
    ASSUME Chat!ChatActionsAssumption, NEW m, NEW t, NEW q, NEW u, NEW b, NEW C, NEW O, NEW A,
           MessageInv(m, t, q, u, b, C, O, A), q.at \in {"sent", "lost"},
           NEW c \in CastRecord(m), c.n = Cardinality(C) + 1, c.extra = q.extra, c.user = u,
           c.extra => c.status = "resolved", Allowed(u, c.reward),
           NEW acts, IsAnswer(acts, c.reward)
    PROVE  MessageInv(m, t, IF q.at = "lost" THEN Chat!NoCall
                            ELSE [q EXCEPT !.at = "answered", !.acts = acts],
                      u, b, C \union {c}, O, A)
<1> DEFINE D == C \union {c}
           q2 == IF q.at = "lost" THEN Chat!NoCall ELSE [q EXCEPT !.at = "answered", !.acts = acts]
<1>1. /\ Typed(m, t, q, u, b, C) /\ Begins(t, q, C, O) /\ Goes(t, q, C, O)
      /\ Budgeted(t, q, C) /\ Punished(t, q, b, C)
      /\ Spared(u, b, C) /\ Paid(u, C, O) /\ Honest(u, O, A)
    BY DEF MessageInv
<1>2. t \in HandlerRecord /\ q \in RequestRecord /\ b \in Nat /\ q.extra \in BOOLEAN
    BY <1>1 DEF Typed, RequestRecord
<1>3. /\ q2 \in RequestRecord
      /\ q.at = "lost" => q2.at = "none"
      /\ q.at = "sent" => q2.at = "answered" /\ q2.acts = acts /\ q2.extra = q.extra
    <2>1. <<>> \in Seq(ActionRecord) /\ acts \in Seq(ActionRecord)
        BY DEF IsAnswer
    <2>2. CASE q.at = "lost"
        BY <2>1, <2>2 DEF RequestRecord, Chat!NoCall
    <2>3. CASE q.at = "sent"
        <3>1. q2 = [q EXCEPT !.at = "answered", !.acts = acts]
            BY <2>3
        <3>2. QED
            BY <1>2, <2>1, <2>3, <3>1 DEF RequestRecord
    <2>4. QED
        BY <2>2, <2>3
<1> HIDE DEF q2
<1>4. IsFiniteSet(C) /\ Cardinality(C) \in Nat
    BY <1>1, FS_CardinalityType DEF Typed
<1>5. c \notin C
    <2>1. \A d \in C : d.n <= Cardinality(C) /\ d.n \in Nat
        BY <1>1 DEF Typed, CastRecord
    <2>2. QED
        BY <1>4, <2>1
<1>6. IsFiniteSet(D) /\ Cardinality(D) = Cardinality(C) + 1
    BY <1>4, <1>5, FS_AddElement
<1>7. D \subseteq CastRecord(m)
    BY <1>1 DEF Typed
<1>8. \A d \in D : d = c \/ d \in C
    OBVIOUS
<1>9. C \subseteq D /\ c \in D
    OBVIOUS
<1>10. /\ IsFiniteSet(Extras(C)) /\ Cardinality(Extras(C)) \in Nat
       /\ IsFiniteSet(Harsh(C)) /\ Cardinality(Harsh(C)) \in Nat
    BY <1>4, PartsAreFinite
<1>11. /\ c.extra => Extras(D) = Extras(C) \union {c}
       /\ ~ c.extra => Extras(D) = Extras(C)
       /\ c.reward.type \in TimesOut => Harsh(D) = Harsh(C) \union {c}
       /\ c.reward.type \notin TimesOut => Harsh(D) = Harsh(C)
       /\ c \notin Extras(C) /\ c \notin Harsh(C)
    BY <1>5 DEF Extras, Harsh
<1> HIDE DEF D
<1>12. /\ c.extra => Cardinality(Extras(D)) = Cardinality(Extras(C)) + 1
       /\ ~ c.extra => Cardinality(Extras(D)) = Cardinality(Extras(C))
       /\ c.reward.type \in TimesOut => Cardinality(Harsh(D)) = Cardinality(Harsh(C)) + 1
       /\ c.reward.type \notin TimesOut => Cardinality(Harsh(D)) = Cardinality(Harsh(C))
    BY <1>10, <1>11, FS_AddElement
<1>13. ~ q.extra => C = {} /\ t.at \in {"asking", "ended"}
    <2>1. CASE q.at = "lost"
        BY <1>1, <2>1 DEF Begins
    <2>2. CASE q.at = "sent"
        <3>1. t.at \in {"asking", "asking_extra"}
            BY <1>1, <1>2, <2>2, AnswersAreAwaited
        <3>2. QED
            BY <1>1, <2>2, <3>1 DEF Begins, Goes
    <2>3. QED
        BY <2>1, <2>2
<1>14. t.at = "asking" => ~ q.extra /\ q.at = "sent" /\ D = {c}
    <2>1. t.at = "asking" => ~ q.extra /\ q.at = "sent"
        BY <1>1 DEF Begins
    <2>2. QED
        BY <1>13, <2>1 DEF D
<1>15. Typed(m, t, q2, u, b, D)
    <2>1. \A d \in D : d.n \in Nat
        BY <1>7 DEF CastRecord
    <2>2. \A d \in D : d.n <= Cardinality(D)
        <3> SUFFICES ASSUME NEW d \in D PROVE d.n <= Cardinality(D)
            OBVIOUS
        <3>1. d.n \in Nat
            BY <2>1
        <3>2. CASE d = c
            BY <1>4, <1>6, <3>2
        <3>3. CASE d \in C
            <4>1. d.n <= Cardinality(C)
                BY <1>1, <3>3 DEF Typed
            <4>2. QED
                BY <1>4, <1>6, <3>1, <4>1
        <3>4. QED
            BY <1>8, <3>2, <3>3
    <2>3. \A d \in D : d.extra => d.status = "resolved"
        BY <1>1, <1>8 DEF Typed
    <2>4. QED
        BY <1>1, <1>3, <1>6, <1>7, <2>2, <2>3 DEF Typed
<1>16. Begins(t, q2, D, O)
    <2>1. t.at # "new"
        BY <1>1 DEF Begins, Chat!NoCall
    <2>2. t.at = "asking" => t.i = 1 /\ O = {}
        BY <1>1 DEF Begins
    <2>3. t.at = "asking" => /\ q2.at = "answered" /\ ~ q2.extra
                             /\ D = {c} /\ ~ c.extra /\ IsAnswer(q2.acts, c.reward)
        BY <1>3, <1>14
    <2>4. \A d, e \in D : ~ d.extra /\ ~ e.extra => d = e
        <3>1. ~ q.extra => D = {c}
            BY <1>13 DEF D
        <3>2. \A d, e \in C : ~ d.extra /\ ~ e.extra => d = e
            BY <1>1 DEF Begins
        <3>3. QED
            BY <1>8, <3>1, <3>2
    <2>5. q2.at # "lost"
        BY <1>3
    <2>6. QED
        BY <1>9, <2>1, <2>2, <2>3, <2>4, <2>5 DEF Begins
<1>17. Goes(t, q2, D, O)
    <2>1. t.at \in {"acting", "resting", "asking_extra", "extra"} => Outer(t, D)
        BY <1>1, <1>9 DEF Goes, Outer
    <2>2. t.at = "acting" =>
            /\ q2.at = "none" /\ ~ Ahead(t.acts, t.i, "dupe")
            /\ Ahead(t.acts, t.i, "points") => O = {}
        BY <1>1, <1>3 DEF Goes
    <2>3. t.at \notin {"resting", "extra"}
        BY <1>1 DEF Goes
    <2>4. t.at = "asking_extra" => t.acts[t.i].type = "dupe" /\ t.left \in 1 .. MostExtra
        BY <1>1 DEF Goes
    <2>5. t.at = "asking_extra" => q2.extra /\ q2.at = "answered" /\ Answered(q2.acts, D)
        BY <1>1, <1>3, <1>9 DEF Goes, Answered
    <2>6. t.at = "ended" => q2.at = "none"
        <3>1. t.at = "ended" => q.at = "lost"
            BY <1>1 DEF Goes
        <3>2. QED
            BY <1>3, <3>1
    <2>7. QED
        BY <2>1, <2>2, <2>3, <2>4, <2>5, <2>6 DEF Goes
<1>18. Budgeted(t, q2, D)
    <2> SUFFICES ASSUME NEW d \in D, ~ d.extra
                 PROVE  Cardinality(Extras(D)) + Owed(t, q2) <= Bound(d.reward)
        BY DEF Budgeted
    <2>1. Bound(d.reward) \in Nat
        BY <1>7, RewardAmounts, BoundIsNat DEF CastRecord
    <2>2. t.left \in Nat
        BY <1>2, HandlerTypes
    <2>3. t.at \notin {"resting", "extra"}
        BY <1>1 DEF Goes
    <2>4. CASE q.extra
        <3>1. d \in C
            BY <1>8, <2>4
        <3>2. Cardinality(Extras(C)) + Owed(t, q) <= Bound(d.reward)
            BY <1>1, <3>1 DEF Budgeted
        <3>3. CASE q.at = "lost"
            <4>1. t.at # "asking_extra"
                BY <1>1, <3>3 DEF Goes
            <4>2. Owed(t, q) = 1 /\ Owed(t, q2) = 0
                BY <1>3, <2>3, <2>4, <3>3, <4>1 DEF Owed
            <4>3. QED
                BY <1>10, <1>12, <2>4, <3>2, <4>2
        <3>4. CASE q.at = "sent"
            <4>1. t.at = "asking_extra"
                BY <1>1, <1>2, <1>14, <2>4, <3>4, AnswersAreAwaited
            <4>2. Owed(t, q) = t.left /\ Owed(t, q2) = t.left - 1
                BY <1>3, <3>4, <4>1 DEF Owed
            <4>3. QED
                BY <1>10, <1>12, <2>2, <2>4, <3>2, <4>2
        <3>5. QED
            BY <3>3, <3>4
    <2>5. CASE ~ q.extra
        <3>1. Extras(C) = {}
            BY <1>13, <2>5 DEF Extras
        <3>2. Cardinality(Extras(D)) = 0
            BY <1>12, <2>5, <3>1, FS_EmptySet
        <3>3. Owed(t, q2) = 0
            BY <1>3, <1>13, <2>5 DEF Owed
        <3>4. QED
            BY <2>1, <3>2, <3>3
    <2>6. QED
        BY <1>2, <2>4, <2>5
<1>19. Punished(t, q2, b, D)
    <2>1. Threats(t, q2) \in {0, 1} /\ Threats(t, q) \in {0, 1}
        BY ThreatsAre
    <2>2. TimeoutAhead(t, q2) => TimeoutAhead(t, q) \/ c.reward.type \in TimesOut
        <3>1. q2.at = "answered" /\ Ahead(q2.acts, 1, "timeout") => c.reward.type \in TimesOut
            BY <1>3 DEF Ahead, IsAnswer
        <3>2. QED
            BY <3>1 DEF TimeoutAhead
    <2>3. Threats(t, q2) + Cardinality(Harsh(C)) <= Threats(t, q) + Cardinality(Harsh(D))
        BY <1>10, <1>12, <2>1, <2>2, ThreatsAre
    <2>4. Cardinality(Harsh(D)) \in Nat
        BY <1>10, <1>12
    <2>5. QED
        BY <1>1, <1>2, <1>10, <2>1, <2>3, <2>4 DEF Punished
<1>20. Spared(u, b, D)
    BY <1>1, <1>8 DEF Spared, Allowed
<1>21. Paid(u, D, O)
    BY <1>1, <1>9 DEF Paid
<1>22. QED
    BY <1>1, <1>15, <1>16, <1>17, <1>18, <1>19, <1>20, <1>21 DEF MessageInv, D, q2

-----------------------------------------------------------------------------
(* The invariant *)

\* A step of one message leaves the others what they were.
LEMMA OthersStay ==
    ASSUME ChatInv, NEW m \in Messages,
           NEW STATE t2, NEW STATE q2, NEW STATE u2, NEW STATE b2,
           NEW STATE C2, NEW STATE O2, NEW STATE A2,
           command' = [command EXCEPT ![m] = t2], call' = [call EXCEPT ![m] = q2],
           by' = [by EXCEPT ![m] = u2], bans' = [bans EXCEPT ![m] = b2],
           cooling' \subseteq Users,
           casts' = casts \union C2, \A c \in C2 : c.msg = m,
           ops' = ops \union O2, \A o \in O2 : o.key[1] = m,
           announced' = announced \union A2, \A a \in A2 : a.msg = m,
           MessageInv(m, t2, q2, u2, b2, Chat!CastsOf(m) \union C2, OpsOf(m) \union O2,
                      ToldOf(m) \union A2)
    PROVE  ChatInv'
<1>1. /\ command \in [Messages -> HandlerRecord] /\ call \in [Messages -> RequestRecord]
      /\ by \in [Messages -> Users \union {None}] /\ bans \in [Messages -> Nat]
      /\ \A c \in casts : c.msg \in Messages
      /\ \A o \in ops : o.key[1] \in Messages
      /\ \A a \in announced : a.msg \in Messages
      /\ \A k \in Messages : Sound(k)
    BY DEF ChatInv
<1>2. t2 \in HandlerRecord /\ q2 \in RequestRecord /\ u2 \in Users \union {None} /\ b2 \in Nat
    BY DEF MessageInv, Typed
<1>3. /\ command' \in [Messages -> HandlerRecord] /\ call' \in [Messages -> RequestRecord]
      /\ by' \in [Messages -> Users \union {None}] /\ bans' \in [Messages -> Nat]
    BY <1>1, <1>2
<1>4. /\ \A c \in casts' : c.msg \in Messages
      /\ \A o \in ops' : o.key[1] \in Messages
      /\ \A a \in announced' : a.msg \in Messages
    BY <1>1
<1>5. Sound(m)'
    <2>1. command'[m] = t2 /\ call'[m] = q2 /\ by'[m] = u2 /\ bans'[m] = b2
        BY <1>1
    <2>2. Chat!CastsOf(m)' = Chat!CastsOf(m) \union C2
        BY DEF Chat!CastsOf
    <2>3. OpsOf(m)' = OpsOf(m) \union O2
        BY DEF OpsOf
    <2>4. ToldOf(m)' = ToldOf(m) \union A2
        BY DEF ToldOf
    <2>5. QED
        BY <2>1, <2>2, <2>3, <2>4 DEF Sound
<1>6. ASSUME NEW k \in Messages, k # m PROVE Sound(k)'
    <2>1. command'[k] = command[k] /\ call'[k] = call[k] /\ by'[k] = by[k] /\ bans'[k] = bans[k]
        BY <1>1, <1>6
    <2>2. Chat!CastsOf(k)' = Chat!CastsOf(k)
        BY <1>6 DEF Chat!CastsOf
    <2>3. OpsOf(k)' = OpsOf(k)
        BY <1>6 DEF OpsOf
    <2>4. ToldOf(k)' = ToldOf(k)
        BY <1>6 DEF ToldOf
    <2>5. Sound(k)
        BY <1>1
    <2>6. QED
        BY <2>1, <2>2, <2>3, <2>4, <2>5 DEF Sound
<1>7. QED
    BY <1>3, <1>4, <1>5, <1>6 DEF ChatInv

\* What is known of a message that is to step.
LEMMA OneMessage ==
    ASSUME ChatInv, NEW m \in Messages
    PROVE  /\ MessageInv(m, command[m], call[m], by[m], bans[m], Chat!CastsOf(m), OpsOf(m),
                         ToldOf(m))
           /\ command[m] \in HandlerRecord /\ call[m] \in RequestRecord /\ bans[m] \in Nat
           /\ command = [command EXCEPT ![m] = command[m]] /\ call = [call EXCEPT ![m] = call[m]]
           /\ by = [by EXCEPT ![m] = by[m]] /\ bans = [bans EXCEPT ![m] = bans[m]]
           /\ cooling \subseteq Users
BY DEF ChatInv, Sound

\* The same of a step that leaves the journal, the operations and what was said of them.
LEMMA BooksStay ==
    ASSUME ChatInv, NEW m \in Messages,
           NEW STATE t2, NEW STATE q2, NEW STATE u2, NEW STATE b2,
           command' = [command EXCEPT ![m] = t2], call' = [call EXCEPT ![m] = q2],
           by' = [by EXCEPT ![m] = u2], bans' = [bans EXCEPT ![m] = b2],
           cooling' \subseteq Users, UNCHANGED <<casts, ops, announced>>,
           MessageInv(m, t2, q2, u2, b2, Chat!CastsOf(m), OpsOf(m), ToldOf(m))
    PROVE  ChatInv'
<1> DEFINE new == {}
<1>1. /\ casts' = casts \union new /\ ops' = ops \union new /\ announced' = announced \union new
      /\ Chat!CastsOf(m) \union new = Chat!CastsOf(m) /\ OpsOf(m) \union new = OpsOf(m)
      /\ ToldOf(m) \union new = ToldOf(m)
    OBVIOUS
<1>2. (\A c \in new : c.msg = m) /\ (\A o \in new : o.key[1] = m)
    OBVIOUS
<1> HIDE DEF new
<1>3. MessageInv(m, t2, q2, u2, b2, Chat!CastsOf(m) \union new, OpsOf(m) \union new,
                 ToldOf(m) \union new)
    BY <1>1
<1>4. QED
    BY <1>1, <1>2, <1>3, OthersStay

LEMMA FishKeeps ==
    ASSUME Chat!ChatActionsAssumption, ChatInv, NEW m \in Messages, NEW u \in Users, Chat!Fish(m, u)
    PROVE  ChatInv'
<1> DEFINE t == [command[m] EXCEPT !.at = "asking"]
           q == [Chat!NoCall EXCEPT !.at = "sent"]
<1>1. MessageInv(m, command[m], call[m], by[m], bans[m], Chat!CastsOf(m), OpsOf(m), ToldOf(m))
    BY OneMessage
<1>2. /\ command[m].at = "new" /\ command' = [command EXCEPT ![m] = t]
      /\ call' = [call EXCEPT ![m] = q]
      /\ by' = [by EXCEPT ![m] = u] /\ UNCHANGED <<casts, ops, announced>>
    BY DEF Chat!Fish
<1>3. MessageInv(m, t, q, u, bans[m], Chat!CastsOf(m), OpsOf(m), ToldOf(m))
    BY <1>1, <1>2, IsSent
<1>4. bans' = [bans EXCEPT ![m] = bans[m]] /\ cooling' \subseteq Users
    BY OneMessage DEF Chat!Fish
<1> HIDE DEF t, q
<1>5. QED
    BY <1>2, <1>3, <1>4, BooksStay

LEMMA AskExtraKeeps ==
    ASSUME Chat!ChatActionsAssumption, ChatInv, NEW m \in Messages, Chat!AskExtra(m)
    PROVE  ChatInv'
<1> DEFINE t == [command[m] EXCEPT !.at = "asking_extra"]
           q == [Chat!NoCall EXCEPT !.at = "sent", !.extra = TRUE]
<1>1. MessageInv(m, command[m], call[m], by[m], bans[m], Chat!CastsOf(m), OpsOf(m), ToldOf(m))
    BY OneMessage
<1>2. /\ command[m].at = "resting" /\ command' = [command EXCEPT ![m] = t]
      /\ call' = [call EXCEPT ![m] = q]
      /\ UNCHANGED <<casts, ops, announced>>
    BY DEF Chat!AskExtra
<1>3. MessageInv(m, t, q, by[m], bans[m], Chat!CastsOf(m), OpsOf(m), ToldOf(m))
    BY <1>1, <1>2, AsksExtra
<1>4. /\ bans' = [bans EXCEPT ![m] = bans[m]] /\ by' = [by EXCEPT ![m] = by[m]]
      /\ cooling' \subseteq Users
    BY OneMessage DEF Chat!AskExtra
<1> HIDE DEF t, q
<1>5. QED
    BY <1>2, <1>3, <1>4, BooksStay

LEMMA AnswerKeeps ==
    ASSUME Chat!ChatActionsAssumption, ChatInv, NEW m \in Messages, Chat!Answer(m)
    PROVE  ChatInv'
<1> DEFINE t == IF command[m].at = "asking"
                THEN [command[m] EXCEPT !.at = "acting", !.acts = call[m].acts]
                ELSE [command[m] EXCEPT !.at = "extra", !.inner = call[m].acts, !.j = 1]
<1>1. MessageInv(m, command[m], call[m], by[m], bans[m], Chat!CastsOf(m), OpsOf(m), ToldOf(m))
    BY OneMessage
<1>2. /\ call[m].at = "answered" /\ command' = [command EXCEPT ![m] = t]
      /\ call' = [call EXCEPT ![m] = Chat!NoCall] /\ UNCHANGED <<casts, ops, announced>>
    BY DEF Chat!Answer
<1>3. MessageInv(m, t, Chat!NoCall, by[m], bans[m], Chat!CastsOf(m), OpsOf(m), ToldOf(m))
    BY <1>1, <1>2, TakesAnswer
<1>4. /\ bans' = [bans EXCEPT ![m] = bans[m]] /\ by' = [by EXCEPT ![m] = by[m]]
      /\ cooling' \subseteq Users
    BY OneMessage DEF Chat!Answer
<1> HIDE DEF t
<1>5. QED
    BY <1>2, <1>3, <1>4, BooksStay

LEMMA FailKeeps ==
    ASSUME Chat!ChatActionsAssumption, ChatInv, NEW m \in Messages, Chat!Fail(m)
    PROVE  ChatInv'
<1>1. MessageInv(m, command[m], call[m], by[m], bans[m], Chat!CastsOf(m), OpsOf(m), ToldOf(m))
    BY OneMessage
<1>2. PICK t \in {Chat!AfterFailure(command[m]), Chat!Over} :
        /\ call[m].at = "sent" /\ command' = [command EXCEPT ![m] = t]
        /\ UNCHANGED <<casts, ops, announced>>
    BY DEF Chat!Fail
<1>3. \E late \in BOOLEAN :
          call' = [call EXCEPT ![m] = IF late THEN [@ EXCEPT !.at = "lost"] ELSE Chat!NoCall]
    BY DEF Chat!Fail
<1>4. PICK q \in Abandoned(call[m]) : call' = [call EXCEPT ![m] = q]
    BY <1>3 DEF Abandoned
<1>5. MessageInv(m, t, q, by[m], bans[m], Chat!CastsOf(m), OpsOf(m), ToldOf(m))
    BY <1>1, <1>2, <1>4, GivesUp
<1>6. /\ bans' = [bans EXCEPT ![m] = bans[m]] /\ by' = [by EXCEPT ![m] = by[m]]
      /\ cooling' \subseteq Users
    BY OneMessage DEF Chat!Fail
<1>7. QED
    BY <1>2, <1>4, <1>5, <1>6, BooksStay

LEMMA SayKeeps ==
    ASSUME Chat!ChatActionsAssumption, ChatInv, NEW m \in Messages, Chat!Say(m)
    PROVE  ChatInv'
<1>1. MessageInv(m, command[m], call[m], by[m], bans[m], Chat!CastsOf(m), OpsOf(m), ToldOf(m))
    BY OneMessage
<1>2. PICK t \in Ways(command[m]) :
        /\ command[m].at \in {"acting", "extra"} /\ command' = [command EXCEPT ![m] = t]
        /\ UNCHANGED <<casts, ops, announced>>
    BY DEF Chat!Say, Chat!Performing, Chat!Move, Chat!Breaks, Ways
<1>3. /\ Spared(by[m], bans[m], Chat!CastsOf(m)) /\ Paid(by[m], Chat!CastsOf(m), OpsOf(m))
      /\ Honest(by[m], OpsOf(m), ToldOf(m)) /\ bans[m] \in Nat
    BY <1>1, OneMessage DEF MessageInv
<1>4. MessageInv(m, t, call[m], by[m], bans[m], Chat!CastsOf(m), OpsOf(m), ToldOf(m))
    BY <1>1, <1>2, <1>3, MovesOn
<1>5. /\ bans' = [bans EXCEPT ![m] = bans[m]] /\ by' = [by EXCEPT ![m] = by[m]]
      /\ call' = [call EXCEPT ![m] = call[m]] /\ cooling' \subseteq Users
    BY OneMessage DEF Chat!Say
<1>6. QED
    BY <1>2, <1>4, <1>5, BooksStay

LEMMA DupeKeeps ==
    ASSUME Chat!ChatActionsAssumption, ChatInv, NEW m \in Messages, Chat!Dupe(m)
    PROVE  ChatInv'
<1> DEFINE t == IF Chat!AllowsDupe(command[m])
                THEN [command[m] EXCEPT !.at = "resting",
                                        !.left = Chat!Extra(Chat!At(command[m]).amount)]
                ELSE Chat!Performed(command[m])
<1>1. MessageInv(m, command[m], call[m], by[m], bans[m], Chat!CastsOf(m), OpsOf(m), ToldOf(m))
    BY OneMessage
<1>2. /\ command[m].at \in {"acting", "extra"} /\ Chat!At(command[m]).type = "dupe"
      /\ command' = [command EXCEPT ![m] = t] /\ UNCHANGED <<casts, ops, announced>>
    BY DEF Chat!Dupe, Chat!Performing
<1>3. /\ Spared(by[m], bans[m], Chat!CastsOf(m)) /\ Paid(by[m], Chat!CastsOf(m), OpsOf(m))
      /\ Honest(by[m], OpsOf(m), ToldOf(m)) /\ bans[m] \in Nat
    BY <1>1, OneMessage DEF MessageInv
<1>4. MessageInv(m, Chat!Performed(command[m]), call[m], by[m], bans[m], Chat!CastsOf(m),
                 OpsOf(m), ToldOf(m))
    BY <1>1, <1>2, <1>3, MovesOn DEF Ways
<1>5. MessageInv(m, t, call[m], by[m], bans[m], Chat!CastsOf(m), OpsOf(m), ToldOf(m))
    BY <1>1, <1>2, <1>4, Duplicates DEF Chat!AllowsDupe
<1>6. /\ bans' = [bans EXCEPT ![m] = bans[m]] /\ by' = [by EXCEPT ![m] = by[m]]
      /\ call' = [call EXCEPT ![m] = call[m]] /\ cooling' \subseteq Users
    BY OneMessage DEF Chat!Dupe
<1> HIDE DEF t
<1>7. QED
    BY <1>2, <1>5, <1>6, BooksStay

LEMMA TimeOutKeeps ==
    ASSUME Chat!ChatActionsAssumption, ChatInv, NEW m \in Messages, Chat!TimeOutViewer(m)
    PROVE  ChatInv'
<1>1. MessageInv(m, command[m], call[m], by[m], bans[m], Chat!CastsOf(m), OpsOf(m), ToldOf(m))
    BY OneMessage
<1>2. PICK t \in Ways(command[m]) :
        /\ command[m].at \in {"acting", "extra"} /\ Chat!At(command[m]).type = "timeout"
        /\ command' = [command EXCEPT ![m] = t] /\ UNCHANGED <<casts, ops, announced>>
    BY DEF Chat!TimeOutViewer, Chat!Performing, Chat!Move, Chat!Breaks, Ways
<1>3. bans[m] \in Nat /\ bans[m] + 1 \in Nat
    BY OneMessage
<1>4. PICK b : /\ bans' = [bans EXCEPT ![m] = b]
               /\ b = bans[m] \/ (b = bans[m] + 1 /\ by[m] \notin Mods)
    <2>1. PICK first \in Chat!Outcomes(by[m]) \union {"moderated"} :
              \E last \in IF Chat!TriesAgain(first) THEN Chat!Outcomes(by[m]) ELSE {first} :
                  bans' = [bans EXCEPT ![m] = @ + Chat!Applied(last)
                               + (IF Chat!TriesAgain(first) THEN Chat!Applied(first) ELSE 0)]
        BY DEF Chat!TimeOutViewer
    <2>2. PICK last \in IF Chat!TriesAgain(first) THEN Chat!Outcomes(by[m]) ELSE {first} :
              bans' = [bans EXCEPT ![m] = bans[m] + Chat!Applied(last)
                           + (IF Chat!TriesAgain(first) THEN Chat!Applied(first) ELSE 0)]
        BY <2>1
    <2>3. (IF Chat!TriesAgain(first) THEN Chat!Applied(first) ELSE 0) = 0
        BY DEF Chat!TriesAgain, Chat!Applied
    <2>4. last \in Chat!Outcomes(by[m])
        BY DEF Chat!TriesAgain
    <2>5. Chat!Applied(last) = 0 \/ (Chat!Applied(last) = 1 /\ by[m] \notin Mods)
        BY <2>4 DEF Chat!Outcomes, Chat!Applied
    <2>6. bans' = [bans EXCEPT ![m] = bans[m] + Chat!Applied(last) + 0]
        BY <2>2, <2>3
    <2>7. \/ bans[m] + Chat!Applied(last) + 0 = bans[m]
          \/ bans[m] + Chat!Applied(last) + 0 = bans[m] + 1 /\ by[m] \notin Mods
        BY <1>3, <2>5
    <2>8. QED
        BY <2>6, <2>7
<1>5. b \in Nat
    BY <1>3, <1>4
<1>6. /\ Spared(by[m], bans[m], Chat!CastsOf(m)) /\ Paid(by[m], Chat!CastsOf(m), OpsOf(m))
      /\ Honest(by[m], OpsOf(m), ToldOf(m))
    BY <1>1 DEF MessageInv
<1>7. Spared(by[m], b, Chat!CastsOf(m))
    BY <1>4, <1>6 DEF Spared
<1>8. MessageInv(m, t, call[m], by[m], b, Chat!CastsOf(m), OpsOf(m), ToldOf(m))
    BY <1>1, <1>2, <1>4, <1>5, <1>6, <1>7, MovesOn
<1>9. /\ by' = [by EXCEPT ![m] = by[m]] /\ call' = [call EXCEPT ![m] = call[m]]
      /\ cooling' \subseteq Users
    BY OneMessage DEF Chat!TimeOutViewer
<1>10. QED
    BY <1>2, <1>4, <1>8, <1>9, BooksStay

LEMMA PoolIsAllowed ==
    ASSUME NEW u, NEW r \in Chat!Pool(u)
    PROVE  r \in AllRewards /\ Allowed(u, r)
BY DEF Chat!Pool, AllRewards, Allowed, Chat!CanTimeOut, Chat!Nothing

LEMMA CastKeeps ==
    ASSUME Chat!ChatActionsAssumption, ChatInv, NEW m \in Messages, Chat!Cast(m)
    PROVE  ChatInv'
<1> DEFINE journalled(status, r) ==
               [msg |-> m, n |-> Cardinality(Chat!CastsOf(m)) + 1, user |-> by[m],
                extra |-> call[m].extra, status |-> status, reward |-> r]
           answered(acts) == IF call[m].at = "lost" THEN Chat!NoCall
                             ELSE [call[m] EXCEPT !.at = "answered", !.acts = acts]
<1>1. MessageInv(m, command[m], call[m], by[m], bans[m], Chat!CastsOf(m), OpsOf(m), ToldOf(m))
    BY OneMessage
<1>2. /\ call[m].at \in {"sent", "lost"} /\ call[m].extra \in BOOLEAN
      /\ UNCHANGED <<by, command, ops, bans, announced>>
    BY OneMessage DEF Chat!Cast, RequestRecord
<1>3. by[m] \in Users /\ Cardinality(Chat!CastsOf(m)) + 1 \in Nat
    <2>1. command[m].at # "new"
        BY <1>1, <1>2 DEF MessageInv, Begins, Chat!NoCall
    <2>2. Cardinality(Chat!CastsOf(m)) \in Nat
        BY <1>1, FS_CardinalityType DEF MessageInv, Typed
    <2>3. QED
        BY <1>1, <2>1, <2>2 DEF MessageInv, Typed
<1>4. PICK status \in Statuses, r \in AllRewards, acts \in Seq(ActionRecord) :
          /\ IsAnswer(acts, r) /\ Allowed(by[m], r) /\ (call[m].extra => status = "resolved")
          /\ casts' = casts \union {journalled(status, r)}
          /\ call' = [call EXCEPT ![m] = answered(acts)]
          /\ cooling' \subseteq Users
    <2>1. cooling \subseteq Users
        BY OneMessage
    <2>2. CASE by[m] \in cooling /\ ~ Chat!Bypasses(call[m])
        <3>1. /\ casts' = casts \union {journalled("cooldown_rejected", Chat!Nothing)}
              /\ call' = [call EXCEPT ![m] = answered(<<Chat!Basic(Chat!Nothing)>>)]
              /\ cooling' = cooling
            BY <2>2, SameCount DEF Chat!Cast
        <3>2. Chat!Nothing \in AllRewards /\ Allowed(by[m], Chat!Nothing)
            BY DEF AllRewards, Allowed, Chat!Nothing
        <3>3. IsAnswer(<<Chat!Basic(Chat!Nothing)>>, Chat!Nothing)
            <4>1. Chat!Nothing.amount \in Int
                BY DEF Chat!Nothing
            <4>2. QED
                BY <4>1, Shapes DEF Chat!Basic
        <3>4. ~ call[m].extra
            BY <2>2 DEF Chat!Bypasses
        <3>5. QED
            BY <2>1, <3>1, <3>2, <3>3, <3>4 DEF Statuses, IsAnswer
    <2>3. CASE ~ (by[m] \in cooling /\ ~ Chat!Bypasses(call[m]))
        <3>1. PICK r \in Chat!Pool(by[m]) : \E acts \in Chat!Presented(r) :
                  /\ casts' = casts \union {journalled("resolved", r)}
                  /\ call' = [call EXCEPT ![m] = answered(acts)]
                  /\ cooling' = IF Chat!Bypasses(call[m]) THEN cooling ELSE cooling \union {by[m]}
            BY <2>3, SameCount DEF Chat!Cast
        <3>2. r \in AllRewards /\ Allowed(by[m], r) /\ r.amount \in Int
            BY PoolIsAllowed, RewardAmounts
        <3>3. \A acts \in Chat!Presented(r) : IsAnswer(acts, r)
            BY <3>2, PresentedAnswers
        <3>4. cooling' \subseteq Users
            BY <1>3, <2>1, <3>1
        <3>5. QED
            BY <3>1, <3>2, <3>3, <3>4 DEF Statuses, IsAnswer
    <2>4. QED
        BY <2>2, <2>3
<1> DEFINE c == journalled(status, r)
<1>5. /\ c \in CastRecord(m) /\ c.n = Cardinality(Chat!CastsOf(m)) + 1 /\ c.extra = call[m].extra
      /\ c.user = by[m] /\ c.status = status /\ c.reward = r /\ c.msg = m
    BY <1>2, <1>3 DEF CastRecord
<1>6. casts' = casts \union {c}
    BY <1>4
<1> HIDE DEF c
<1>7. MessageInv(m, command[m], answered(acts), by[m], bans[m], Chat!CastsOf(m) \union {c},
                 OpsOf(m), ToldOf(m))
    BY <1>1, <1>2, <1>4, <1>5, IsCast
<1>8. /\ command' = [command EXCEPT ![m] = command[m]] /\ by' = [by EXCEPT ![m] = by[m]]
      /\ bans' = [bans EXCEPT ![m] = bans[m]]
    BY <1>2, OneMessage
<1> DEFINE q == answered(acts)
           C2 == {c}
           new == {}
<1>9. /\ call' = [call EXCEPT ![m] = q] /\ cooling' \subseteq Users
      /\ casts' = casts \union C2 /\ \A k \in C2 : k.msg = m
    BY <1>4, <1>5, <1>6
<1>10. /\ ops' = ops \union new /\ announced' = announced \union new
       /\ (\A o \in new : o.key[1] = m) /\ (\A a \in new : a.msg = m)
    BY <1>2
<1>11. MessageInv(m, command[m], q, by[m], bans[m], Chat!CastsOf(m) \union C2, OpsOf(m) \union new,
                  ToldOf(m) \union new)
    <2>1. OpsOf(m) \union new = OpsOf(m) /\ ToldOf(m) \union new = ToldOf(m)
        OBVIOUS
    <2>2. QED
        BY <1>7, <2>1
<1> HIDE DEF q, C2, new
<1>12. QED
    BY <1>8, <1>9, <1>10, <1>11, OthersStay

LEMMA GivePointsKeeps ==
    ASSUME Chat!ChatActionsAssumption, ChatInv, NEW m \in Messages, Chat!GivePoints(m)
    PROVE  ChatInv'
<1> DEFINE t == command[m]
           u == by[m]
           C == Chat!CastsOf(m)
           O == OpsOf(m)
           A == ToldOf(m)
           amount == Chat!At(t).amount
           op == [key |-> Chat!Key(m), user |-> u, amount |-> amount]
           told == [msg |-> m, extra |-> t.at = "extra", user |-> u, amount |-> amount]
           new == IF \E o \in ops : o.key = Chat!Key(m) THEN {} ELSE {op}
           order == Chat!Queued(Chat!Key(m), u, amount)
<1>1. MessageInv(m, t, call[m], u, bans[m], C, O, A)
    BY OneMessage
<1>2. PICK t2 \in Ways(t) :
        /\ t.at \in {"acting", "extra"} /\ Chat!At(t).type = "points"
        /\ command' = [command EXCEPT ![m] = t2]
        /\ UNCHANGED <<by, call, cooling, casts, bans>>
    BY DEF Chat!GivePoints, Chat!Performing, Chat!Move, Chat!Breaks, Ways
<1>3. order = ops \union new
    BY DEF Chat!Queued
<1>4. \A o \in new : o.key[1] = m /\ o = op
    BY DEF Chat!Key
<1>5. (\E o \in ops : o.key = Chat!Key(m)) => \E o \in O : o.key = Chat!Key(m)
    BY DEF OpsOf, Chat!Key
<1>6. \E c \in C : c.reward.type = "points" /\ c.reward.amount = amount
    <2>1. Goes(t, call[m], C, O)
        BY <1>1 DEF MessageInv
    <2>2. CASE t.at = "acting"
        BY <1>2, <2>1, <2>2 DEF Goes, Outer, Chat!At, IsAnswer
    <2>3. CASE t.at = "extra"
        BY <1>2, <2>1, <2>3 DEF Goes, Answered, Chat!At, IsAnswer
    <2>4. QED
        BY <1>2, <2>2, <2>3
<1>7. t.at = "acting" => O = {}
    <2> SUFFICES ASSUME t.at = "acting" PROVE O = {}
        OBVIOUS
    <2>1. /\ Goes(t, call[m], C, O) /\ t.i \in 1 .. Len(t.acts) /\ t.i \in Nat
          /\ t \in HandlerRecord
        BY <1>1, HandlerTypes DEF MessageInv, Typed, Goes, Outer
    <2>2. Ahead(t.acts, t.i, "points")
        BY <1>2, <2>1 DEF Ahead, Chat!At
    <2>3. QED
        BY <2>1, <2>2 DEF Goes
<1>8. op.user = u /\ op.amount = amount
    OBVIOUS
<1>9. told.msg = m /\ told.user = u /\ told.amount = amount /\ (~ told.extra => t.at = "acting")
    BY <1>2
<1>10. /\ Spared(u, bans[m], C) /\ Paid(u, C, O) /\ Honest(u, O, A) /\ bans[m] \in Nat
    BY <1>1, OneMessage DEF MessageInv
<1>11. new = {op} \/ \E o \in O : o.key = Chat!Key(m)
    BY <1>5
<1>12. PICK O2, A2 :
           /\ ops' = ops \union O2 /\ announced' = announced \union A2
           /\ O2 \in {{}, new} /\ A2 \in {{}, {told}}
           /\ A2 # {} => O2 = new
    <2>1. \/ ops' = order /\ announced' = announced \union {told}
          \/ ops' \in {ops, order} /\ announced' = announced
        BY DEF Chat!GivePoints
    <2>2. ops = ops \union {} /\ announced = announced \union {}
        OBVIOUS
    <2> HIDE DEF order, new, told
    <2>3. QED
        BY <1>3, <2>1, <2>2
<1> HIDE DEF op, told, new, order, amount, t, u, C, O, A
<1>13. (\A o \in O2 : o.key[1] = m /\ o = op) /\ (\A a \in A2 : a.msg = m /\ a = told)
    BY <1>4, <1>9, <1>12
<1>14. Paid(u, C, O \union O2)
    BY <1>6, <1>8, <1>10, <1>13 DEF Paid
<1>15. Honest(u, O \union O2, A \union A2)
    <2> SUFFICES ASSUME NEW a \in A \union A2
                 PROVE  a.user = u /\ \E o \in O \union O2 : ~ a.extra => o.amount = a.amount
        BY DEF Honest
    <2>1. CASE a \in A
        BY <1>10, <2>1 DEF Honest
    <2>2. CASE a \in A2
        <3>1. a = told /\ O2 = new
            BY <1>12, <1>13, <2>2
        <3>2. CASE new = {op}
            BY <1>8, <1>9, <3>1, <3>2
        <3>3. CASE new # {op}
            <4>1. O # {}
                BY <1>11, <3>3
            <4>2. a.extra
                BY <1>7, <1>9, <3>1, <4>1
            <4>3. QED
                BY <1>9, <3>1, <4>1, <4>2
        <3>4. QED
            BY <3>2, <3>3
    <2>3. QED
        BY <2>1, <2>2
<1>16. Chat!At(t).type = "points"
    BY <1>2
<1>17. MessageInv(m, t2, call[m], u, bans[m], C, O \union O2, A \union A2)
    BY <1>1, <1>2, <1>10, <1>14, <1>15, <1>16, MovesOn
<1>18. /\ call' = [call EXCEPT ![m] = call[m]] /\ by' = [by EXCEPT ![m] = u]
       /\ bans' = [bans EXCEPT ![m] = bans[m]] /\ cooling' \subseteq Users
    BY <1>2, OneMessage DEF u
<1> DEFINE new2 == {}
<1>19. casts' = casts \union new2 /\ (\A c \in new2 : c.msg = m)
    BY <1>2
<1>20. MessageInv(m, t2, call[m], u, bans[m], Chat!CastsOf(m) \union new2, OpsOf(m) \union O2,
                  ToldOf(m) \union A2)
    <2>1. C = Chat!CastsOf(m) \union new2 /\ O = OpsOf(m) /\ A = ToldOf(m)
        BY DEF C, O, A
    <2>2. QED
        BY <1>17, <2>1
<1>21. command' = [command EXCEPT ![m] = t2]
    BY <1>2
<1> HIDE DEF new2
<1>22. QED
    BY <1>12, <1>13, <1>18, <1>19, <1>20, <1>21, OthersStay

LEMMA CoolDownKeeps ==
    ASSUME ChatInv, NEW u \in Users, Chat!CoolDown(u)
    PROVE  ChatInv'
<1>1. UNCHANGED <<by, command, call, casts, ops, bans, announced>> /\ cooling' \subseteq Users
    BY DEF ChatInv, Chat!CoolDown
<1>2. \A m \in Messages : Sound(m)'
    BY <1>1 DEF ChatInv, Sound, Chat!CastsOf, OpsOf, ToldOf
<1>3. QED
    BY <1>1, <1>2 DEF ChatInv

LEMMA ChatInit ==
    ASSUME Chat!ChatActionsAssumption, Chat!Init
    PROVE  ChatInv
<1>1. <<>> \in Seq(ActionRecord)
    OBVIOUS
<1>2. Chat!NoTask \in HandlerRecord /\ Chat!NoTask.at = "new"
    BY <1>1 DEF Chat!NoTask, HandlerRecord
<1>3. Chat!NoCall \in RequestRecord /\ Chat!NoCall.at = "none" /\ ~ Chat!NoCall.extra
    BY <1>1 DEF Chat!NoCall, RequestRecord
<1>4. ASSUME NEW m \in Messages
      PROVE  MessageInv(m, Chat!NoTask, Chat!NoCall, None, 0, {}, {}, {})
    <2>1. Extras({}) = {} /\ Harsh({}) = {} /\ IsFiniteSet({}) /\ Cardinality({}) = 0
        BY FS_EmptySet DEF Extras, Harsh
    <2>2. ~ TimeoutAhead(Chat!NoTask, Chat!NoCall)
        BY <1>2, <1>3 DEF TimeoutAhead
    <2>3. Threats(Chat!NoTask, Chat!NoCall) = 0
        BY <2>2, ThreatsAre
    <2>4. /\ Typed(m, Chat!NoTask, Chat!NoCall, None, 0, {})
          /\ Begins(Chat!NoTask, Chat!NoCall, {}, {})
        BY <1>2, <1>3, <2>1 DEF Typed, Begins
    <2>5. Goes(Chat!NoTask, Chat!NoCall, {}, {}) /\ Budgeted(Chat!NoTask, Chat!NoCall, {})
        BY <1>2, <1>3 DEF Goes, Budgeted
    <2>6. Punished(Chat!NoTask, Chat!NoCall, 0, {})
        BY <2>1, <2>3 DEF Punished
    <2>7. Spared(None, 0, {}) /\ Paid(None, {}, {}) /\ Honest(None, {}, {})
        BY DEF Spared, Paid, Honest
    <2>8. QED
        BY <2>4, <2>5, <2>6, <2>7 DEF MessageInv
<1>5. ASSUME NEW m \in Messages PROVE Sound(m)
    <2>1. /\ command[m] = Chat!NoTask /\ call[m] = Chat!NoCall /\ by[m] = None /\ bans[m] = 0
          /\ Chat!CastsOf(m) = {} /\ OpsOf(m) = {} /\ ToldOf(m) = {}
        BY DEF Chat!Init, Chat!CastsOf, OpsOf, ToldOf
    <2>2. QED
        BY <1>4, <2>1 DEF Sound
<1>6. QED
    BY <1>2, <1>3, <1>5 DEF ChatInv, Chat!Init

LEMMA ChatStep ==
    ASSUME Chat!ChatActionsAssumption, ChatInv, [Chat!Next]_(Chat!vars)
    PROVE  ChatInv'
<1>1. ASSUME NEW m \in Messages, NEW u \in Users, Chat!Fish(m, u) PROVE ChatInv'
    BY <1>1, FishKeeps
<1>2. ASSUME NEW m \in Messages, Chat!Cast(m) PROVE ChatInv'
    BY <1>2, CastKeeps
<1>3. ASSUME NEW m \in Messages, Chat!AskExtra(m) PROVE ChatInv'
    BY <1>3, AskExtraKeeps
<1>4. ASSUME NEW m \in Messages, Chat!Answer(m) PROVE ChatInv'
    BY <1>4, AnswerKeeps
<1>5. ASSUME NEW m \in Messages, Chat!Fail(m) PROVE ChatInv'
    BY <1>5, FailKeeps
<1>6. ASSUME NEW m \in Messages, Chat!Say(m) PROVE ChatInv'
    BY <1>6, SayKeeps
<1>7. ASSUME NEW m \in Messages, Chat!GivePoints(m) PROVE ChatInv'
    BY <1>7, GivePointsKeeps
<1>8. ASSUME NEW m \in Messages, Chat!TimeOutViewer(m) PROVE ChatInv'
    BY <1>8, TimeOutKeeps
<1>9. ASSUME NEW m \in Messages, Chat!Dupe(m) PROVE ChatInv'
    BY <1>9, DupeKeeps
<1>10. ASSUME NEW u \in Users, Chat!CoolDown(u) PROVE ChatInv'
    BY <1>10, CoolDownKeeps
<1>11. CASE UNCHANGED Chat!vars
    BY <1>11 DEF Chat!vars, ChatInv, Sound, Chat!CastsOf, OpsOf, ToldOf
<1>12. QED
    BY <1>1, <1>2, <1>3, <1>4, <1>5, <1>6, <1>7, <1>8, <1>9, <1>10, <1>11 DEF Chat!Next

LEMMA ChatHoldsInv ==
    ASSUME Chat!ChatActionsAssumption
    PROVE  Chat!Spec => []ChatInv
<1>1. Chat!Init => ChatInv
    BY ChatInit
<1>2. ASSUME ChatInv, [Chat!Next]_(Chat!vars) PROVE ChatInv'
    BY <1>2, ChatStep
<1>3. QED
    BY <1>1, <1>2, PTL DEF Chat!Spec

\* Handlers, requests and cooldowns have their types: an action is one of the four
\* kinds, and a handler that makes extra casts has 1 to MostExtra left.
THEOREM ChatTypeCorrect ==
    ASSUME Chat!ChatActionsAssumption
    PROVE  Chat!Spec => []Chat!TypeOK
<1>1. ChatInv => Chat!TypeOK
    <2> SUFFICES ASSUME ChatInv PROVE Chat!TypeOK
        OBVIOUS
    <2>1. ASSUME NEW m \in Messages
          PROVE  /\ by[m] \in Users \union {None}
                 /\ call[m].at \in {"none", "sent", "lost", "answered"}
                 /\ command[m].at \in
                        {"new", "asking", "acting", "resting", "asking_extra", "extra", "ended"}
                 /\ command[m].at \in {"acting", "extra"} =>
                        Chat!At(command[m]).type \in {"say", "points", "timeout", "dupe"}
                 /\ command[m].at \in {"resting", "asking_extra", "extra"} =>
                        command[m].left \in 1 .. MostExtra
        <3> DEFINE t == command[m]
                   q == call[m]
        <3>1. /\ Typed(m, t, q, by[m], bans[m], Chat!CastsOf(m))
              /\ Goes(t, q, Chat!CastsOf(m), OpsOf(m))
              /\ t \in HandlerRecord /\ q \in RequestRecord
            BY OneMessage DEF MessageInv
        <3>2. t.acts \in Seq(ActionRecord) /\ t.inner \in Seq(ActionRecord)
            BY <3>1, HandlerTypes
        <3>3. /\ t.at = "acting" => t.i \in 1 .. Len(t.acts)
              /\ t.at = "extra" => t.j \in 1 .. Len(t.inner)
            BY <3>1 DEF Goes, Outer
        <3>4. t.at \in {"acting", "extra"} => Chat!At(t) \in ActionRecord
            BY <3>2, <3>3 DEF Chat!At
        <3>5. \A a \in ActionRecord : a.type \in {"say", "points", "timeout", "dupe"}
            BY DEF ActionRecord
        <3>6. t.at \in {"resting", "asking_extra", "extra"} => t.left \in 1 .. MostExtra
            BY <3>1 DEF Goes
        <3>7. by[m] \in Users \union {None}
            BY <3>1 DEF Typed
        <3>8. /\ q.at \in {"none", "sent", "lost", "answered"}
              /\ t.at \in {"new", "asking", "acting", "resting", "asking_extra", "extra", "ended"}
            BY <3>1 DEF HandlerRecord, RequestRecord
        <3>9. QED
            BY <3>4, <3>5, <3>6, <3>7, <3>8
    <2>2. cooling \subseteq Users
        BY DEF ChatInv
    <2>3. QED
        BY <2>1, <2>2 DEF Chat!TypeOK
<1>2. QED
    BY <1>1, ChatHoldsInv, PTL

\* A message never brings more extra casts than its own reward says, and none unless
\* that is a dupe, whichever answers are lost: extra casts do not duplicate themselves.
THEOREM ExtraCastsAreBounded ==
    ASSUME Chat!ChatActionsAssumption
    PROVE  Chat!Spec => []Chat!DupeIsBounded
<1>1. ChatInv => Chat!DupeIsBounded
    <2> SUFFICES ASSUME ChatInv, NEW c \in casts, ~ c.extra
                 PROVE  Cardinality({d \in casts : d.msg = c.msg /\ d.extra})
                            <= (IF c.reward.type # "dupe" THEN 0
                                ELSE IF c.reward.amount > MostExtra THEN MostExtra
                                ELSE IF c.reward.amount < 1 THEN 1 ELSE c.reward.amount)
        BY SameCount DEF Chat!DupeIsBounded
    <2> DEFINE m == c.msg
               C == Chat!CastsOf(m)
    <2>1. m \in Messages /\ c \in C
        BY DEF ChatInv, Chat!CastsOf
    <2>2. {d \in casts : d.msg = m /\ d.extra} = Extras(C)
        BY DEF Chat!CastsOf, Extras
    <2>3. MessageInv(m, command[m], call[m], by[m], bans[m], C, OpsOf(m), ToldOf(m))
        BY <2>1, OneMessage
    <2>4. Cardinality(Extras(C)) + Owed(command[m], call[m]) <= Bound(c.reward)
        BY <2>1, <2>3 DEF MessageInv, Budgeted
    <2>5. Owed(command[m], call[m]) \in Nat
        <3>1. command[m].left \in Nat
            BY <2>1, OneMessage, HandlerTypes
        <3>2. command[m].at \in {"resting", "asking_extra", "extra"} =>
                  command[m].left \in 1 .. MostExtra
            BY <2>3 DEF MessageInv, Goes
        <3>3. command[m].at \in {"resting", "asking_extra", "extra"} => command[m].left >= 1
            BY <3>2 DEF Chat!ChatActionsAssumption
        <3>4. QED
            BY <3>1, <3>3, OwedIsNat
    <2>6. Cardinality(Extras(C)) \in Nat
        BY <2>3, PartsAreFinite DEF MessageInv, Typed
    <2>7. c.reward.amount \in Int /\ Bound(c.reward) \in Nat
        BY <2>1, <2>3, RewardAmounts, BoundIsNat DEF MessageInv, Typed, CastRecord
    <2>8. Bound(c.reward) = (IF c.reward.type # "dupe" THEN 0
                             ELSE IF c.reward.amount > MostExtra THEN MostExtra
                             ELSE IF c.reward.amount < 1 THEN 1 ELSE c.reward.amount)
        BY <2>7 DEF Chat!ChatActionsAssumption, Bound, Chat!Extra
    <2>9. Cardinality(Extras(C)) <= Bound(c.reward)
        BY <2>4, <2>5, <2>6, <2>7
    <2>10. QED
        BY <2>2, <2>8, <2>9
<1>2. QED
    BY <1>1, ChatHoldsInv, PTL

\* No extra cast is refused for a cooldown.
THEOREM ExtraCastsAlwaysCatch ==
    ASSUME Chat!ChatActionsAssumption
    PROVE  Chat!Spec => []Chat!ExtraCastsCatch
<1>1. ChatInv => Chat!ExtraCastsCatch
    <2> SUFFICES ASSUME ChatInv, NEW c \in casts, c.extra PROVE c.status = "resolved"
        BY DEF Chat!ExtraCastsCatch
    <2>1. c.msg \in Messages /\ c \in Chat!CastsOf(c.msg)
        BY DEF ChatInv, Chat!CastsOf
    <2>2. QED
        BY <2>1, OneMessage DEF MessageInv, Typed
<1>2. QED
    BY <1>1, ChatHoldsInv, PTL

\* The chat is told of no points but those the viewer is owed.
THEOREM NothingIsPromisedInVain ==
    ASSUME Chat!ChatActionsAssumption
    PROVE  Chat!Spec => []Chat!AnnouncedIsOwed
<1>1. ChatInv => Chat!AnnouncedIsOwed
    <2> SUFFICES ASSUME ChatInv, NEW a \in announced
                 PROVE  \E o \in ops :
                            /\ o.user = a.user
                            /\ \E c \in casts : /\ c.msg = a.msg /\ c.reward.type = "points"
                                                /\ c.reward.amount = o.amount
                            /\ o.key[1] = a.msg
                            /\ ~ a.extra => o.amount = a.amount
        BY DEF Chat!AnnouncedIsOwed
    <2>1. a.msg \in Messages /\ a \in ToldOf(a.msg)
        BY DEF ChatInv, ToldOf
    <2>2. /\ Paid(by[a.msg], Chat!CastsOf(a.msg), OpsOf(a.msg))
          /\ Honest(by[a.msg], OpsOf(a.msg), ToldOf(a.msg))
        BY <2>1, OneMessage DEF MessageInv
    <2>3. PICK o \in OpsOf(a.msg) : ~ a.extra => o.amount = a.amount
        BY <2>1, <2>2 DEF Honest
    <2>4. a.user = by[a.msg] /\ o.user = by[a.msg]
        BY <2>1, <2>2 DEF Honest, Paid
    <2>5. \E c \in Chat!CastsOf(a.msg) : c.reward.type = "points" /\ c.reward.amount = o.amount
        BY <2>2 DEF Paid
    <2>6. QED
        BY <2>3, <2>4, <2>5 DEF OpsOf, Chat!CastsOf
<1>2. QED
    BY <1>1, ChatHoldsInv, PTL

\* A viewer is timed out at most once for each cast that may bring a timeout, also when
\* Twitch applies one without saying so.
THEOREM TimeoutsAreEarned ==
    ASSUME Chat!ChatActionsAssumption
    PROVE  Chat!Spec => []Chat!OneTimeoutEach
<1>1. ChatInv => Chat!OneTimeoutEach
    <2> SUFFICES ASSUME ChatInv, NEW m \in Messages
                 PROVE  bans[m] <= Cardinality({c \in casts : c.msg = m /\
                            c.reward.type \in {"timeout", "roulette", "robbery"}})
        BY SameCount DEF Chat!OneTimeoutEach
    <2>1. Harsh(Chat!CastsOf(m)) = {c \in casts : c.msg = m /\
              c.reward.type \in {"timeout", "roulette", "robbery"}}
        BY DEF Harsh, Chat!CastsOf, TimesOut
    <2>2. MessageInv(m, command[m], call[m], by[m], bans[m], Chat!CastsOf(m), OpsOf(m), ToldOf(m))
        BY OneMessage
    <2>3. bans[m] + Threats(command[m], call[m]) <= Cardinality(Harsh(Chat!CastsOf(m)))
        BY <2>2 DEF MessageInv, Punished
    <2>4. Threats(command[m], call[m]) \in Nat /\ bans[m] \in Nat
        BY OneMessage, ThreatsAre
    <2>5. Cardinality(Harsh(Chat!CastsOf(m))) \in Nat
        BY <2>2, PartsAreFinite DEF MessageInv, Typed
    <2>6. bans[m] <= Cardinality(Harsh(Chat!CastsOf(m)))
        BY <2>3, <2>4, <2>5
    <2>7. QED
        BY <2>1, <2>6
<1>2. QED
    BY <1>1, ChatHoldsInv, PTL

\* No moderator draws a reward that times out, and none is ever timed out.
THEOREM ModeratorsAreSpared ==
    ASSUME Chat!ChatActionsAssumption
    PROVE  Chat!Spec => []Chat!ModeratorsCatchNoTimeout
<1>1. ChatInv => Chat!ModeratorsCatchNoTimeout
    <2> SUFFICES ASSUME ChatInv, NEW m \in Messages, by[m] \in Mods
                 PROVE  /\ bans[m] = 0
                        /\ \A c \in casts :
                              c.msg = m => c.reward.type \notin {"timeout", "roulette"}
        BY DEF Chat!ModeratorsCatchNoTimeout
    <2>1. Spared(by[m], bans[m], Chat!CastsOf(m))
        BY OneMessage DEF MessageInv
    <2>2. QED
        BY <2>1 DEF Spared, Chat!CastsOf
<1>2. QED
    BY <1>1, ChatHoldsInv, PTL

=============================================================================
