------------------------------ MODULE ChatActions ------------------------------
(***************************************************************************)
(* A viewer's !fish: the bot asks the engine for a cast, and performs the  *)
(* actions of the answer one after the other: messages, points (an order   *)
(* at the engine), timeouts (Twitch), and extra casts.  Each message is    *)
(* handled by a task of its own.                                           *)
(***************************************************************************)
EXTENDS Integers, Sequences, FiniteSets

CONSTANTS
    Messages,   \* chat messages, each a !fish
    Users,      \* viewers
    Mods,       \* the moderators among them
    Rewards,    \* the pool's rewards: [type, amount, message]
    MostExtra,  \* the most extra casts a dupe makes (20)
    None

ChatActionsAssumption ==
    Mods \subseteq Users /\ MostExtra \in Nat \ {0} /\ \A r \in Rewards : r.amount \in Int

VARIABLES
    by,         \* the author of each message, or None before it is sent
    task,       \* each message's handler
    call,       \* its request to the engine: [at, extra, acts]
    cooling,    \* viewers with a cooldown
    casts,      \* the engine's journal: [msg, n, user, extra, status, reward]
    ops,        \* reward_points operations: [key, user, amount]
    bans,       \* timeouts applied for each message
    announced,  \* points actions whose message was sent: [msg, extra, user, amount]
    said        \* what else each handler told the chat, or tried to

vars == <<by, task, call, cooling, casts, ops, bans, announced, said>>

-----------------------------------------------------------------------------
(* The engine: what a cast answers                                             *)

Nothing == [type |-> "nothing", amount |-> 0, message |-> TRUE]
CanTimeOut(r) == r.type \in {"timeout", "roulette"}

\* A plausible bug of Pool: only the plain timeouts are left out.
PoolOfRoulette(u) == IF u \in Mods THEN {r \in Rewards : r.type # "timeout"} ELSE Rewards

\* _without_timeout_rewards, for moderators.
Pool(u) ==
    LET mild == {r \in Rewards : ~ CanTimeOut(r)}
    IN IF u \notin Mods THEN Rewards ELSE IF mild = {} THEN {Nothing} ELSE mild

Act(type, r) == [type |-> type, amount |-> r.amount]

\* The presenter's actions for each type of reward.  Messages, and news of mass,
\* items and levels, are all said.
Basic(r) == Act("say", r)
PresentFish(r) == {<<Basic(r), Basic(r)>>}
PresentTimeout(r) == {<<Basic(r), Act("timeout", r)>>}
PresentPoints(r) == {IF r.message THEN <<Basic(r), Act("points", r)>> ELSE <<Act("points", r)>>}
PresentDupe(r) == {<<Basic(r), Act("dupe", r)>>}
\* A victim's counter may time the robber out.
PresentRobbery(r) == {<<Basic(r), Basic(r)>>, <<Basic(r), Basic(r), Act("timeout", r)>>}
PresentRoulette(r) == {<<Basic(r), Basic(r)>>, <<Basic(r), Basic(r), Act("timeout", r)>>}

PresentReward(r) ==
    CASE r.type = "points" -> PresentPoints(r)
      [] r.type = "timeout" -> PresentTimeout(r)
      [] r.type = "dupe" -> PresentDupe(r)
      [] r.type = "robbery" -> PresentRobbery(r)
      [] r.type = "roulette" -> PresentRoulette(r)
      [] r.type = "fish" -> PresentFish(r)
      [] OTHER -> {<<Basic(r)>>}

\* build_response: an item, a new level or a broken rod is said last.
Presented(r) == PresentReward(r) \union {Append(acts, Basic(r)) : acts \in PresentReward(r)}

NoCall == [at |-> "none", extra |-> FALSE, acts |-> <<>>]
NoTask == [at |-> "new", acts |-> <<>>, i |-> 1, inner |-> <<>>, j |-> 1, left |-> 0]

Init ==
    /\ by = [m \in Messages |-> None] /\ task = [m \in Messages |-> NoTask]
    /\ call = [m \in Messages |-> NoCall]
    /\ cooling = {} /\ casts = {} /\ ops = {} /\ announced = {}
    /\ bans = [m \in Messages |-> 0] /\ said = [m \in Messages |-> {}]

\* A plausible bug of Bypasses: extra casts wait for the cooldown like others.
BypassesNever(request) == FALSE
Bypasses(request) == request.extra

CastsOf(m) == {c \in casts : c.msg = m}

\* process_cast; the bot may have given up on the answer.
Cast(m) ==
    /\ call[m].at \in {"sent", "lost"}
    /\ LET u == by[m]
           journal(status, r) == casts' = casts \union
               {[msg |-> m, n |-> Cardinality(CastsOf(m)) + 1, user |-> u, extra |-> call[m].extra,
                 status |-> status, reward |-> r]}
           answer(acts) == call' = [call EXCEPT ![m] =
               IF @.at = "lost" THEN NoCall ELSE [@ EXCEPT !.at = "answered", !.acts = acts]]
       IN IF u \in cooling /\ ~ Bypasses(call[m])
          THEN /\ journal("cooldown_rejected", Nothing) /\ answer(<<Basic(Nothing)>>)
               /\ UNCHANGED cooling
          ELSE \E r \in Pool(u) : \E acts \in Presented(r) :
               /\ journal("resolved", r) /\ answer(acts)
               /\ cooling' = IF Bypasses(call[m]) THEN cooling ELSE cooling \union {u}
    /\ UNCHANGED <<by, task, ops, bans, announced, said>>

CoolDown(u) ==
    /\ u \in cooling /\ cooling' = cooling \ {u}
    /\ UNCHANGED <<by, task, call, casts, ops, bans, announced, said>>

-----------------------------------------------------------------------------
(* The bot: asking                                                             *)

\* The !fish command.
Fish(m, u) ==
    /\ task[m].at = "new"
    /\ by' = [by EXCEPT ![m] = u]
    /\ task' = [task EXCEPT ![m].at = "asking"]
    /\ call' = [call EXCEPT ![m] = [NoCall EXCEPT !.at = "sent"]]
    /\ UNCHANGED <<cooling, casts, ops, bans, announced, said>>

\* An extra cast, after its delay.
AskExtra(m) ==
    /\ task[m].at = "resting"
    /\ task' = [task EXCEPT ![m].at = "asking_extra"]
    /\ call' = [call EXCEPT ![m] = [NoCall EXCEPT !.at = "sent", !.extra = TRUE]]
    /\ UNCHANGED <<by, cooling, casts, ops, bans, announced, said>>

Answer(m) ==
    /\ call[m].at = "answered"
    /\ task' = [task EXCEPT ![m] = IF @.at = "asking"
                                   THEN [@ EXCEPT !.at = "acting", !.acts = call[m].acts]
                                   ELSE [@ EXCEPT !.at = "extra", !.inner = call[m].acts, !.j = 1]]
    /\ call' = [call EXCEPT ![m] = NoCall]
    /\ UNCHANGED <<by, cooling, casts, ops, bans, announced, said>>

\* Whatever is left of the command is not done.
Over == [NoTask EXCEPT !.at = "ended"]

NextOuter(t) == [t EXCEPT !.i = @ + 1, !.at = IF t.i < Len(t.acts) THEN "acting" ELSE "ended",
                          !.inner = <<>>, !.j = 1, !.left = 0]

\* A plausible bug of AfterFailure: a failed extra cast is asked for again.
AfterFailureAgain(t) ==
    IF t.at = "asking" THEN [t EXCEPT !.at = "ended"] ELSE [t EXCEPT !.at = "resting"]

\* A failed request ends the command; a failed extra cast ends the extra casts, and
\* the command too when the chat cannot be told of it.
AfterFailure(t) == IF t.at = "asking" THEN [t EXCEPT !.at = "ended"] ELSE NextOuter(t)

\* No answer in time, or a refusal.  The engine may still be at it.
Fail(m) ==
    /\ call[m].at = "sent"
    /\ \E late \in BOOLEAN :
        call' = [call EXCEPT ![m] = IF late THEN [@ EXCEPT !.at = "lost"] ELSE NoCall]
    /\ task' \in {[task EXCEPT ![m] = t] : t \in {AfterFailure(task[m]), Over}}
    /\ said' = [said EXCEPT ![m] = @ \union {"error"}]
    /\ UNCHANGED <<by, cooling, casts, ops, bans, announced>>

-----------------------------------------------------------------------------
(* The bot: performing the actions                                             *)

\* The action a handler is at, and its place in the answer it came with.
At(t) == IF t.at = "extra" THEN t.inner[t.j] ELSE t.acts[t.i]
Place(t) == IF t.at = "extra" THEN t.j ELSE t.i
Performing(m, type) == task[m].at \in {"acting", "extra"} /\ At(task[m]).type = type

Performed(t) ==
    IF t.at = "acting" THEN NextOuter(t)
    ELSE IF t.j < Len(t.inner) THEN [t EXCEPT !.j = @ + 1]
    ELSE IF t.left > 1 THEN [t EXCEPT !.at = "resting", !.left = @ - 1, !.inner = <<>>, !.j = 1]
    ELSE NextOuter(t)

Move(m) == task' = [task EXCEPT ![m] = Performed(@)]

\* A send to the chat fails, which nothing near it catches: among the actions of an
\* extra cast it ends the extra casts, or the command like everywhere else.
Broken(t) == {Over} \union (IF t.at = "extra" THEN {NextOuter(t)} ELSE {})
Breaks(m) ==
    /\ task' \in {[task EXCEPT ![m] = t] : t \in Broken(task[m])}
    /\ said' = [said EXCEPT ![m] = @ \union {"error"}]

Say(m) ==
    /\ Performing(m, "say")
    /\ (Move(m) /\ UNCHANGED said) \/ Breaks(m)
    /\ UNCHANGED <<by, call, cooling, casts, ops, bans, announced>>

\* A plausible bug of Key: the place alone.
KeyOfPlace(m) == <<None, Place(task[m])>>

\* _handle_points: the message and the action's place in its answer.
Key(m) == <<m, Place(task[m])>>

\* ExternalActionService.queue: an operation with the key is answered as it is.
Queued(key, u, amount) ==
    IF \E o \in ops : o.key = key THEN ops
    ELSE ops \union {[key |-> key, user |-> u, amount |-> amount]}

\* The order of points: made and answered, refused, or made without an answer.
GivePoints(m) ==
    /\ Performing(m, "points")
    /\ LET t == task[m]
           order == Queued(Key(m), by[m], At(t).amount)
       IN \/ /\ ops' = order /\ Move(m) /\ UNCHANGED said
             /\ announced' = announced \union
                  {[msg |-> m, extra |-> t.at = "extra", user |-> by[m], amount |-> At(t).amount]}
          \/ /\ ops' \in {ops, order} /\ UNCHANGED announced
             /\ (Move(m) /\ said' = [said EXCEPT ![m] = @ \union {"error"}]) \/ Breaks(m)
    /\ UNCHANGED <<by, call, cooling, casts, bans>>

\* A plausible bug of TriesAgain: after any failure.
TriesAgainAlways(outcome) == outcome # "applied"

\* Twitch's filter refuses the reason: once more without it.
TriesAgain(outcome) == outcome = "moderated"

\* What Twitch does: a timeout may be applied and its answer lost; nobody times out
\* a moderator.
Outcomes(u) == IF u \in Mods THEN {"failed"} ELSE {"applied", "unheard", "failed"}
Applied(outcome) == IF outcome \in {"applied", "unheard"} THEN 1 ELSE 0

\* Of the answers of Twitch the last counts: an error is told, and that the reason was
\* left out.
TimeOutViewer(m) ==
    /\ Performing(m, "timeout")
    /\ \E first \in Outcomes(by[m]) \union {"moderated"} :
        LET retried == TriesAgain(first)
        IN \E last \in IF retried THEN Outcomes(by[m]) ELSE {first} :
            /\ bans' = [bans EXCEPT ![m] =
                   @ + Applied(last) + (IF retried THEN Applied(first) ELSE 0)]
            /\ \/ /\ Move(m)
                  /\ said' = [said EXCEPT ![m] = @ \union
                       (IF last # "applied" THEN {"error"} ELSE IF retried THEN {"warning"} ELSE {})]
               \/ Breaks(m)
    /\ UNCHANGED <<by, call, cooling, casts, ops, announced>>

\* A plausible bug of AllowsDupe: an extra cast may have extra casts.
AllowsDupeAlways(t) == TRUE
AllowsDupe(t) == t.at = "acting"

\* A plausible bug of Extra: no upper bound.
ExtraUncapped(amount) == IF amount < 1 THEN 1 ELSE amount
Extra(amount) == IF amount < 1 THEN 1 ELSE IF amount > MostExtra THEN MostExtra ELSE amount

Dupe(m) ==
    /\ Performing(m, "dupe")
    /\ task' = [task EXCEPT ![m] = IF AllowsDupe(@)
                                   THEN [@ EXCEPT !.at = "resting", !.left = Extra(At(task[m]).amount)]
                                   ELSE Performed(@)]
    /\ UNCHANGED <<by, call, cooling, casts, ops, bans, announced, said>>

Handle(m) ==
    AskExtra(m) \/ Answer(m) \/ Fail(m) \/ Say(m) \/ GivePoints(m) \/ TimeOutViewer(m) \/ Dupe(m)

Next ==
    \/ \E m \in Messages :
        \/ \E u \in Users : Fish(m, u)
        \/ Cast(m)
        \/ AskExtra(m)
        \/ Answer(m)
        \/ Fail(m)
        \/ Say(m)
        \/ GivePoints(m)
        \/ TimeOutViewer(m)
        \/ Dupe(m)
    \/ \E u \in Users : CoolDown(u)

Spec == Init /\ [][Next]_vars

\* The bot's requests have time limits; nothing is assumed of the engine.
FairSpec == Spec /\ \A m \in Messages : WF_vars(Handle(m))
-----------------------------------------------------------------------------

\* The type of each variable.
TypeOK ==
    /\ \A m \in Messages :
        /\ by[m] \in Users \union {None}
        /\ call[m].at \in {"none", "sent", "lost", "answered"}
        /\ task[m].at \in {"new", "asking", "acting", "resting", "asking_extra", "extra", "ended"}
        /\ task[m].at \in {"acting", "extra"} => At(task[m]).type \in {"say", "points", "timeout", "dupe"}
        /\ task[m].at \in {"resting", "asking_extra", "extra"} => task[m].left \in 1 .. MostExtra
    /\ cooling \subseteq Users

\* Extra casts have no extra casts of their own: a message never casts more than its
\* first reward says ("without recursing").
DupeIsBounded ==
    \A c \in casts : ~ c.extra =>
        Cardinality({d \in casts : d.msg = c.msg /\ d.extra})
            <= (IF c.reward.type # "dupe" THEN 0
                ELSE IF c.reward.amount > MostExtra THEN MostExtra
                ELSE IF c.reward.amount < 1 THEN 1 ELSE c.reward.amount)

\* The cooldown that a message's own cast has begun does not refuse its extra casts,
\* nor does a cast of the same viewer between them.
ExtraCastsCatch == \A c \in casts : c.extra => c.status = "resolved"

\* Points that the chat is told of are owed: this viewer has an operation made by
\* this message, and for a cast of its own one of this amount.
AnnouncedIsOwed ==
    \A a \in announced : \E o \in ops :
        /\ o.user = a.user
        /\ \E c \in casts : c.msg = a.msg /\ c.reward.type = "points" /\ c.reward.amount = o.amount
        /\ o.key[1] = a.msg
        /\ ~ a.extra => o.amount = a.amount

\* A cast times its viewer out at most once, whatever Twitch answers.
OneTimeoutEach ==
    \A m \in Messages :
        bans[m] <= Cardinality({c \in casts : c.msg = m /\ c.reward.type \in {"timeout", "roulette", "robbery"}})

\* A moderator's own rewards never bring a timeout: only a robbery's counter asks for
\* one, and Twitch refuses it.
ModeratorsCatchNoTimeout ==
    \A m \in Messages : by[m] \in Mods =>
        (bans[m] = 0 /\ \A c \in casts : c.msg = m => c.reward.type \notin {"timeout", "roulette"})

\* Every command comes to its end, the engine answering or not.
EveryCommandEnds == \A m \in Messages : task[m].at # "new" ~> task[m].at = "ended"

\* The points of each cast whose command met no error are paid.
RewardsArePaid ==
    \A m \in Messages :
        task[m].at = "ended" /\ said[m] = {} =>
            Cardinality({o \in ops : o.key[1] = m})
                = Cardinality({c \in casts : c.msg = m /\ c.reward.type = "points"})
=============================================================================
