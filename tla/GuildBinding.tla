----------------------------- MODULE GuildBinding -----------------------------
(***************************************************************************)
(* Who administers what: the link of a Discord user to a Twitch account,   *)
(* made through an OAuth state in Redis, the binding of a Discord server   *)
(* to a Twitch channel, and the membership of the bot that the binding     *)
(* turns on and off (twitch_bot_enabled, which ChannelMembership serves).  *)
(* A channel is the Twitch account that owns it.  The health check that    *)
(* bind_guild asks for after its commit is left to IntegrationHealth.      *)
(***************************************************************************)
EXTENDS AdminRequests

CONSTANTS
    Users, Guilds, Accounts,    \* Discord users and servers, Twitch accounts
    MaxStarts,                  \* bound on OAuth links started
    RateLimit                   \* start_link: links a user may start in ten minutes

BindingAssumption == MaxStarts \in Nat /\ RateLimit \in Nat

VARIABLES
    link,       \* discord_account_links: the account of a user, or None
    oauth,      \* users with a state pending in Redis
    returning,  \* <<user, account>> whose OAuth answer is not stored yet
    rate,       \* fish:discord:link-rate: attempts of a user, and if they expire
    starting,   \* users between the increment of their counter and its expiry
    bound,      \* discord_guild_bindings: the channel of a server, or None
    channels,   \* channels with a row and a default reward pool
    enabled,    \* channels the bot should be in
    locked,     \* channel rows locked by a handler, or None
    starts      \* history: links started so far

linkVars == <<link, oauth, returning, rate, starting, starts>>
bindVars == <<bound, channels, enabled, locked>>
vars == <<requestVars, linkVars, bindVars>>

Init ==
    /\ RequestInit
    /\ link = [u \in Users |-> None]
    /\ oauth = {} /\ returning = {}
    /\ rate = [u \in Users |-> [count |-> 0, expires |-> FALSE]]
    /\ starting = {} /\ starts = 0
    /\ bound = [g \in Guilds |-> None]
    /\ channels = {} /\ enabled = {}
    /\ locked = [c \in Accounts |-> None]

TypeOK ==
    /\ link \in [Users -> Accounts \union {None}]
    /\ oauth \subseteq Users /\ starting \subseteq Users
    /\ returning \subseteq Users \X Accounts
    /\ rate \in [Users -> [count : Nat, expires : BOOLEAN]]
    /\ bound \in [Guilds -> Accounts \union {None}]
    /\ enabled \subseteq channels /\ channels \subseteq Accounts
    /\ locked \in [Accounts -> Handlers \union {None}]

-----------------------------------------------------------------------------
(* Plausible bugs.                                                             *)

\* Replaced, the bot is not taken out of the channel the server leaves.
NothingReplaced(old, new) == {}

\* TakenElsewhere, a channel may be bound to a second server.
NeverTaken(g, c) == FALSE

\* RateExpires, a window gives one attempt back and leaves the counter.
RateGivesBack(u) ==
    /\ rate[u].expires
    /\ rate' = [rate EXCEPT ![u].count = @ - 1]
    /\ UNCHANGED <<link, oauth, returning, starting, starts>>

\* Conflicting, nobody asks whether the account has another user.
NoConflict(u, a) == FALSE

-----------------------------------------------------------------------------
(* Account links                                                               *)

\* start_link: counts the attempt, gives the counter its ten minutes in a call
\* of its own, and stores the state unless there were too many.
CountStart(u) ==
    /\ u \notin starting /\ starts < MaxStarts
    /\ rate' = [rate EXCEPT ![u].count = @ + 1]
    /\ starting' = starting \union {u}
    /\ starts' = starts + 1
    /\ UNCHANGED <<link, oauth, returning>>

FinishStart(u) ==
    /\ u \in starting
    /\ rate' = [rate EXCEPT ![u].expires = @ \/ rate[u].count = 1]
    /\ starting' = starting \ {u}
    /\ oauth' = IF rate[u].count > RateLimit THEN oauth ELSE oauth \union {u}
    /\ UNCHANGED <<link, returning, starts>>

\* The process dies, or Redis fails, between the two calls.
AbandonStart(u) ==
    /\ u \in starting
    /\ starting' = starting \ {u}
    /\ UNCHANGED <<link, oauth, returning, rate, starts>>

RateExpires(u) ==
    /\ rate[u].expires /\ u \notin starting
    /\ rate' = [rate EXCEPT ![u] = [count |-> 0, expires |-> FALSE]]
    /\ UNCHANGED <<link, oauth, returning, starting, starts>>

\* complete_link: the state is taken out of Redis, then Twitch says who the
\* user is; a state can also expire.
Return(u, a) ==
    /\ u \in oauth
    /\ oauth' = oauth \ {u}
    /\ returning' = returning \union {<<u, a>>}
    /\ UNCHANGED <<link, rate, starting, starts>>

StateExpires(u) ==
    /\ u \in oauth
    /\ oauth' = oauth \ {u}
    /\ UNCHANGED <<link, returning, rate, starting, starts>>

Conflicting(u, a) == \E v \in Users \ {u} : link[v] = a

\* _persist_link: an account has one user and a user one account; whom the
\* check does not see, the unique columns refuse.
PersistLink(u, a) ==
    /\ <<u, a>> \in returning
    /\ returning' = returning \ {<<u, a>>}
    /\ link' = IF Conflicting(u, a) \/ link[u] \notin {None, a}
               THEN link ELSE [link EXCEPT ![u] = a]
    /\ UNCHANGED <<oauth, rate, starting, starts>>

Unlink(h) ==
    LET u == Op(h).user IN
    /\ Serves(h, "asked", {"unlink"})
    /\ IF link[u] = None THEN Refuse(h, "denied") /\ UNCHANGED link
       ELSE \/ Commit(h, link[u]) /\ link' = [link EXCEPT ![u] = None]
            \/ Clash(h) /\ UNCHANGED link
    /\ UNCHANGED <<oauth, returning, rate, starting, starts, bindVars>>

-----------------------------------------------------------------------------
(* Bindings                                                                    *)

Unlocked(h) == [c \in Accounts |-> IF locked[c] = h THEN None ELSE locked[c]]
Lockable(c, h) == \A d \in Accounts : d = c => locked[d] \in {None, h}

TakenElsewhere(g, c) == \E f \in Guilds \ {g} : bound[f] = c

\* The channels a server leaves by going from old to new.
Replaced(old, new) == {old} \ {None, new}

\* A row is read before it is locked, and the lock does not read it again.
Find(h, row) ==
    /\ handler' = [handler EXCEPT ![h] = [handler[h] EXCEPT !.pc = "found", !.copy = row]]
    /\ UNCHANGED <<record, sent, answers, applied>>

\* What a request has read: the channel it is about, the one the server had, which
\* of them have the bot, and whether the first has a row.
Found(c) == [new |-> c, old |-> None, on |-> {c} \intersect enabled, made |-> c \in channels]

\* bind_guild: the channel of the user is looked up.
BindFind(h) ==
    LET c == link[Op(h).user] IN
    /\ Serves(h, "asked", {"bind"})
    /\ IF c = None THEN Refuse(h, "denied") ELSE Find(h, Found(c))
    /\ UNCHANGED <<linkVars, bindVars>>

\* It is made if there was none, which fails if there is one by now, and locked;
\* then the bindings are read, and the channel the server is going to leave.
BindRead(h) ==
    LET g == Op(h).guild
        found == handler[h].copy
        c == found.new
        denied == TakenElsewhere(g, c) \/ (bound[g] \notin {None, c} /\ ~ Op(h).replace)
    IN  /\ Serves(h, "found", {"bind"})
        /\ Lockable(c, h)
        /\ \/ /\ ~ found.made /\ c \in channels
              /\ Refuse(h, "failed") /\ UNCHANGED locked
           \/ /\ found.made \/ c \notin channels
              /\ denied
              /\ Refuse(h, "denied") /\ UNCHANGED locked
           \/ /\ found.made \/ c \notin channels
              /\ ~ denied
              /\ locked' = [locked EXCEPT ![c] = h]
              /\ LoadCopy(h, [found EXCEPT !.old = bound[g],
                               !.on = @ \union (({bound[g]} \ {c}) \intersect enabled)])
        /\ UNCHANGED <<linkVars, bound, channels, enabled>>

\* The rest of bind_guild: the channel the binding was read with is locked and
\* left, the binding and the bot go to the new one.  Of the channels only what
\* differs from the copies is written.  A binding inserted twice, a second one of
\* a channel and one deleted meanwhile (made again or not) fail the request.
Bind(h) ==
    LET g == Op(h).guild
        new == handler[h].copy.new
        old == handler[h].copy.old
        on == handler[h].copy.on
        fits == \/ old = new
                \/ (old = None) = (bound[g] = None) /\ ~ TakenElsewhere(g, new)
    IN  /\ Serves(h, "loaded", {"bind"})
        /\ Lockable(old, h)
        /\ \/ /\ fits
              /\ Commit(h, new)
              /\ bound' = IF old = new THEN bound ELSE [bound EXCEPT ![g] = new]
              /\ channels' = channels \union {new}
              /\ enabled' = (enabled \ (Replaced(old, new) \intersect on)) \union ({new} \ on)
           \/ /\ fits /\ Clash(h)
              /\ UNCHANGED <<bound, channels, enabled>>
           \/ /\ ~ fits \/ old # None
              /\ Refuse(h, "failed")
              /\ UNCHANGED <<bound, channels, enabled>>
        /\ locked' = Unlocked(h)
        /\ UNCHANGED linkVars

\* remove_guild_binding: the binding and its channel are read, then the channel
\* is locked, and the binding deleted if there still is one.
UnbindRead(h) ==
    LET c == bound[Op(h).guild] IN
    /\ Serves(h, "asked", {"unbind"})
    /\ IF c # None /\ link[Op(h).user] = c       \* the owner
       THEN LoadCopy(h, Found(c))
       ELSE Refuse(h, "denied")
    /\ UNCHANGED <<linkVars, bindVars>>

Unbind(h) ==
    LET g == Op(h).guild
        c == handler[h].copy.new
    IN  /\ Serves(h, "loaded", {"unbind"})
        /\ Lockable(c, h)
        /\ \/ /\ bound[g] # None
              /\ Commit(h, c)
              /\ bound' = [bound EXCEPT ![g] = None]
              /\ enabled' = enabled \ handler[h].copy.on
           \/ /\ bound[g] # None /\ Clash(h)
              /\ UNCHANGED <<bound, enabled>>
           \/ /\ bound[g] = None /\ Refuse(h, "denied")
              /\ UNCHANGED <<bound, enabled>>
        /\ UNCHANGED <<linkVars, channels, locked>>

EngineStops ==
    /\ Crash
    /\ locked' = [c \in Accounts |-> None]
    /\ returning' = {}
    /\ UNCHANGED <<link, oauth, rate, starting, starts, bound, channels, enabled>>

Start(u) == CountStart(u) \/ FinishStart(u) \/ AbandonStart(u) \/ RateExpires(u)

Linking(u) ==
    \/ Start(u) \/ StateExpires(u)
    \/ \E a \in Accounts : Return(u, a) \/ PersistLink(u, a)

Next ==
    \/ \E h \in Handlers, k \in Keys : Receive(h, k) /\ UNCHANGED <<linkVars, bindVars>>
    \/ \E u \in Users : Linking(u) /\ UNCHANGED <<requestVars, bindVars>>
    \/ \E h \in Handlers :
         \/ Unlink(h) \/ BindFind(h) \/ BindRead(h) \/ Bind(h)
         \/ UnbindRead(h) \/ Unbind(h)
    \/ EngineStops

Spec == Init /\ [][Next]_vars

-----------------------------------------------------------------------------

\* The one-to-one identity link: no two users have one account, whichever order
\* their OAuth answers come back in (_persist_link).
OneUserPerAccount ==
    \A u, v \in Users : link[u] # None /\ link[u] = link[v] => u = v

\* A server is bound to a channel of its own (bind_guild, "Twitch channel is
\* bound to another guild").
OneGuildPerChannel ==
    \A f, g \in Guilds : bound[f] # None /\ bound[f] = bound[g] => f = g

\* The channels a request that has read one is about.
Touches(h) ==
    IF handler[h].pc \in {"found", "loaded"}
    THEN {handler[h].copy.new, handler[h].copy.old} \ {None} ELSE {}

\* Requests that have read a channel and not committed yet are about different
\* servers and different channels.
RequestsApart ==
    \A h, u \in Handlers :
        Touches(h) # {} /\ Touches(u) # {} /\ h # u =>
            Op(h).guild # Op(u).guild /\ Touches(h) \intersect Touches(u) = {}

\* The bot is wanted in a channel exactly while a server is bound to it: binding
\* turns it on, leaving the channel by any way turns it off.  It takes requests
\* that are apart: the flag is compared with a copy read before the lock.
BotServesBoundChannels == enabled = {bound[g] : g \in Guilds} \ {None}

\* A user over the limit is let in again one day: the counter that refuses is
\* one that expires ("Link rate limit exceeded. Retry in {ttl}s").
LimitEnds ==
    \A u \in Users \ starting : rate[u].count > RateLimit => rate[u].expires
=============================================================================
