---------------------------- MODULE ChannelConfig ----------------------------
(***************************************************************************)
(* The configuration of a channel: game parameters and message templates,  *)
(* in one JSON column of the channel's row with one version, edited by     *)
(* administrators in Discord (patch_config, reset_config, patch_message),  *)
(* and by the cooldown command of the chat, which knows of no version.     *)
(* _authorize reads the row through the guild binding before it locks it,  *)
(* and the locked row does not refresh what was read.                      *)
(***************************************************************************)
EXTENDS AdminRequests

CONSTANTS
    Params, Messages,       \* parameters of GameConfig, message templates
    Sections,               \* CONFIG_SECTIONS: the parameters of each section
    Valid(_),               \* GameConfig: parameter values that make a configuration
    MaxCooldowns            \* bound on cooldown commands

Cooldown == "fishing_cooldown"

ConfigAssumption ==
    /\ Cooldown \in Params /\ MaxCooldowns \in Nat
    /\ \A s \in DOMAIN Sections : Sections[s] \subseteq Params

VARIABLES
    row,        \* channels: config_version, custom_params, messages; None is unset
    chat        \* cooldown commands: [pc, value, copy], and how many there were

vars == <<requestVars, row, chat>>

Init ==
    /\ RequestInit
    /\ row = [version |-> 1, params |-> [p \in Params |-> None],
              messages |-> [m \in Messages |-> None]]
    /\ chat = [pc |-> "idle", value |-> None, copy |-> None, count |-> 0]

-----------------------------------------------------------------------------
(* Plausible bugs.                                                             *)

\* Merged, only the changed parameters are checked, not what they are merged to.
MergedUnchecked(old, changes) ==
    [ok |-> Valid([p \in Params |-> IF p \in DOMAIN changes THEN changes[p] ELSE None]),
     params |-> [p \in Params |-> IF p \in DOMAIN changes THEN changes[p] ELSE old[p]]]

-----------------------------------------------------------------------------

\* What the parameters become, and whether GameConfig takes them.
Merged(old, changes) ==
    LET new == [p \in Params |-> IF p \in DOMAIN changes THEN changes[p] ELSE old[p]]
    IN  [ok |-> Valid(new), params |-> new]

\* The lookup is over; _authorize reads the channel.
Load(h) ==
    /\ handler[h].pc = "asked"
    /\ LoadCopy(h, row)
    /\ UNCHANGED <<row, chat>>

\* The UPDATE writes the columns that differ from the copy, the JSON as a whole.
Write(old, new) ==
    row' = [version |-> new.version,
            params |-> IF <<old.params, old.messages>> = <<new.params, new.messages>>
                       THEN row.params ELSE new.params,
            messages |-> IF <<old.params, old.messages>> = <<new.params, new.messages>>
                         THEN row.messages ELSE new.messages]

\* One edit of the locked row: it checks the version of the copy, leaves a
\* configuration that would not change alone, and bumps the version otherwise.
Edit(h, kind, ok, params, messages) ==
    LET old == handler[h].copy
        new == [version |-> old.version + 1, params |-> params, messages |-> messages]
        same == old.params = params /\ old.messages = messages
    IN  /\ Serves(h, "loaded", {kind})
        /\ CASE old.version # Op(h).expected -> Refuse(h, "conflict") /\ UNCHANGED row
             [] old.version = Op(h).expected /\ ~ ok -> Refuse(h, "invalid") /\ UNCHANGED row
             [] OTHER -> \/ /\ Commit(h, IF same THEN old.version ELSE new.version)
                            /\ IF same THEN UNCHANGED row ELSE Write(old, new)
                         \/ Clash(h) /\ UNCHANGED row
        /\ UNCHANGED chat

PatchConfig(h) ==
    LET old == handler[h].copy
        merged == Merged(old.params, Op(h).changes)
    IN  Edit(h, "patch", merged.ok, merged.params, old.messages)

\* reset_config takes the overrides of a section away; nothing is validated.
ResetConfig(h) ==
    LET old == handler[h].copy
    IN  Edit(h, "reset", TRUE,
             [p \in Params |-> IF p \in Sections[Op(h).section] THEN None ELSE old.params[p]],
             old.messages)

PatchMessage(h) ==
    LET old == handler[h].copy
    IN  Edit(h, "message", TRUE, old.params,
             [old.messages EXCEPT ![Op(h).message] = Op(h).template])

\* set_fishing_cooldown of the chat: reads the row, then writes the JSON with one
\* parameter replaced, whatever happened to it meanwhile, and no version.
AskCooldown(v) ==
    /\ chat.pc = "idle" /\ chat.count < MaxCooldowns
    /\ chat' = [pc |-> "loaded", value |-> v, copy |-> row, count |-> chat.count + 1]
    /\ UNCHANGED <<requestVars, row>>

SetCooldown ==
    /\ chat.pc = "loaded"
    /\ Write(chat.copy, [chat.copy EXCEPT !.params[Cooldown] = chat.value,
                                          !.version = row.version])
    /\ chat' = [chat EXCEPT !.pc = "idle", !.value = None, !.copy = None]
    /\ UNCHANGED requestVars

Serve(h) == Load(h) \/ PatchConfig(h) \/ ResetConfig(h) \/ PatchMessage(h)

Next ==
    \/ \E h \in Handlers, k \in Keys : Receive(h, k) /\ UNCHANGED <<row, chat>>
    \/ \E h \in Handlers : Serve(h)
    \/ \E v \in {1, 2} : AskCooldown(v)
    \/ SetCooldown
    \/ Crash /\ UNCHANGED <<row, chat>>

Spec == Init /\ [][Next]_vars

-----------------------------------------------------------------------------

\* The overrides always make a configuration, whichever copies of them were
\* merged and written over each other: a cast reads them unchecked, and
\* get_config fails on overrides GameConfig does not take.
StoredConfigValid == Valid(row.params)

\* One step of EditsWhatItsAuthorSaw.
EditsWhatItsAuthorSawStep ==
    \A k \in Keys : record[k] = None /\ record'[k] # None => row.version = OpOf[k].expected

\* An edit commits only against the version its author saw (_check_version).
EditsWhatItsAuthorSaw == [][EditsWhatItsAuthorSawStep]_vars

\* The cooldown command changes the configuration and leaves the version the
\* administrators compare.
ChangeTellsVersion ==
    [][row'.params # row.params => row'.version # row.version]_vars
=============================================================================
