---------------------------- MODULE AdminRequests ----------------------------
(***************************************************************************)
(* How the engine serves what administrators ask for in Discord.  The      *)
(* gateway sends a request up to three times under one key, and an attempt *)
(* it has given up may still run; the engine looks the key up, runs the    *)
(* operation in a transaction and records the answer under the key in the  *)
(* same transaction (IdempotencyService.execute).  Keys are made from the  *)
(* interaction, so none is used again after the record's 24 hours.  The    *)
(* modules that extend this one say what their operations do between the   *)
(* lookup and the record.                                                  *)
(***************************************************************************)
EXTENDS Naturals, Sequences

CONSTANTS
    Keys,           \* idempotency keys, one for each interaction in Discord
    OpOf,           \* the request each interaction sends, in every attempt
    Handlers,       \* requests served at a time
    Attempts,       \* EngineClient.request: attempts
    None

RequestAssumption == Attempts \in Nat \ {0}

VARIABLES
    record,     \* idempotency_records: the answer recorded for a key
    handler,    \* what each handler is at, and what it has read
    sent,       \* attempts so far
    answers,    \* history: what the attempts of a key were answered
    applied     \* history: keys in the order their operations committed

requestVars == <<record, handler, sent, answers, applied>>

Free == [pc |-> "free", key |-> None, copy |-> None]

RequestInit ==
    /\ record = [k \in Keys |-> None]
    /\ handler = [h \in Handlers |-> Free]
    /\ sent = [k \in Keys |-> 0]
    /\ answers = [k \in Keys |-> {}]
    /\ applied = <<>>

-----------------------------------------------------------------------------
(* Plausible bugs.  Each takes the place of the operator its comment names in  *)
(* a mutation test: the property it is aimed at must notice.                   *)

\* Clashes, two records of one key are allowed (no uq_idempotency_actor_key).
NeverClashes(k) == FALSE

-----------------------------------------------------------------------------

Recorded(k) == record[k] # None

\* uq_idempotency_actor_key: a second record of a key cannot be inserted.
Clashes(k) == record[k] # None

\* An attempt arrives.  What is recorded is answered again; otherwise the
\* handler goes on to the operation.
Receive(h, k) ==
    /\ handler[h].pc = "free" /\ sent[k] < Attempts
    /\ sent' = [sent EXCEPT ![k] = @ + 1]
    /\ IF Recorded(k)
       THEN /\ answers' = [answers EXCEPT ![k] = @ \union {record[k]}]
            /\ UNCHANGED handler
       ELSE /\ handler' = [handler EXCEPT ![h] = [Free EXCEPT !.pc = "asked", !.key = k]]
            /\ UNCHANGED answers
    /\ UNCHANGED <<record, applied>>

Op(h) == OpOf[handler[h].key]

Serves(h, pc, kinds) == handler[h].pc = pc /\ Op(h).kind \in kinds

\* The handler reads, before it locks anything, a row its operation works on.
LoadCopy(h, row) ==
    /\ handler' = [handler EXCEPT ![h] = [handler[h] EXCEPT !.pc = "loaded", !.copy = row]]
    /\ UNCHANGED <<record, sent, answers, applied>>

Answer(code, body) == [code |-> code, body |-> body]

\* The operation succeeds, its answer is recorded and the transaction commits.
Commit(h, body) ==
    LET k == handler[h].key
        answer == Answer("ok", body)
    IN
    /\ ~ Clashes(k)
    /\ record' = [record EXCEPT ![k] = answer]
    /\ answers' = [answers EXCEPT ![k] = @ \union {answer}]
    /\ applied' = Append(applied, k)
    /\ handler' = [handler EXCEPT ![h] = Free]
    /\ UNCHANGED sent

\* The operation refuses: nothing of it stays.
Refuse(h, why) ==
    /\ answers' = [answers EXCEPT ![handler[h].key] = @ \union {Answer(why, None)}]
    /\ handler' = [handler EXCEPT ![h] = Free]
    /\ UNCHANGED <<record, sent, applied>>

\* The operation would succeed, but its key has been recorded meanwhile.
Clash(h) == Clashes(handler[h].key) /\ Refuse(h, "clash")

\* The engine stops: open transactions are rolled back, attempts unanswered.
Crash ==
    /\ \E h \in Handlers : handler[h] # Free
    /\ handler' = [h \in Handlers |-> Free]
    /\ UNCHANGED <<record, sent, answers, applied>>

-----------------------------------------------------------------------------

\* However often a request is sent, and whichever attempts overlap, its
\* operation commits at most once (IdempotencyService.execute).
AppliedOnce ==
    \A i, j \in 1 .. Len(applied) : applied[i] = applied[j] => i = j

\* A version conflict is answered only because of somebody else's change: "Entity
\* was changed by another administrator" (DiscordAdminService._check_version).
ConflictIsSomebodyElses ==
    \A k \in Keys : Answer("conflict", None) \in answers[k] =>
        \E i \in 1 .. Len(applied) : applied[i] # k
=============================================================================
