----------------------------- MODULE FormFlowProofs -----------------------------
(***************************************************************************)
(* That a form changes nothing behind its author's back, for any number    *)
(* of commands, presses, attempts, and messages that still have a button.  *)
(* The argument: a press that has read its session carries the version its *)
(* command found, the engine's version never falls below it, and what the  *)
(* engine has recorded is exactly what was stored.                         *)
(*                                                                         *)
(* And that the item wizard does not, for any items, drafts, lifetimes and *)
(* attempts: the draft keeps the version of what it was made from, which   *)
(* is what the engine still has unless its version has grown, and so does  *)
(* a request that was made from it, whatever is edited while it is served. *)
(***************************************************************************)
EXTENDS FormFlow, TLAPS

Drafts == Seq(Values)
Stages == {"clicked", "asking", "saved", "done", "conflict", "expired", "unavailable"}
Unread == {"clicked", "expired"}        \* stages without a version

FlowRecord == [kind : Kinds, version : Nat, kept : BOOLEAN, age : Nat, quiet : Nat, waited : Nat]
ViewRecord == [flow : Flows, draft : Drafts, age : Nat]
FormRecord == [flow : Flows, draft : Drafts]
CallRecord == [flow : Flows, draft : Drafts, version : Nat \union {None}, stage : Stages, tries : Nat]
SaveRecord == [click : Clicks, draft : Drafts, over : Nat]

NoneApart == None \notin FlowRecord \union FormRecord \union CallRecord

Types ==
    /\ flow \in [Flows -> FlowRecord \union {None}]
    /\ views \subseteq ViewRecord
    /\ form \in FormRecord \union {None}
    /\ call \in [Clicks -> CallRecord \union {None}]
    /\ late \subseteq Clicks
    /\ item \in [version : Nat, body : Drafts]
    /\ recorded \subseteq Clicks
    /\ saves \subseteq SaveRecord

\* A button, a form and a press belong to a command that was run.
Rooted ==
    /\ \A v \in views : flow[v.flow] # None
    /\ form # None => flow[form.flow] # None
    /\ \A c \in Clicks : call[c] # None => flow[call[c].flow] # None

\* No command is ahead of the engine.
Behind == \A f \in Flows : flow[f] # None => flow[f].version <= item.version

\* A press asks with the version its command found.
Carries ==
    \A c \in Clicks : call[c] # None /\ call[c].stage \notin Unread =>
        call[c].version = flow[call[c].flow].version

\* Only a press that asks has an attempt on its way.
LateAsked == \A c \in late : call[c] # None /\ call[c].stage \notin Unread

\* What is recorded is what was stored, over the version its command found.
Kept ==
    /\ \A c \in recorded : \E s \in saves : s.click = c
    /\ \A s \in saves :
          /\ s.click \in recorded
          /\ call[s.click] # None
          /\ s.over = flow[call[s.click].flow].version

\* Who is refused was overtaken for good; who is told of success has it recorded.
Honest ==
    \A c \in Clicks : call[c] # None =>
        /\ call[c].stage \in Unread => c \notin recorded
        /\ call[c].stage = "conflict" => c \notin recorded /\ item.version > call[c].version
        /\ call[c].stage \in {"saved", "done"} => c \in recorded

FormInv == Types /\ Rooted /\ Behind /\ Carries /\ LateAsked /\ Kept /\ Honest

-----------------------------------------------------------------------------
(* The administrator's steps *)

LEMMA InitSafe ==
    ASSUME Init PROVE FormInv
BY SMT DEF Init, FormInv, Types, Rooted, Behind, Carries, LateAsked, Kept, Honest, Drafts

\* A new command starts from the version the engine has.
LEMMA StartSafe ==
    ASSUME NoneApart, FormInv, NEW f \in Flows, NEW kind, Start(f, kind)
    PROVE  FormInv'
<1> DEFINE new == [kind |-> kind, version |-> item.version, kept |-> TRUE, age |-> 0, quiet |-> 0, waited |-> 0]
<1>1. flow[f] = None /\ flow' = [flow EXCEPT ![f] = new] /\ kind \in Kinds
  BY DEF Start
<1>2. new \in FlowRecord /\ new # None
  <2>1. item.version \in Nat BY DEF FormInv, Types
  <2>2. new \in FlowRecord BY <1>1, <2>1 DEF FlowRecord
  <2> QED BY <2>2 DEF NoneApart
<1>3. /\ views' = views \union {[flow |-> f, draft |-> <<>>, age |-> 0]}
      /\ UNCHANGED <<form, call, late, item, recorded, saves>>
  BY DEF Start, engine
<1>4. Types'
  <2>1. flow' \in [Flows -> FlowRecord \union {None}]
    BY <1>1, <1>2 DEF FormInv, Types
  <2>2. [flow |-> f, draft |-> <<>>, age |-> 0] \in ViewRecord
    BY DEF ViewRecord, Drafts
  <2> QED BY <1>3, <2>1, <2>2 DEF FormInv, Types
<1>5. \A g \in Flows : flow[g] # None => flow'[g] = flow[g]
  BY <1>1 DEF FormInv, Types
<1>6. flow'[f] = new /\ flow'[f].version = item.version
  BY <1>1 DEF FormInv, Types
<1> HIDE DEF new
<1>7. Rooted'
  BY <1>2, <1>3, <1>5, <1>6 DEF FormInv, Types, Rooted, ViewRecord, FormRecord, CallRecord
<1>8. Behind'
  <2> SUFFICES ASSUME NEW g \in Flows, flow'[g] # None PROVE flow'[g].version <= item.version
    BY <1>3 DEF Behind
  <2>1. CASE g = f BY <2>1, <1>6 DEF FormInv, Types
  <2>2. CASE g # f
    BY <2>2, <1>1 DEF FormInv, Types, Behind
  <2> QED BY <2>1, <2>2
<1>9. \A c \in Clicks : call[c] # None => flow'[call[c].flow] = flow[call[c].flow]
  BY <1>5 DEF FormInv, Types, Rooted, CallRecord
<1>10. Carries' /\ LateAsked' /\ Honest'
  BY <1>3, <1>9 DEF FormInv, Carries, LateAsked, Honest
<1>11. Kept'
  BY <1>3, <1>9 DEF FormInv, Kept, Types, SaveRecord
<1> QED BY <1>4, <1>7, <1>8, <1>10, <1>11 DEF FormInv

\* The commands go on with the versions they found.
SameCommands ==
    /\ flow' \in [Flows -> FlowRecord \union {None}]
    /\ \A f \in Flows :
          /\ flow'[f] = None <=> flow[f] = None
          /\ flow[f] # None => flow'[f].version = flow[f].version

LEMMA ActsSame ==
    ASSUME NoneApart, FormInv, NEW f \in Flows, flow[f] # None, flow' = Acts(f)
    PROVE  SameCommands
<1> DEFINE new == [flow[f] EXCEPT !.quiet = 0]
<1>1. flow' = [flow EXCEPT ![f] = new] BY DEF Acts
<1>2. flow[f] \in FlowRecord BY DEF FormInv, Types
<1>3. new \in FlowRecord /\ new.version = flow[f].version BY <1>2 DEF FlowRecord
<1>4. new # None BY <1>3 DEF NoneApart
<1> HIDE DEF new
<1>5. \A g \in Flows : flow'[g] = IF g = f THEN new ELSE flow[g]
  BY <1>1 DEF FormInv, Types
<1>6. flow' \in [Flows -> FlowRecord \union {None}]
  BY <1>1, <1>3 DEF FormInv, Types
<1> QED BY <1>3, <1>4, <1>5, <1>6 DEF SameCommands

\* What only changes the screen keeps the invariant.
LEMMA ScreenSafe ==
    ASSUME NoneApart, FormInv, SameCommands, UNCHANGED <<call, late, engine>>,
           views' \subseteq ViewRecord, form' \in FormRecord \union {None},
           \A v \in views' : flow[v.flow] # None,
           form' # None => flow[form'.flow] # None
    PROVE  FormInv'
<1>1. UNCHANGED <<call, late, item, recorded, saves>> BY DEF engine
<1>2. Types' BY <1>1 DEF FormInv, Types, SameCommands
<1>3. Rooted'
  <2>1. \A v \in views' : v.flow \in Flows BY DEF ViewRecord
  <2>2. form' # None => form'.flow \in Flows BY DEF FormRecord
  <2>3. \A c \in Clicks : call[c] # None => call[c].flow \in Flows
    BY DEF FormInv, Types, CallRecord
  <2> QED BY <1>1, <2>1, <2>2, <2>3 DEF FormInv, Rooted, SameCommands
<1>4. Behind' BY <1>1 DEF FormInv, Behind, SameCommands
<1>5. \A c \in Clicks : call[c] # None => flow'[call[c].flow].version = flow[call[c].flow].version
  BY DEF FormInv, Types, Rooted, CallRecord, SameCommands
<1>6. Carries' /\ LateAsked' /\ Honest'
  BY <1>1, <1>5 DEF FormInv, Carries, LateAsked, Honest
<1>7. Kept'
  BY <1>1, <1>5 DEF FormInv, Types, Kept, SaveRecord
<1> QED BY <1>2, <1>3, <1>4, <1>6, <1>7 DEF FormInv

LEMMA OpenFormSafe ==
    ASSUME NoneApart, FormInv, NEW v \in views, OpenForm(v)
    PROVE  FormInv'
<1>1. v \in ViewRecord /\ v.flow \in Flows /\ flow[v.flow] # None
  BY DEF FormInv, Types, Rooted, ViewRecord
<1>2. SameCommands BY <1>1, ActsSame DEF OpenForm
<1> DEFINE again == [v EXCEPT !.age = 0]
<1>3. again \in ViewRecord /\ again.flow = v.flow BY <1>1 DEF ViewRecord
<1>4. views' = (views \ {v}) \union {again} /\ UNCHANGED <<call, late, engine>>
  BY DEF OpenForm
<1>5. form' = form \/ form' = [flow |-> v.flow, draft |-> v.draft]
  BY DEF OpenForm
<1>6. [flow |-> v.flow, draft |-> v.draft] \in FormRecord
  BY <1>1 DEF ViewRecord, FormRecord
<1> HIDE DEF again
<1>7. views' \subseteq ViewRecord /\ \A w \in views' : flow[w.flow] # None
  BY <1>1, <1>3, <1>4 DEF FormInv, Types, Rooted
<1>8. form' \in FormRecord \union {None} /\ (form' # None => flow[form'.flow] # None)
  BY <1>1, <1>5, <1>6 DEF FormInv, Types, Rooted
<1> QED BY <1>2, <1>4, <1>7, <1>8, ScreenSafe

LEMMA SubmitSafe ==
    ASSUME NoneApart, FormInv, NEW value \in Values, Submit(value)
    PROVE  FormInv'
<1>1. form \in FormRecord /\ form.flow \in Flows /\ flow[form.flow] # None
  BY DEF Submit, FormInv, Types, Rooted, FormRecord
<1> DEFINE new == [flow |-> form.flow, draft |-> Append(form.draft, value), age |-> 0]
<1>2. new \in ViewRecord /\ new.flow = form.flow
  BY <1>1 DEF FormRecord, ViewRecord, Drafts
<1>3. /\ views' = views \/ views' = views \union {new}
      /\ form' = None /\ flow' = Acts(form.flow)
      /\ UNCHANGED <<call, late, engine>>
  BY DEF Submit
<1> HIDE DEF new
<1>4. SameCommands BY <1>1, <1>3, ActsSame
<1>5. views' \subseteq ViewRecord /\ \A w \in views' : flow[w.flow] # None
  BY <1>1, <1>2, <1>3 DEF FormInv, Types, Rooted
<1> QED BY <1>3, <1>4, <1>5, ScreenSafe

LEMMA LeavingSafe ==
    ASSUME NoneApart, FormInv, Dismiss \/ \E v \in views : Cancel(v)
    PROVE  FormInv'
<1>1. CASE Dismiss
  <2>1. SameCommands BY <1>1 DEF Dismiss, SameCommands, FormInv, Types
  <2> QED BY <1>1, <2>1, ScreenSafe DEF Dismiss, FormInv, Types, Rooted
<1>2. ASSUME NEW v \in views, Cancel(v) PROVE FormInv'
  <2>1. v.flow \in Flows /\ flow[v.flow] # None
    BY DEF FormInv, Types, Rooted, ViewRecord
  <2>2. SameCommands BY <1>2, <2>1, ActsSame DEF Cancel
  <2> QED BY <1>2, <2>2, ScreenSafe DEF Cancel, FormInv, Types, Rooted
<1> QED BY <1>1, <1>2

LEMMA TickSafe ==
    ASSUME FormFlowAssumption, NoneApart, FormInv, Tick
    PROVE  FormInv'
<1> DEFINE older(f) == [flow[f] EXCEPT !.age = @ + 1, !.kept = @ /\ flow[f].age + 1 < Life,
                            !.quiet = @ + 1, !.waited = IF @ > flow[f].quiet THEN @ ELSE flow[f].quiet + 1]
<1>1. flow' = [f \in Flows |-> IF flow[f] = None THEN None ELSE older(f)] BY DEF Tick
<1>2. \A f \in Flows : flow[f] # None => flow[f] \in FlowRecord
  BY DEF FormInv, Types
<1>3. \A f \in Flows : flow[f] # None => older(f) \in FlowRecord /\ older(f).version = flow[f].version
  <2> SUFFICES ASSUME NEW f \in Flows, flow[f] # None
      PROVE older(f) \in FlowRecord /\ older(f).version = flow[f].version
    OBVIOUS
  <2>1. flow[f] \in FlowRecord BY <1>2
  <2>2. PICK k : k \in BOOLEAN /\ k = (flow[f].kept /\ flow[f].age + 1 < Life) BY Zenon
  <2>3. (IF flow[f].waited > flow[f].quiet THEN flow[f].waited ELSE flow[f].quiet + 1) \in Nat
    BY <2>1 DEF FlowRecord
  <2>4. PICK w \in Nat :
           w = IF flow[f].waited > flow[f].quiet THEN flow[f].waited ELSE flow[f].quiet + 1
    BY <2>3
  <2>5. older(f) = [flow[f] EXCEPT !.age = @ + 1, !.kept = k, !.quiet = @ + 1, !.waited = w]
    <3>1. older(f) = [flow[f] EXCEPT !.age = @ + 1, !.kept = (flow[f].kept /\ flow[f].age + 1 < Life),
             !.quiet = @ + 1,
             !.waited = IF flow[f].waited > flow[f].quiet THEN flow[f].waited ELSE flow[f].quiet + 1]
      BY Zenon
    <3> HIDE DEF older
    <3> QED BY <2>2, <2>4, <3>1, Zenon
  <2> HIDE DEF older
  <2> DEFINE o == older(f)
  <2>6. o = [flow[f] EXCEPT !.age = @ + 1, !.kept = k, !.quiet = @ + 1, !.waited = w] BY <2>5
  <2> HIDE DEF o
  <2>7. k \in BOOLEAN BY <2>2, Zenon
  <2>8. o = [kind |-> flow[f].kind, version |-> flow[f].version, kept |-> k, age |-> flow[f].age + 1,
             quiet |-> flow[f].quiet + 1, waited |-> w]
    BY <2>1, <2>6 DEF FlowRecord
  <2>9. /\ flow[f].kind \in Kinds /\ flow[f].version \in Nat
        /\ flow[f].age \in Nat /\ flow[f].quiet \in Nat
    BY <2>1 DEF FlowRecord
  <2>10. o \in FlowRecord /\ o.version = flow[f].version
    BY <2>7, <2>8, <2>9 DEF FlowRecord
  <2> QED BY <2>10 DEF o
<1>4. \A f \in Flows : flow[f] # None => older(f) # None
  BY <1>3 DEF NoneApart
<1> HIDE DEF older
<1>5. SameCommands BY <1>1, <1>3, <1>4 DEF SameCommands
<1>6. \A v \in views : [v EXCEPT !.age = @ + 1] \in ViewRecord /\ [v EXCEPT !.age = @ + 1].flow = v.flow
  BY DEF FormInv, Types, ViewRecord
<1>7. views' = {[v EXCEPT !.age = @ + 1] : v \in {w \in views : w.age + 1 < Patience(w)}}
  BY DEF Tick
<1>8. views' \subseteq ViewRecord /\ \A v \in views' : flow[v.flow] # None
  <2> SUFFICES ASSUME NEW w \in views' PROVE w \in ViewRecord /\ flow[w.flow] # None
    OBVIOUS
  <2>1. PICK v \in views : w = [v EXCEPT !.age = @ + 1] BY <1>7
  <2> QED BY <1>6, <2>1 DEF FormInv, Rooted
<1> QED BY <1>5, <1>8, ScreenSafe DEF Tick, FormInv, Types, Rooted

-----------------------------------------------------------------------------
(* The presses *)

\* The engine stored nothing, or press c's draft over the version it carries.
Grows(c) ==
    /\ item' \in [version : Nat, body : Drafts] /\ item.version <= item'.version
    /\ recorded \subseteq recorded' /\ recorded' \subseteq recorded \union {c}
    /\ saves' \subseteq SaveRecord /\ saves \subseteq saves'
    /\ c \in recorded' => \E s \in saves' : s.click = c
    /\ \A s \in saves' \ saves : s.click = c /\ c \in recorded' /\ s.over = call[c].version

\* Press c moves on, with the version its command found once it has read it, and
\* with what it was told in step with what the engine recorded.
Advances(c) ==
    /\ call' \in [Clicks -> CallRecord \union {None}] /\ call'[c] # None
    /\ \A d \in Clicks : d # c => call'[d] = call[d]
    /\ call[c] # None => call'[c].flow = call[c].flow
    /\ flow[call'[c].flow] # None
    /\ call'[c].stage \notin Unread => call'[c].version = flow[call'[c].flow].version
    /\ call[c] # None /\ call[c].stage \notin Unread => call'[c].stage \notin Unread
    /\ late' \subseteq late \union {c}
    /\ c \in late' => call'[c].stage \notin Unread
    /\ call'[c].stage \in Unread => c \notin recorded'
    /\ call'[c].stage = "conflict" => c \notin recorded' /\ item'.version > call'[c].version
    /\ call'[c].stage \in {"saved", "done"} => c \in recorded'

\* Such a step keeps the invariant.
LEMMA PressSafe ==
    ASSUME NoneApart, FormInv, NEW c \in Clicks, SameCommands, Grows(c), Advances(c),
           (call[c] # None /\ call[c].stage \notin Unread) \/ UNCHANGED <<recorded, saves>>,
           views' \subseteq views, form' = form
    PROVE  FormInv'
<1>1. Types' BY DEF FormInv, Types, SameCommands, Grows, Advances
<1>2. \A d \in Clicks : call[d] # None => /\ call[d].flow \in Flows /\ flow[call[d].flow] # None
                                         /\ flow'[call[d].flow] # None
                                         /\ flow'[call[d].flow].version = flow[call[d].flow].version
  BY DEF FormInv, Types, Rooted, CallRecord, SameCommands
<1>3. /\ call'[c].flow \in Flows /\ flow'[call'[c].flow] # None
      /\ flow'[call'[c].flow].version = flow[call'[c].flow].version
  BY DEF Advances, CallRecord, SameCommands
<1>4. Rooted'
  <2>1. \A v \in views' : v.flow \in Flows /\ flow[v.flow] # None
    BY DEF FormInv, Types, Rooted, ViewRecord
  <2>2. form' # None => form'.flow \in Flows /\ flow[form'.flow] # None
    BY DEF FormInv, Types, Rooted, FormRecord
  <2> QED BY <1>2, <1>3, <2>1, <2>2 DEF Rooted, SameCommands, Advances
<1>5. Behind'
  <2> SUFFICES ASSUME NEW f \in Flows, flow'[f] # None PROVE flow'[f].version <= item'.version
    BY DEF Behind
  <2>1. flow[f] # None /\ flow'[f].version = flow[f].version BY DEF SameCommands
  <2>2. flow[f].version <= item.version BY <2>1 DEF FormInv, Behind
  <2>3. flow[f].version \in Nat /\ item.version \in Nat /\ item'.version \in Nat
    BY <2>1, <1>1 DEF FormInv, Types, FlowRecord
  <2> QED BY <2>1, <2>2, <2>3 DEF Grows
<1>6. Carries'
  <2> SUFFICES ASSUME NEW d \in Clicks, call'[d] # None, call'[d].stage \notin Unread
      PROVE call'[d].version = flow'[call'[d].flow].version
    BY DEF Carries
  <2>1. CASE d = c BY <2>1, <1>3 DEF Advances
  <2>2. CASE d # c BY <2>2, <1>2 DEF Advances, FormInv, Carries
  <2> QED BY <2>1, <2>2
<1>7. LateAsked'
  <2> SUFFICES ASSUME NEW d \in late' PROVE call'[d] # None /\ call'[d].stage \notin Unread
    BY DEF LateAsked
  <2>1. d \in Clicks BY <1>1 DEF Types
  <2> QED BY <2>1 DEF Advances, FormInv, LateAsked
<1>8. Kept'
  <2>1. ASSUME NEW d \in recorded' PROVE \E s \in saves' : s.click = d
    BY DEF Grows, FormInv, Kept
  <2>2. ASSUME NEW s \in saves'
        PROVE s.click \in recorded' /\ call'[s.click] # None
              /\ s.over = flow'[call'[s.click].flow].version
    <3>1. CASE s \in saves
      <4>1. s.click \in Clicks /\ s.click \in recorded /\ call[s.click] # None
            /\ s.over = flow[call[s.click].flow].version
        BY <3>1 DEF FormInv, Types, Kept, SaveRecord
      <4>2. call'[s.click] # None /\ call'[s.click].flow = call[s.click].flow
        BY <4>1 DEF Advances
      <4> QED BY <4>1, <4>2, <1>2 DEF Grows
    <3>2. CASE s \notin saves
      <4>1. s.click = c /\ c \in recorded' /\ s.over = call[c].version
        BY <3>2 DEF Grows
      <4>2. call[c] # None /\ call[c].stage \notin Unread BY <3>2
      <4>3. call[c].version = flow[call[c].flow].version
        BY <4>2 DEF FormInv, Carries
      <4> QED BY <4>1, <4>2, <4>3, <1>2 DEF Advances
    <3> QED BY <3>1, <3>2
  <2> QED BY <2>1, <2>2 DEF Kept
<1>9. Honest'
  <2> SUFFICES ASSUME NEW d \in Clicks, call'[d] # None
      PROVE /\ call'[d].stage \in Unread => d \notin recorded'
            /\ call'[d].stage = "conflict" => d \notin recorded' /\ item'.version > call'[d].version
            /\ call'[d].stage \in {"saved", "done"} => d \in recorded'
    BY DEF Honest
  <2>1. CASE d = c BY <2>1 DEF Advances
  <2>2. CASE d # c
    <3>1. call'[d] = call[d] /\ (d \in recorded' <=> d \in recorded)
      BY <2>2 DEF Advances, Grows
    <3>2. ASSUME call[d].stage = "conflict" PROVE item'.version > call[d].version
      <4>1. d \notin recorded /\ item.version > call[d].version
        BY <3>1, <3>2 DEF FormInv, Honest
      <4>2. call[d].version \in Nat
        <5>1. call[d].version = flow[call[d].flow].version
          BY <3>1, <3>2 DEF FormInv, Carries, Unread
        <5>2. flow[call[d].flow] \in FlowRecord
          BY <3>1, <1>2 DEF FormInv, Types
        <5> QED BY <5>1, <5>2 DEF FlowRecord
      <4> QED BY <4>1, <4>2 DEF Grows, FormInv, Types
    <3> QED BY <3>1, <3>2 DEF FormInv, Honest
  <2> QED BY <2>1, <2>2
<1> QED BY <1>1, <1>4, <1>5, <1>6, <1>7, <1>8, <1>9 DEF FormInv

LEMMA NothingServed ==
    ASSUME FormInv, UNCHANGED engine, NEW c \in Clicks
    PROVE  Grows(c)
BY DEF FormInv, Types, Kept, Grows, engine

\* Serving an attempt of a press that carries a version.
LEMMA ServedGrows ==
    ASSUME FormInv, NEW c \in Clicks, call[c] # None, call[c].stage \notin Unread, Served(c)
    PROVE  /\ Grows(c)
           /\ Answer(c) = "saved" => c \in recorded'
           /\ Answer(c) = "conflict" => UNCHANGED engine /\ c \notin recorded /\ item.version > call[c].version
           /\ item.version > call[c].version => UNCHANGED engine
<1>1. call[c] \in CallRecord BY DEF FormInv, Types
<1>2. call[c].draft \in Drafts BY <1>1 DEF CallRecord
<1>3. flow[call[c].flow] \in FlowRecord /\ call[c].version = flow[call[c].flow].version
      /\ flow[call[c].flow].version <= item.version
  BY <1>1 DEF FormInv, Types, Rooted, Carries, Behind, CallRecord
<1>4. call[c].version \in Nat /\ item.version \in Nat /\ call[c].version <= item.version
  BY <1>3 DEF FormInv, Types, FlowRecord
<1>5. CASE c \in recorded
  <2>1. Answer(c) = "saved" /\ UNCHANGED engine BY <1>5 DEF Answer, Key, Served
  <2> QED BY <1>5, <2>1, NothingServed DEF engine
<1>6. CASE c \notin recorded /\ item.version # call[c].version
  <2>1. Answer(c) = "conflict" /\ UNCHANGED engine BY <1>6 DEF Answer, Key, Served
  <2> QED BY <1>4, <1>6, <2>1, NothingServed DEF engine
<1>7. CASE c \notin recorded /\ item.version = call[c].version
  <2> DEFINE new == [click |-> c, draft |-> call[c].draft, over |-> item.version]
  <2>1. /\ Answer(c) = "saved"
        /\ item' = [version |-> item.version + 1, body |-> call[c].draft]
        /\ recorded' = recorded \union {c}
        /\ saves' = saves \union {new}
    BY <1>7 DEF Answer, Key, Served
  <2>2. new \in SaveRecord /\ new.click = c /\ new.over = call[c].version
    BY <1>2, <1>4, <1>7 DEF SaveRecord
  <2> HIDE DEF new
  <2>3. Grows(c) BY <1>2, <1>4, <2>1, <2>2 DEF FormInv, Types, Grows
  <2> QED BY <1>4, <1>7, <2>1, <2>3
<1> QED BY <1>5, <1>6, <1>7

LEMMA SameFlows ==
    ASSUME FormInv, flow' = flow PROVE SameCommands
BY DEF SameCommands, FormInv, Types

LEMMA ConfirmSafe ==
    ASSUME NoneApart, FormInv, NEW v \in views, NEW c \in Clicks, Confirm(v, c)
    PROVE  FormInv'
<1> DEFINE new == [flow |-> v.flow, draft |-> v.draft, version |-> None, stage |-> "clicked", tries |-> 0]
<1>1. v \in ViewRecord /\ v.flow \in Flows /\ flow[v.flow] # None
  BY DEF FormInv, Types, Rooted, ViewRecord
<1>2. /\ call[c] = None /\ call' = [call EXCEPT ![c] = new] /\ flow' = Acts(v.flow)
      /\ UNCHANGED <<views, form, late, engine>>
  BY DEF Confirm
<1>3. new \in CallRecord /\ new.flow = v.flow /\ new.stage = "clicked"
  BY <1>1 DEF ViewRecord, CallRecord, Stages
<1>4. new # None BY <1>3 DEF NoneApart
<1> HIDE DEF new
<1>5. SameCommands BY <1>1, <1>2, ActsSame
<1>6. Grows(c) BY <1>2, NothingServed
<1>7. c \notin recorded /\ c \notin late
  BY <1>2 DEF FormInv, Kept, LateAsked
<1>8. Advances(c)
  BY <1>1, <1>2, <1>3, <1>4, <1>7 DEF Advances, FormInv, Types, Unread, engine
<1>9. UNCHANGED <<recorded, saves>> BY <1>2 DEF engine
<1> QED BY <1>2, <1>5, <1>6, <1>8, <1>9, PressSafe

\* A press that becomes another record of the same command's form.
LEMMA PressBecomes ==
    ASSUME NoneApart, FormInv, NEW c \in Clicks, call[c] # None,
           NEW new \in CallRecord, new.flow = call[c].flow, call' = [call EXCEPT ![c] = new]
    PROVE  /\ call' \in [Clicks -> CallRecord \union {None}]
           /\ call'[c] = new /\ new # None
           /\ \A d \in Clicks : d # c => call'[d] = call[d]
           /\ flow[new.flow] # None
BY DEF FormInv, Types, Rooted, NoneApart

\* What a press is told changes its stage and its button.
LEMMA TellSafe ==
    ASSUME NoneApart, FormInv, NEW c \in Clicks, call[c] # None, NEW why \in Stages, Tell(c, why),
           SameCommands, Grows(c), UNCHANGED form,
           (call[c].stage \notin Unread) \/ UNCHANGED <<recorded, saves>>,
           why \notin Unread => call[c].version = flow[call[c].flow].version,
           call[c].stage \notin Unread => why \notin Unread,
           late' \subseteq late \union {c}, c \in late' => why \notin Unread,
           why \in Unread => c \notin recorded',
           why = "conflict" => c \notin recorded' /\ item'.version > call[c].version,
           why \in {"saved", "done"} => c \in recorded'
    PROVE  FormInv'
<1> DEFINE new == [call[c] EXCEPT !.stage = why]
<1>1. call[c] \in CallRecord BY DEF FormInv, Types
<1>2. new \in CallRecord /\ new.flow = call[c].flow /\ new.stage = why /\ new.version = call[c].version
  BY <1>1 DEF CallRecord
<1>3. call' = [call EXCEPT ![c] = new] /\ views' \subseteq views BY DEF Tell
<1> HIDE DEF new
<1>4. /\ call' \in [Clicks -> CallRecord \union {None}]
      /\ call'[c] = new /\ new # None
      /\ \A d \in Clicks : d # c => call'[d] = call[d]
      /\ flow[new.flow] # None
  BY <1>2, <1>3, PressBecomes
<1>5. Advances(c) BY <1>2, <1>4 DEF Advances
<1> QED BY <1>3, <1>5, PressSafe

LEMMA ReadSessionSafe ==
    ASSUME FormFlowAssumption, NoneApart, FormInv, NEW c \in Clicks, ReadSession(c)
    PROVE  FormInv'
<1> DEFINE f == flow[call[c].flow]
<1>1. /\ call[c] # None /\ call[c].stage = "clicked" /\ call[c] \in CallRecord
      /\ call[c].flow \in Flows /\ f # None /\ f \in FlowRecord
  BY DEF ReadSession, At, FormInv, Types, Rooted, CallRecord
<1>2. c \notin recorded /\ c \notin late
  BY <1>1 DEF FormInv, Honest, LateAsked, Unread
<1>3. UNCHANGED <<form, late, engine, recorded, saves, item>> BY DEF ReadSession, engine
<1>4. Grows(c) BY <1>3, NothingServed
<1>5. CASE Tell(c, "expired") /\ UNCHANGED flow
  <2>1. SameCommands BY <1>5, SameFlows
  <2> QED BY <1>1, <1>2, <1>3, <1>4, <1>5, <2>1, TellSafe DEF Stages, Unread
<1>6. CASE /\ call' = [call EXCEPT ![c].stage = "asking", ![c].version = f.version]
           /\ flow' = [flow EXCEPT ![call[c].flow].age = 0]
           /\ UNCHANGED views
  <2> DEFINE new == [call[c] EXCEPT !.stage = "asking", !.version = f.version]
  <2> DEFINE kept == [f EXCEPT !.age = 0]
  <2>1. f.version \in Nat BY <1>1 DEF FlowRecord
  <2>2. new \in CallRecord /\ new.flow = call[c].flow /\ new.stage = "asking" /\ new.version = f.version
    BY <1>1, <2>1 DEF CallRecord, Stages
  <2>3. kept \in FlowRecord /\ kept.version = f.version BY <1>1 DEF FlowRecord
  <2>4. kept # None BY <2>3 DEF NoneApart
  <2>5. call' = [call EXCEPT ![c] = new] /\ flow' = [flow EXCEPT ![call[c].flow] = kept] BY <1>6
  <2> HIDE DEF new, kept
  <2>6. SameCommands BY <1>1, <2>3, <2>4, <2>5 DEF SameCommands, FormInv, Types
  <2>7. /\ call' \in [Clicks -> CallRecord \union {None}]
        /\ call'[c] = new /\ new # None
        /\ \A d \in Clicks : d # c => call'[d] = call[d]
        /\ flow[new.flow] # None
    BY <1>1, <2>2, <2>5, PressBecomes
  <2>8. Advances(c) BY <1>1, <1>2, <1>3, <2>2, <2>7 DEF Advances, Unread
  <2> QED BY <1>3, <1>4, <1>6, <2>6, <2>8, PressSafe
<1>7. \/ Tell(c, "expired") /\ UNCHANGED flow
      \/ /\ call' = [call EXCEPT ![c].stage = "asking", ![c].version = f.version]
         /\ flow' = [flow EXCEPT ![call[c].flow].age = 0]
         /\ UNCHANGED views
  BY DEF ReadSession
<1> HIDE DEF f
<1> QED BY <1>5, <1>6, <1>7

\* A press that asks has read its session.
LEMMA AskingCarries ==
    ASSUME FormInv, NEW c \in Clicks, At(c, "asking") \/ At(c, "saved")
    PROVE  /\ call[c] # None /\ call[c].stage \notin Unread /\ call[c] \in CallRecord
           /\ call[c].version = flow[call[c].flow].version
BY DEF At, FormInv, Types, Carries, Unread

\* An attempt that came to nothing is made again, or the press is given up.
LEMMA AgainSafe ==
    ASSUME FormFlowAssumption, NoneApart, FormInv, NEW c \in Clicks, At(c, "asking"), Again(c),
           Grows(c), UNCHANGED <<flow, form>>, late' \subseteq late \union {c}
    PROVE  FormInv'
<1>1. /\ call[c] # None /\ call[c].stage \notin Unread /\ call[c] \in CallRecord
      /\ call[c].version = flow[call[c].flow].version /\ call[c].stage = "asking"
  BY AskingCarries DEF At
<1>2. SameCommands BY SameFlows
<1>3. CASE call' = [call EXCEPT ![c].tries = @ + 1] /\ UNCHANGED views
  <2> DEFINE new == [call[c] EXCEPT !.tries = @ + 1]
  <2>1. new \in CallRecord /\ new.flow = call[c].flow /\ new.stage = "asking" /\ new.version = call[c].version
    BY <1>1 DEF CallRecord
  <2>2. call' = [call EXCEPT ![c] = new] BY <1>3
  <2> HIDE DEF new
  <2>3. /\ call' \in [Clicks -> CallRecord \union {None}]
        /\ call'[c] = new /\ new # None
        /\ \A d \in Clicks : d # c => call'[d] = call[d]
        /\ flow[new.flow] # None
    BY <1>1, <2>1, <2>2, PressBecomes
  <2>4. Advances(c) BY <1>1, <2>1, <2>3 DEF Advances, Unread
  <2> QED BY <1>1, <1>2, <1>3, <2>4, PressSafe
<1>4. CASE Tell(c, "unavailable")
  <2> QED BY <1>1, <1>2, <1>4, TellSafe DEF Stages, Unread
<1> QED BY <1>3, <1>4 DEF Again

LEMMA AskSafe ==
    ASSUME FormFlowAssumption, NoneApart, FormInv, NEW c \in Clicks, Ask(c)
    PROVE  FormInv'
<1>1. At(c, "asking") /\ Served(c) /\ UNCHANGED <<flow, form, late>> BY DEF Ask
<1>2. /\ call[c] # None /\ call[c].stage \notin Unread /\ call[c] \in CallRecord
      /\ call[c].version = flow[call[c].flow].version
  BY <1>1, AskingCarries
<1>3. /\ Grows(c)
      /\ Answer(c) = "saved" => c \in recorded'
      /\ Answer(c) = "conflict" => UNCHANGED engine /\ c \notin recorded /\ item.version > call[c].version
  BY <1>1, <1>2, ServedGrows
<1>4. SameCommands BY <1>1, SameFlows
<1>5. CASE Answer(c) = "saved" /\ call' = [call EXCEPT ![c].stage = "saved"] /\ UNCHANGED views
  <2> DEFINE new == [call[c] EXCEPT !.stage = "saved"]
  <2>1. new \in CallRecord /\ new.flow = call[c].flow /\ new.stage = "saved" /\ new.version = call[c].version
    BY <1>2 DEF CallRecord, Stages
  <2>2. call' = [call EXCEPT ![c] = new] BY <1>5
  <2> HIDE DEF new
  <2>3. /\ call' \in [Clicks -> CallRecord \union {None}]
        /\ call'[c] = new /\ new # None
        /\ \A d \in Clicks : d # c => call'[d] = call[d]
        /\ flow[new.flow] # None
    BY <1>2, <2>1, <2>2, PressBecomes
  <2>4. Advances(c) BY <1>1, <1>2, <1>3, <1>5, <2>1, <2>3 DEF Advances, Unread
  <2> QED BY <1>1, <1>2, <1>3, <1>4, <1>5, <2>4, PressSafe
<1>6. CASE Answer(c) = "conflict" /\ Tell(c, "conflict")
  <2>1. c \notin recorded' /\ item'.version > call[c].version BY <1>3, <1>6 DEF engine
  <2> QED BY <1>1, <1>2, <1>3, <1>4, <1>6, <2>1, TellSafe DEF Stages, Unread
<1>7. CASE Again(c) BY <1>1, <1>3, <1>7, AgainSafe
<1> QED BY <1>5, <1>6, <1>7 DEF Ask

LEMMA LoseSafe ==
    ASSUME FormFlowAssumption, NoneApart, FormInv, NEW c \in Clicks, Lose(c)
    PROVE  FormInv'
<1>1. At(c, "asking") /\ Again(c) /\ UNCHANGED <<flow, form, engine>> BY DEF Lose
<1>2. late' \subseteq late \union {c} BY DEF Lose
<1> QED BY <1>1, <1>2, NothingServed, AgainSafe

\* Whatever the press was told meanwhile, its attempt still finds what it asked for.
LEMMA ArriveLateSafe ==
    ASSUME NoneApart, FormInv, NEW c \in Clicks, ArriveLate(c)
    PROVE  FormInv'
<1>1. c \in late /\ late' = late \ {c} /\ Served(c) /\ UNCHANGED <<flow, views, form, call>>
  BY DEF ArriveLate, gateway
<1>2. call[c] # None /\ call[c].stage \notin Unread
  BY <1>1 DEF FormInv, LateAsked
<1>3. Grows(c) /\ (item.version > call[c].version => UNCHANGED engine)
  BY <1>1, <1>2, ServedGrows
<1>4. SameCommands BY <1>1, SameFlows
<1>5. call[c].stage = "conflict" => c \notin recorded' /\ item'.version > call[c].version
  <2> SUFFICES ASSUME call[c].stage = "conflict" PROVE c \notin recorded' /\ item'.version > call[c].version
    OBVIOUS
  <2>1. c \notin recorded /\ item.version > call[c].version BY <1>2 DEF FormInv, Honest
  <2> QED BY <1>3, <2>1 DEF engine
<1>6. call[c].stage \in {"saved", "done"} => c \in recorded'
  BY <1>2, <1>3 DEF FormInv, Honest, Grows
<1>7. call[c].version = flow[call[c].flow].version /\ flow[call[c].flow] # None
  BY <1>2 DEF FormInv, Carries, Rooted
<1>8. Advances(c)
  BY <1>1, <1>2, <1>5, <1>6, <1>7 DEF Advances, FormInv, Types
<1> QED BY <1>1, <1>2, <1>3, <1>4, <1>8, PressSafe

LEMMA FinishSafe ==
    ASSUME NoneApart, FormInv, NEW c \in Clicks, Finish(c)
    PROVE  FormInv'
<1> DEFINE f == flow[call[c].flow]
<1> DEFINE ended == [f EXCEPT !.kept = FALSE]
<1>1. /\ At(c, "saved") /\ Tell(c, "done") /\ flow' = [flow EXCEPT ![call[c].flow] = ended]
      /\ UNCHANGED <<form, late, engine>>
  BY DEF Finish
<1>2. /\ call[c] # None /\ call[c].stage \notin Unread /\ call[c] \in CallRecord
      /\ call[c].version = f.version
  BY <1>1, AskingCarries
<1>3. call[c].flow \in Flows /\ f # None /\ f \in FlowRecord
  BY <1>2 DEF FormInv, Types, Rooted, CallRecord
<1>4. ended \in FlowRecord /\ ended.version = f.version BY <1>3 DEF FlowRecord
<1>5. ended # None BY <1>4 DEF NoneApart
<1> HIDE DEF ended
<1>6. SameCommands BY <1>1, <1>3, <1>4, <1>5 DEF SameCommands, FormInv, Types
<1>7. c \in recorded' BY <1>1, <1>2 DEF At, FormInv, Honest, engine
<1> QED BY <1>1, <1>2, <1>6, <1>7, NothingServed, TellSafe DEF Stages, Unread

-----------------------------------------------------------------------------
(* The specification *)

LEMMA NextSafe ==
    ASSUME FormFlowAssumption, NoneApart, FormInv, [Next]_vars
    PROVE  FormInv'
<1>1. ASSUME NEW f \in Flows,
             EditConfig(f) \/ EditMessage(f) \/ EditReward(f) \/ EditEvent(f) \/ EditLocation(f)
      PROVE  FormInv'
  BY <1>1, StartSafe DEF EditConfig, EditMessage, EditReward, EditEvent, EditLocation
<1>2. ASSUME NEW v \in views, OpenForm(v) PROVE FormInv' BY <1>2, OpenFormSafe
<1>3. ASSUME NEW v \in views, Cancel(v) PROVE FormInv' BY <1>3, LeavingSafe
<1>4. ASSUME NEW v \in views, NEW c \in Clicks, Confirm(v, c) PROVE FormInv' BY <1>4, ConfirmSafe
<1>5. ASSUME NEW value \in Values, Submit(value) PROVE FormInv' BY <1>5, SubmitSafe
<1>6. CASE Dismiss BY <1>6, LeavingSafe
<1>7. CASE Tick BY <1>7, TickSafe
<1>8. ASSUME NEW c \in Clicks,
             ReadSession(c) \/ Ask(c) \/ Lose(c) \/ ArriveLate(c) \/ Finish(c)
      PROVE  FormInv'
  BY <1>8, ReadSessionSafe, AskSafe, LoseSafe, ArriveLateSafe, FinishSafe
<1>9. CASE UNCHANGED vars
  BY <1>9 DEF vars, gateway, engine, FormInv, Types, Rooted, Behind, Carries, LateAsked, Kept, Honest
<1> QED BY <1>1, <1>2, <1>3, <1>4, <1>5, <1>6, <1>7, <1>8, <1>9 DEF Next

LEMMA FormInvHolds ==
    ASSUME FormFlowAssumption, NoneApart
    PROVE  Spec => []FormInv
<1>1. Init => FormInv BY InitSafe
<1>2. FormInv /\ [Next]_vars => FormInv' BY NextSafe
<1> QED BY <1>1, <1>2, PTL DEF Spec

\* What a form stores replaces the version its command found, whichever buttons
\* are pressed again, however late an attempt arrives.
THEOREM FormsAreNotStale ==
    ASSUME FormFlowAssumption, NoneApart
    PROVE  Spec => []StaleFormChangesNothing
<1>1. FormInv => StaleFormChangesNothing
  BY DEF FormInv, Kept, StaleFormChangesNothing
<1> QED BY <1>1, FormInvHolds, PTL

\* An administrator who is told of a conflict or of an expired form has stored
\* nothing with that press and never will; one who is told it is done has.
THEOREM FormsAreAnswered ==
    ASSUME FormFlowAssumption, NoneApart
    PROVE  Spec => []AnswersAreTrue
<1>1. FormInv => AnswersAreTrue
  BY DEF FormInv, Kept, Honest, AnswersAreTrue, Savers, Unread
<1> QED BY <1>1, FormInvHolds, PTL

-----------------------------------------------------------------------------
(* The item wizard.  Its parameters and variables are ItemWizard's; those whose *)
(* names are the forms' have others here.                                       *)

CONSTANTS Ids, Opened, Bodies, Blocked, Refused, Cyclic, Existing, Commands, Limit, MaxOthers

VARIABLES wizardFlow, step, draft, kept, age, idle, card, live, wizardForm, wizardCall,
          wizardLate, told, items, wizardRecorded, seen, applied, others

Wizard == INSTANCE ItemWizard WITH
    Flows <- Commands, flow <- wizardFlow, form <- wizardForm, call <- wizardCall,
    late <- wizardLate, recorded <- wizardRecorded

Definition == [version : Nat \ {0}, body : Bodies]
DraftRecord == [id : Ids \union {None}, body : Bodies, version : (Nat \ {0}) \union {None}]
SeenRecord == [id : Ids, body : Bodies, version : Nat \ {0}]
SentRecord == [payload : DraftRecord, seen : SeenRecord \union {None}]
SavingRecord == [view : Wizard!Views, sent : SentRecord \union {None}, tries : Nat]
WriteRecord == [payload : DraftRecord, found : Definition \union {None},
                seen : SeenRecord \union {None}]

\* None is no definition, no draft, no request, no call and no version.
WizardNoneApart ==
    None \notin Definition \union DraftRecord \union SeenRecord \union SentRecord
                 \union SavingRecord \union Nat

\* A draft has the version of what it was made from.
Matches(d, s) == d.version = IF s = None THEN None ELSE s.version

\* What a draft was made from has been there, and is there unless the item's
\* version has grown; it is there while nobody has written.
Current(s) ==
    s # None =>
        /\ items[s.id] # None /\ items[s.id].version >= s.version
        /\ items[s.id].version = s.version => items[s.id] = Wizard!Said(s)
        /\ others = 0 /\ wizardRecorded = None => items[s.id] = Wizard!Said(s)

\* A request that may arrive.
Sendable(m) ==
    /\ m \in SentRecord /\ m.payload.id \in Ids
    /\ Matches(m.payload, m.seen) /\ Current(m.seen)

DraftInv ==
    /\ draft \in DraftRecord /\ seen \in SeenRecord \union {None}
    /\ Matches(draft, seen) /\ Current(seen)
    /\ Wizard!Editing => seen # None

\* No card answers under the first form; a card after it has an ID.
ScreenInv ==
    /\ step \in Wizard!Steps /\ card \in Wizard!Cards
    /\ wizardForm \in {"none", "rarity", "review"}
    /\ kept \in BOOLEAN /\ live \in BOOLEAN /\ age \in 0 .. Limit /\ idle \in 0 .. Limit
    /\ wizardForm = "rarity" => ~ live
    /\ card \in {"none", "template"} \/ draft.id \in Ids

\* The cards that may answer while a confirmation is served.
ReviewCards == {"review", "review_mechanics", "review_effects"}

\* While a confirmation is served the review and what it leads to may be used,
\* which leave the step and the request alone.
CallInv ==
    wizardCall # None =>
        /\ wizardCall \in SavingRecord
        /\ wizardCall.sent # None => Sendable(wizardCall.sent)
        /\ step = "submitting" /\ card \in ReviewCards /\ wizardForm # "rarity"

EngineInv ==
    /\ items \in [Ids -> Definition \union {None}]
    /\ others \in Nat
    /\ wizardRecorded \in DraftRecord \union {None}
    /\ \A m \in wizardLate : Sendable(m)
    /\ applied \in Seq(WriteRecord) /\ Len(applied) <= 1
    /\ wizardRecorded = None => applied = <<>>
    /\ Wizard!ReplacesWhatItShowed

WizardInv == DraftInv /\ ScreenInv /\ CallInv /\ EngineInv

-----------------------------------------------------------------------------
(* What the administrator does *)

\* The confirmation that is served learns at most what became of its view.
CallKept ==
    \/ wizardCall' = wizardCall
    \/ wizardCall # None /\ \E v \in Wizard!Views : wizardCall' = [wizardCall EXCEPT !.view = v]

\* A button or a form: the draft keeps the version of what it was made from,
\* unless it is made anew, and a confirmation goes on.
Edits ==
    /\ Wizard!Rest /\ CallKept
    /\ step' \in Wizard!Steps /\ card' \in Wizard!Cards
    /\ wizardForm' \in {"none", "rarity", "review"}
    /\ kept' \in BOOLEAN /\ live' \in BOOLEAN /\ age' \in 0 .. Limit /\ idle' \in 0 .. Limit
    /\ wizardForm' = "rarity" => ~ live'
    /\ card' \in {"none", "template"} \/ draft'.id \in Ids
    /\ \/ draft' = draft /\ seen' = seen
       \/ draft' \in DraftRecord /\ draft'.version = draft.version /\ seen' = seen
       \/ /\ draft.id \in Ids /\ items[draft.id] # None
          /\ draft' = Wizard!Seeded(draft.id) /\ seen' = draft'
    /\ wizardCall # None => step' = step /\ card' \in ReviewCards /\ wizardForm' # "rarity"
    /\ card' = "conflict" => card = "conflict"

\* The engine has not changed.
LEMMA RestKeepsCurrent ==
    ASSUME NEW s, Wizard!Rest, Current(s)
    PROVE  Current(s)'
  BY DEF Wizard!Rest, Wizard!engine, Current

LEMMA SeededIsCurrent ==
    ASSUME WizardNoneApart, EngineInv, NEW i \in Ids, items[i] # None
    PROVE  /\ Wizard!Seeded(i) \in SeenRecord /\ Wizard!Seeded(i) \in DraftRecord
           /\ Matches(Wizard!Seeded(i), Wizard!Seeded(i)) /\ Current(Wizard!Seeded(i))
<1>1. items[i] \in Definition
    BY DEF EngineInv
<1>2. Wizard!Seeded(i) = [id |-> i, body |-> items[i].body, version |-> items[i].version]
    BY DEF Wizard!Seeded
<1>3. Wizard!Seeded(i) \in SeenRecord /\ Wizard!Seeded(i) \in DraftRecord
    BY <1>1, <1>2 DEF Definition, SeenRecord, DraftRecord
<1>4. items[i] = [version |-> items[i].version, body |-> items[i].body]
    BY <1>1 DEF Definition
<1>5. Current(Wizard!Seeded(i))
    BY <1>1, <1>2, <1>4 DEF Current, Wizard!Said, Definition
<1>6. QED
    BY <1>3, <1>5 DEF Matches, WizardNoneApart

LEMMA EditsKeep ==
    ASSUME WizardNoneApart, WizardInv, Edits
    PROVE  WizardInv'
<1>1. /\ UNCHANGED wizardFlow /\ UNCHANGED wizardLate /\ UNCHANGED items
      /\ UNCHANGED wizardRecorded /\ UNCHANGED applied /\ UNCHANGED others
    BY DEF Edits, Wizard!Rest, Wizard!engine
<1>2. DraftInv'
    <2>1. CASE draft' \in DraftRecord /\ draft'.version = draft.version /\ seen' = seen
        BY <1>1, <2>1 DEF WizardInv, DraftInv, Matches, Current, Wizard!Editing
    <2>2. CASE draft' = draft /\ seen' = seen
        BY <1>1, <2>2 DEF WizardInv, DraftInv, Matches, Current, Wizard!Editing
    <2>3. CASE /\ draft.id \in Ids /\ items[draft.id] # None
               /\ draft' = Wizard!Seeded(draft.id) /\ seen' = draft'
        <3>1. PICK s : s = Wizard!Seeded(draft.id)
            OBVIOUS
        <3>2. s \in SeenRecord /\ s \in DraftRecord /\ Matches(s, s) /\ Current(s)
            BY <2>3, <3>1, SeededIsCurrent DEF WizardInv
        <3>3. draft' = s /\ seen' = s /\ s # None
            BY <2>3, <3>1, <3>2 DEF WizardNoneApart
        <3>4. Current(s)'
            BY <3>2, RestKeepsCurrent DEF Edits
        <3>5. QED
            BY <3>2, <3>3, <3>4 DEF DraftInv, Matches, Current
    <2>4. QED
        BY <2>1, <2>2, <2>3 DEF Edits
<1>3. ScreenInv'
    BY <1>1 DEF Edits, WizardInv, ScreenInv
<1>4. CallInv'
    <2>1. CASE wizardCall' = wizardCall
        BY <1>1, <2>1 DEF Edits, WizardInv, CallInv, Sendable, Current
    <2>2. ASSUME wizardCall # None, NEW v \in Wizard!Views,
                 wizardCall' = [wizardCall EXCEPT !.view = v]
          PROVE  CallInv'
        <3>1. wizardCall' \in SavingRecord /\ wizardCall'.sent = wizardCall.sent
            BY <2>2 DEF WizardInv, CallInv, SavingRecord
        <3>2. QED
            BY <1>1, <2>2, <3>1 DEF Edits, WizardInv, CallInv, Sendable, Current
    <2>3. QED
        BY <2>1, <2>2 DEF Edits, CallKept
<1>5. EngineInv'
    BY <1>1 DEF WizardInv, EngineInv, Sendable, Current, Wizard!ReplacesWhatItShowed
<1>6. QED
    BY <1>2, <1>3, <1>4, <1>5 DEF WizardInv

\* The draft with another ID or another body.
LEMMA DraftEdited ==
    ASSUME WizardInv
    PROVE  /\ \A b \in Bodies : LET d == [draft EXCEPT !.body = b] IN
                 d \in DraftRecord /\ d.version = draft.version /\ d.id = draft.id
           /\ \A i \in Ids, b \in Bodies : LET d == [draft EXCEPT !.id = i, !.body = b] IN
                 d \in DraftRecord /\ d.version = draft.version /\ d.id = i
  BY DEF WizardInv, DraftInv, DraftRecord

\* What can be used while a confirmation is served.
LEMMA InReach ==
    ASSUME WizardInv, wizardCall # None
    PROVE  step = "submitting" /\ card \in ReviewCards /\ wizardForm # "rarity"
  BY DEF WizardInv, CallInv

LEMMA UncalledKeeps ==
    ASSUME Wizard!Uncalled
    PROVE  Wizard!Rest /\ CallKept
  BY DEF Wizard!Uncalled, CallKept

LEMMA BecomesKeeps ==
    ASSUME NEW v \in Wizard!Views, Wizard!Becomes(v)
    PROVE  CallKept
  BY DEF Wizard!Becomes, CallKept

LEMMA TemplateContinueEdits ==
    ASSUME Wizard!WizardAssumption, WizardInv, Wizard!TemplateContinue
    PROVE  Edits
<1>1. Wizard!Rest /\ CallKept /\ 0 \in 0 .. Limit
    BY UncalledKeeps DEF Wizard!TemplateContinue, Wizard!WizardAssumption
<1>2. wizardCall # None => step = "submitting" /\ card \in ReviewCards /\ wizardForm # "rarity"
    BY InReach
<1>3. QED
    BY <1>1, <1>2, DraftEdited DEF Wizard!TemplateContinue, Edits, WizardInv, ScreenInv,
       ReviewCards, Wizard!Steps, Wizard!Cards, Wizard!Used, Wizard!Moves, Wizard!Saved,
       Wizard!Unsaved, Wizard!OpensForm, Wizard!Stops

LEMMA SubmitBasicEdits ==
    ASSUME Wizard!WizardAssumption, WizardInv, Wizard!SubmitBasic
    PROVE  Edits
<1>1. /\ wizardForm = "rarity" /\ wizardForm' = "none" /\ idle' = 0 /\ UNCHANGED seen
      /\ Wizard!Rest /\ CallKept
    BY UncalledKeeps DEF Wizard!SubmitBasic
<1>2. wizardCall = None /\ 0 \in 0 .. Limit
    BY <1>1, InReach DEF Wizard!WizardAssumption
<1>3. PICK i \in Ids, b \in Bodies :
        \/ UNCHANGED <<step, draft, kept, age, card, live>>
        \/ /\ draft' = [draft EXCEPT !.id = i, !.body = b]
           /\ Wizard!Moves("rarity", Wizard!Shows("rarity"), Wizard!Stays)
    BY DEF Wizard!SubmitBasic
<1>4. CASE UNCHANGED <<step, draft, kept, age, card, live>>
    BY <1>1, <1>2, <1>4 DEF Edits, WizardInv, ScreenInv, Wizard!Steps, Wizard!Cards
<1>5. CASE /\ draft' = [draft EXCEPT !.id = i, !.body = b]
           /\ Wizard!Moves("rarity", Wizard!Shows("rarity"), Wizard!Stays)
    <2>1. draft' \in DraftRecord /\ draft'.version = draft.version /\ draft'.id \in Ids
        BY <1>5, DraftEdited
    <2>2. QED
        BY <1>1, <1>2, <1>5, <2>1 DEF Edits, WizardInv, ScreenInv, Wizard!Steps, Wizard!Cards,
           Wizard!Moves, Wizard!Saved, Wizard!Unsaved, Wizard!Stays, Wizard!Shows
<1>6. QED
    BY <1>3, <1>4, <1>5

LEMMA SubmitReviewedEdits ==
    ASSUME Wizard!WizardAssumption, WizardInv, Wizard!SubmitReviewed
    PROVE  Edits
<1>1. /\ wizardForm = "review" /\ wizardForm' = "none" /\ idle' = 0
      /\ UNCHANGED step /\ UNCHANGED seen /\ Wizard!Rest
      /\ Wizard!Keeps("review", Wizard!Stays)
    BY DEF Wizard!SubmitReviewed
<1>2. CallKept /\ 0 \in 0 .. Limit
    BY BecomesKeeps DEF Wizard!SubmitReviewed, Wizard!WizardAssumption, Wizard!Views, CallKept
<1>3. PICK i \in Ids, b \in Bodies : draft' = [draft EXCEPT !.id = i, !.body = b]
    BY DEF Wizard!SubmitReviewed
<1>4. draft' \in DraftRecord /\ draft'.version = draft.version /\ draft'.id \in Ids
    BY <1>3, DraftEdited
<1>5. /\ step' \in Wizard!Steps /\ kept \in BOOLEAN /\ age \in 0 .. Limit
      /\ card \in Wizard!Cards /\ live \in BOOLEAN
    BY <1>1 DEF WizardInv, ScreenInv
<1>6. wizardCall # None => step' = step /\ card \in ReviewCards
    BY <1>1, InReach
<1>7. CASE Wizard!Saved /\ Wizard!Shows("review")
    <2>1. /\ kept' = kept /\ age' = 0 /\ card' = "review" /\ live' = TRUE
        BY <1>7 DEF Wizard!Saved, Wizard!Shows
    <2>2. QED
        BY <1>1, <1>2, <1>4, <1>5, <1>6, <2>1 DEF Edits, Wizard!Cards, ReviewCards
<1>8. CASE Wizard!Unsaved /\ Wizard!Stays
    <2>1. kept' = kept /\ age' = age /\ card' = card /\ live' = live
        BY <1>8 DEF Wizard!Unsaved, Wizard!Stays
    <2>2. QED
        BY <1>1, <1>2, <1>4, <1>5, <1>6, <2>1 DEF Edits
<1>9. QED
    BY <1>1, <1>7, <1>8 DEF Wizard!Keeps

LEMMA ChooseEdits ==
    ASSUME Wizard!WizardAssumption, WizardInv, Wizard!Choose
    PROVE  Edits
<1>1. Wizard!Rest /\ CallKept /\ 0 \in 0 .. Limit
    BY UncalledKeeps DEF Wizard!Choose, Wizard!WizardAssumption
<1>2. wizardCall # None => step = "submitting" /\ card \in ReviewCards /\ wizardForm # "rarity"
    BY InReach
<1>3. QED
    BY <1>1, <1>2, DraftEdited DEF Wizard!Choose, Edits, WizardInv, ScreenInv,
       ReviewCards, Wizard!Steps, Wizard!Cards, Wizard!Used, Wizard!session

LEMMA RarityContinueEdits ==
    ASSUME Wizard!WizardAssumption, WizardInv, Wizard!RarityContinue
    PROVE  Edits
<1>1. Wizard!Rest /\ CallKept /\ 0 \in 0 .. Limit
    BY UncalledKeeps DEF Wizard!RarityContinue, Wizard!WizardAssumption
<1>2. wizardCall # None => step = "submitting" /\ card \in ReviewCards /\ wizardForm # "rarity"
    BY InReach
<1>3. QED
    BY <1>1, <1>2, DraftEdited DEF Wizard!RarityContinue, Edits, WizardInv, ScreenInv,
       ReviewCards, Wizard!Steps, Wizard!Cards, Wizard!Used, Wizard!Moves, Wizard!Saved,
       Wizard!Unsaved, Wizard!Stops, Wizard!Shows

LEMMA RarityBackEdits ==
    ASSUME Wizard!WizardAssumption, WizardInv, Wizard!RarityBack
    PROVE  Edits
<1>1. Wizard!Rest /\ CallKept /\ 0 \in 0 .. Limit
    BY UncalledKeeps DEF Wizard!RarityBack, Wizard!WizardAssumption
<1>2. wizardCall # None => step = "submitting" /\ card \in ReviewCards /\ wizardForm # "rarity"
    BY InReach
<1>3. QED
    BY <1>1, <1>2, DraftEdited DEF Wizard!RarityBack, Edits, WizardInv, ScreenInv,
       ReviewCards, Wizard!Steps, Wizard!Cards, Wizard!Used, Wizard!Moves, Wizard!Saved,
       Wizard!Unsaved, Wizard!OpensForm, Wizard!Stops

LEMMA MechanicsChooseEdits ==
    ASSUME Wizard!WizardAssumption, WizardInv, Wizard!MechanicsChoose
    PROVE  Edits
<1>1. Wizard!Rest /\ CallKept /\ 0 \in 0 .. Limit
    BY UncalledKeeps DEF Wizard!MechanicsChoose, Wizard!WizardAssumption
<1>2. wizardCall # None => step = "submitting" /\ card \in ReviewCards /\ wizardForm # "rarity"
    BY InReach
<1>3. QED
    BY <1>1, <1>2, DraftEdited DEF Wizard!MechanicsChoose, Edits, WizardInv, ScreenInv,
       ReviewCards, Wizard!Steps, Wizard!Cards, Wizard!Used, Wizard!Keeps, Wizard!Saved,
       Wizard!Unsaved, Wizard!Stays, Wizard!Shows

LEMMA MechanicsContinueEdits ==
    ASSUME Wizard!WizardAssumption, WizardInv, Wizard!MechanicsContinue
    PROVE  Edits
<1>1. Wizard!Rest /\ CallKept /\ 0 \in 0 .. Limit
    BY UncalledKeeps DEF Wizard!MechanicsContinue, Wizard!WizardAssumption
<1>2. wizardCall # None => step = "submitting" /\ card \in ReviewCards /\ wizardForm # "rarity"
    BY InReach
<1>3. QED
    BY <1>1, <1>2, DraftEdited DEF Wizard!MechanicsContinue, Edits, WizardInv, ScreenInv,
       ReviewCards, Wizard!Steps, Wizard!Cards, Wizard!Used, Wizard!Keeps, Wizard!Moves,
       Wizard!Saved, Wizard!Unsaved, Wizard!Stops, Wizard!Shows

LEMMA MechanicsBackEdits ==
    ASSUME Wizard!WizardAssumption, WizardInv, Wizard!MechanicsBack
    PROVE  Edits
<1>1. Wizard!Rest /\ CallKept /\ 0 \in 0 .. Limit
    BY UncalledKeeps DEF Wizard!MechanicsBack, Wizard!WizardAssumption
<1>2. wizardCall # None => step = "submitting" /\ card \in ReviewCards /\ wizardForm # "rarity"
    BY InReach
<1>3. QED
    BY <1>1, <1>2, DraftEdited DEF Wizard!MechanicsBack, Edits, WizardInv, ScreenInv,
       ReviewCards, Wizard!Steps, Wizard!Cards, Wizard!Used, Wizard!Moves, Wizard!Saved,
       Wizard!Unsaved, Wizard!Stops, Wizard!Shows

LEMMA EffectsContinueEdits ==
    ASSUME Wizard!WizardAssumption, WizardInv, Wizard!EffectsContinue
    PROVE  Edits
<1>1. Wizard!Rest /\ CallKept /\ 0 \in 0 .. Limit
    BY UncalledKeeps DEF Wizard!EffectsContinue, Wizard!WizardAssumption
<1>2. wizardCall # None => step = "submitting" /\ card \in ReviewCards /\ wizardForm # "rarity"
    BY InReach
<1>3. QED
    BY <1>1, <1>2, DraftEdited DEF Wizard!EffectsContinue, Edits, WizardInv, ScreenInv,
       ReviewCards, Wizard!Steps, Wizard!Cards, Wizard!Used, Wizard!Keeps, Wizard!Moves,
       Wizard!Saved, Wizard!Unsaved, Wizard!Stops, Wizard!Shows

LEMMA EffectsBackEdits ==
    ASSUME Wizard!WizardAssumption, WizardInv, Wizard!EffectsBack
    PROVE  Edits
<1>1. Wizard!Rest /\ CallKept /\ 0 \in 0 .. Limit
    BY UncalledKeeps DEF Wizard!EffectsBack, Wizard!WizardAssumption
<1>2. wizardCall # None => step = "submitting" /\ card \in ReviewCards /\ wizardForm # "rarity"
    BY InReach
<1>3. QED
    BY <1>1, <1>2, DraftEdited DEF Wizard!EffectsBack, Edits, WizardInv, ScreenInv,
       ReviewCards, Wizard!Steps, Wizard!Cards, Wizard!Used, Wizard!Moves, Wizard!Saved,
       Wizard!Unsaved, Wizard!Stops, Wizard!Shows, Wizard!Deletes

LEMMA EditBasicEdits ==
    ASSUME Wizard!WizardAssumption, WizardInv, Wizard!EditBasic
    PROVE  Edits
<1>1. Wizard!Rest /\ CallKept /\ 0 \in 0 .. Limit
    BY BecomesKeeps DEF Wizard!EditBasic, Wizard!WizardAssumption, Wizard!Views
<1>2. wizardCall # None => step = "submitting" /\ card \in ReviewCards /\ wizardForm # "rarity"
    BY InReach
<1>3. QED
    BY <1>1, <1>2 DEF Wizard!EditBasic, Edits, WizardInv, ScreenInv,
       ReviewCards, Wizard!Steps, Wizard!Cards, Wizard!Used, Wizard!OpensForm, Wizard!session

LEMMA EditMechanicsEdits ==
    ASSUME Wizard!WizardAssumption, WizardInv, Wizard!EditMechanics
    PROVE  Edits
<1>1. Wizard!Rest /\ CallKept /\ 0 \in 0 .. Limit
    BY BecomesKeeps DEF Wizard!EditMechanics, Wizard!WizardAssumption, Wizard!Views
<1>2. wizardCall # None => step = "submitting" /\ card \in ReviewCards /\ wizardForm # "rarity"
    BY InReach
<1>3. QED
    BY <1>1, <1>2 DEF Wizard!EditMechanics, Edits, WizardInv, ScreenInv,
       ReviewCards, Wizard!Steps, Wizard!Cards, Wizard!Used, Wizard!Shows, Wizard!session

LEMMA EditEffectsEdits ==
    ASSUME Wizard!WizardAssumption, WizardInv, Wizard!EditEffects
    PROVE  Edits
<1>1. Wizard!Rest /\ CallKept /\ 0 \in 0 .. Limit
    BY BecomesKeeps DEF Wizard!EditEffects, Wizard!WizardAssumption, Wizard!Views
<1>2. wizardCall # None => step = "submitting" /\ card \in ReviewCards /\ wizardForm # "rarity"
    BY InReach
<1>3. QED
    BY <1>1, <1>2 DEF Wizard!EditEffects, Edits, WizardInv, ScreenInv,
       ReviewCards, Wizard!Steps, Wizard!Cards, Wizard!Used, Wizard!Shows

LEMMA CancelEdits ==
    ASSUME Wizard!WizardAssumption, WizardInv, Wizard!Cancel
    PROVE  Edits
<1>1. Wizard!Rest /\ CallKept /\ 0 \in 0 .. Limit
    BY BecomesKeeps DEF Wizard!Cancel, Wizard!WizardAssumption, Wizard!Views
<1>2. wizardCall # None => step = "submitting" /\ card \in ReviewCards /\ wizardForm # "rarity"
    BY InReach
<1>3. QED
    BY <1>1, <1>2 DEF Wizard!Cancel, Edits, WizardInv, ScreenInv,
       ReviewCards, Wizard!Steps, Wizard!Cards, Wizard!Used, Wizard!Deletes

LEMMA DismissEdits ==
    ASSUME Wizard!WizardAssumption, WizardInv, Wizard!Dismiss
    PROVE  Edits
<1>1. Wizard!Rest /\ CallKept /\ 0 \in 0 .. Limit
    BY UncalledKeeps DEF Wizard!Dismiss, Wizard!WizardAssumption
<1>2. wizardCall # None => step = "submitting" /\ card \in ReviewCards /\ wizardForm # "rarity"
    BY InReach
<1>3. QED
    BY <1>1, <1>2, DraftEdited DEF Wizard!Dismiss, Edits, WizardInv, ScreenInv,
       ReviewCards, Wizard!Steps, Wizard!Cards, Wizard!Used, Wizard!session

LEMMA ReloadEdits ==
    ASSUME Wizard!WizardAssumption, WizardInv, Wizard!Reload
    PROVE  Edits
<1>1. /\ live /\ card = "conflict" /\ idle' = 0 /\ UNCHANGED step /\ UNCHANGED wizardForm
      /\ Wizard!Rest /\ CallKept /\ draft.id \in Ids
    BY UncalledKeeps DEF Wizard!Reload, Wizard!Used, WizardInv, ScreenInv
<1>2. wizardCall = None /\ 0 \in 0 .. Limit
    BY <1>1, InReach DEF Wizard!WizardAssumption, ReviewCards
<1>3. CASE /\ items[draft.id] # None
           /\ draft' = Wizard!Seeded(draft.id) /\ seen' = draft'
           /\ Wizard!Keeps("review", Wizard!Stops)
    <2>1. draft'.id \in Ids
        BY <1>1, <1>3 DEF Wizard!Seeded
    <2>2. QED
        BY <1>1, <1>2, <1>3, <2>1 DEF Edits, WizardInv, ScreenInv, Wizard!Steps, Wizard!Cards,
           Wizard!Keeps, Wizard!Saved, Wizard!Unsaved, Wizard!Shows, Wizard!Stops
<1>4. CASE Wizard!Stops /\ UNCHANGED <<draft, seen, kept, age>>
    BY <1>1, <1>2, <1>4 DEF Edits, WizardInv, ScreenInv, Wizard!Steps, Wizard!Cards, Wizard!Stops
<1>5. QED
    BY <1>3, <1>4 DEF Wizard!Reload

-----------------------------------------------------------------------------
(* What the engine does *)

\* Definitions only get newer versions, and are as they were while nobody has
\* written.
ItemsGrow ==
    /\ items' \in [Ids -> Definition \union {None}]
    /\ \A i \in Ids : items[i] # None =>
         /\ items'[i] # None
         /\ items'[i] = items[i] \/ items'[i].version > items[i].version
    /\ others' = 0 /\ wizardRecorded' = None =>
         others = 0 /\ wizardRecorded = None /\ items' = items

LEMMA GrowsKeepsCurrent ==
    ASSUME WizardNoneApart, EngineInv, ItemsGrow, NEW s \in SeenRecord \union {None}, Current(s)
    PROVE  Current(s)'
<1> SUFFICES ASSUME s # None PROVE Current(s)'
    BY DEF Current
<1>1. s.id \in Ids /\ s.version \in Nat
    BY DEF SeenRecord
<1>2. items[s.id] \in Definition /\ items'[s.id] \in Definition
    BY <1>1 DEF Current, ItemsGrow, EngineInv
<1>3. items[s.id].version \in Nat /\ items'[s.id].version \in Nat
    BY <1>2 DEF Definition
<1>4. /\ items[s.id] # None /\ items[s.id].version >= s.version
      /\ items[s.id].version = s.version => items[s.id] = Wizard!Said(s)
      /\ others = 0 /\ wizardRecorded = None => items[s.id] = Wizard!Said(s)
    BY DEF Current
<1>5. CASE items'[s.id] = items[s.id]
    BY <1>4, <1>5 DEF Current, Wizard!Said, ItemsGrow
<1>6. CASE items'[s.id].version > items[s.id].version
    <2>1. items'[s.id].version > s.version
        BY <1>1, <1>3, <1>4, <1>6
    <2>2. ~(others' = 0 /\ wizardRecorded' = None)
        BY <1>3, <1>6 DEF ItemsGrow
    <2>3. items'[s.id] # None
        BY <1>1, <1>4 DEF ItemsGrow
    <2>4. QED
        BY <1>1, <1>3, <2>1, <2>2, <2>3 DEF Current
<1>7. QED
    BY <1>1, <1>4, <1>5, <1>6 DEF ItemsGrow

\* upsert_item writes over what the draft was made from, or not at all.
LEMMA WrittenGrows ==
    ASSUME WizardNoneApart, EngineInv, NEW m, Sendable(m), Wizard!Written(m), UNCHANGED others
    PROVE  /\ ItemsGrow
           /\ wizardRecorded' \in DraftRecord \union {None}
           /\ applied' \in Seq(WriteRecord) /\ Len(applied') <= 1
           /\ wizardRecorded' = None => applied' = <<>>
           /\ Wizard!ReplacesWhatItShowed'
<1> DEFINE p == m.payload
           i == m.payload.id
           d == [version |-> IF items[i] = None THEN 1 ELSE items[i].version + 1, body |-> p.body]
           w == [payload |-> p, found |-> items[i], seen |-> m.seen]
<1>1. p \in DraftRecord /\ i \in Ids /\ m.seen \in SeenRecord \union {None}
    BY DEF Sendable, SentRecord
<1>2. items[i] \in Definition \union {None}
    BY <1>1 DEF EngineInv
<1>3. CASE Wizard!Accepted(p)
    <2>1. /\ wizardRecorded' = p /\ items' = [items EXCEPT ![i] = d]
          /\ applied' = Append(applied, w)
        BY <1>3 DEF Wizard!Written
    <2>2. wizardRecorded = None /\ applied = <<>> /\ p # None
        BY <1>1, <1>3 DEF Wizard!Accepted, Wizard!Recorded, EngineInv, WizardNoneApart
    <2>3. d \in Definition /\ (items[i] # None => d.version > items[i].version)
        <3>1. items[i] # None => items[i].version \in Nat \ {0}
            BY <1>2 DEF Definition
        <3>2. p.body \in Bodies
            BY <1>1 DEF DraftRecord
        <3>3. QED
            BY <3>1, <3>2 DEF Definition
    <2>4. w \in WriteRecord
        BY <1>1, <1>2 DEF WriteRecord
    <2> HIDE DEF d
    <2>5. ItemsGrow
        BY <1>1, <2>1, <2>2, <2>3 DEF ItemsGrow, EngineInv, WizardNoneApart
    <2>6. w.seen # None /\ w.payload.id = w.seen.id => w.found = Wizard!Said(w.seen)
        <3> SUFFICES ASSUME m.seen # None, i = m.seen.id PROVE items[i] = Wizard!Said(m.seen)
            OBVIOUS
        <3>1. /\ items[i] # None
              /\ items[i].version = m.seen.version => items[i] = Wizard!Said(m.seen)
            BY DEF Sendable, Current
        <3>2. items[i].version = p.version /\ p.version = m.seen.version
            BY <1>3, <3>1 DEF Wizard!Accepted, Wizard!Fits, Sendable, Matches
        <3>3. QED
            BY <3>1, <3>2
    <2> HIDE DEF w
    <2>7. applied' = <<w>>
        BY <2>1, <2>2
    <2>8. applied' \in Seq(WriteRecord) /\ Len(applied') = 1 /\ applied'[1] = w
        BY <2>4, <2>7
    <2>9. Wizard!ReplacesWhatItShowed'
        BY <2>6, <2>8 DEF Wizard!ReplacesWhatItShowed, Wizard!Said
    <2>10. QED
        BY <1>1, <2>1, <2>2, <2>5, <2>8, <2>9
<1>4. CASE ~ Wizard!Accepted(p)
    <2>1. UNCHANGED items /\ UNCHANGED wizardRecorded /\ UNCHANGED applied
        BY <1>4 DEF Wizard!Written, Wizard!engine
    <2>2. ItemsGrow
        BY <2>1 DEF ItemsGrow, EngineInv
    <2>3. QED
        BY <2>1, <2>2 DEF EngineInv, Wizard!ReplacesWhatItShowed
<1>5. QED
    BY <1>3, <1>4

\* What may arrive later, may arrive still.
LEMMA SendableStays ==
    ASSUME WizardNoneApart, EngineInv, ItemsGrow, NEW m, Sendable(m)
    PROVE  Sendable(m)'
<1>1. m.seen \in SeenRecord \union {None} /\ Current(m.seen)
    BY DEF Sendable, SentRecord
<1>2. PICK s : s = m.seen
    OBVIOUS
<1>3. Current(s)'
    BY <1>1, <1>2, GrowsKeepsCurrent
<1>4. QED
    BY <1>2, <1>3 DEF Sendable

\* The engine has written: what is on its way to it stays as it is.
LEMMA EngineKeeps ==
    ASSUME WizardNoneApart, EngineInv, NEW m, Sendable(m), Wizard!Written(m), UNCHANGED others,
           wizardLate' \subseteq wizardLate \union {m}
    PROVE  EngineInv' /\ ItemsGrow
<1>1. /\ ItemsGrow
      /\ wizardRecorded' \in DraftRecord \union {None}
      /\ applied' \in Seq(WriteRecord) /\ Len(applied') <= 1
      /\ wizardRecorded' = None => applied' = <<>>
      /\ Wizard!ReplacesWhatItShowed'
    BY WrittenGrows
<1>2. \A n \in wizardLate' : Sendable(n)'
    <2>1. ASSUME NEW n \in wizardLate \union {m} PROVE Sendable(n)
        BY DEF EngineInv
    <2>2. QED
        BY <1>1, <2>1, SendableStays
<1>3. QED
    BY <1>1, <1>2 DEF EngineInv, ItemsGrow, Sendable

\* The draft is left alone.
LEMMA DraftKeeps ==
    ASSUME WizardNoneApart, WizardInv, ItemsGrow, UNCHANGED draft, UNCHANGED seen,
           UNCHANGED wizardFlow
    PROVE  DraftInv'
<1>1. PICK s : s = seen
    OBVIOUS
<1>2. s \in SeenRecord \union {None} /\ Current(s)
    BY <1>1 DEF WizardInv, DraftInv
<1>3. Current(s)'
    BY <1>2, GrowsKeepsCurrent DEF WizardInv
<1>4. QED
    BY <1>1, <1>3 DEF WizardInv, DraftInv, Wizard!Editing, Matches, Current

\* What is being sent may arrive.
LEMMA SendingIsSendable ==
    ASSUME WizardInv, Wizard!Sending
    PROVE  /\ wizardCall # None /\ wizardCall \in SavingRecord
           /\ Sendable(wizardCall.sent) /\ wizardCall.sent \in SentRecord
  BY DEF WizardInv, CallInv, Sendable, Wizard!Sending

\* The review reports a failure.
LEMMA ReportsKeeps ==
    ASSUME Wizard!WizardAssumption, WizardInv, wizardCall # None, NEW why, Wizard!Reports(why),
           step' \in Wizard!Steps, age' \in 0 .. Limit, kept' = kept, UNCHANGED draft
    PROVE  ScreenInv' /\ CallInv'
<1>1. wizardForm # "rarity" /\ draft.id \in Ids
    BY InReach DEF ReviewCards, WizardInv, ScreenInv
<1>2. live' \in BOOLEAN /\ card' = "review" /\ wizardForm' = wizardForm /\ idle' = idle
    BY DEF Wizard!Reports
<1>3. wizardCall' = None
    BY DEF Wizard!Reports
<1>4. QED
    BY <1>1, <1>2, <1>3 DEF WizardInv, ScreenInv, CallInv, Wizard!Cards

\* The engine has answered, or the administrator is told that it has not.
LEMMA ConcludesKeeps ==
    ASSUME Wizard!WizardAssumption, WizardInv, wizardCall # None, NEW why,
           Wizard!Concludes(why)
    PROVE  ScreenInv' /\ CallInv' /\ UNCHANGED draft /\ UNCHANGED seen
<1>1. draft.id \in Ids /\ wizardForm # "rarity" /\ kept \in BOOLEAN /\ age \in 0 .. Limit
    BY InReach DEF ReviewCards, WizardInv, ScreenInv
<1>2. 0 \in 0 .. Limit
    BY DEF Wizard!WizardAssumption
<1>3. CASE why = "ok"
    <2>1. Wizard!Deletes("saved") /\ UNCHANGED idle /\ wizardCall' = None
        BY <1>3 DEF Wizard!Concludes
    <2>2. QED
        BY <1>1, <1>2, <2>1 DEF Wizard!Deletes, WizardInv, ScreenInv, CallInv
<1>4. CASE why # "ok"
    <2>1. /\ step' = "review" /\ age' = (IF kept THEN 0 ELSE age)
          /\ draft' = draft /\ seen' = seen /\ kept' = kept
        BY <1>4 DEF Wizard!Concludes
    <2>2. age' \in 0 .. Limit
        BY <1>1, <1>2, <2>1
    <2>3. CASE /\ wizardCall' = None /\ card' = "conflict" /\ live' = TRUE
               /\ UNCHANGED <<wizardForm, idle>>
        BY <1>1, <2>1, <2>2, <2>3 DEF WizardInv, ScreenInv, CallInv, Wizard!Steps, Wizard!Cards
    <2>4. CASE Wizard!Reports(why)
        BY <2>1, <2>2, <2>4, ReportsKeeps DEF Wizard!Steps
    <2>5. QED
        BY <1>4, <2>3, <2>4 DEF Wizard!Concludes
<1>5. QED
    BY <1>3, <1>4

LEMMA ServeKeeps ==
    ASSUME Wizard!WizardAssumption, WizardNoneApart, WizardInv, Wizard!Serve
    PROVE  WizardInv'
<1>1. /\ Wizard!Sending /\ Wizard!Written(wizardCall.sent)
      /\ Wizard!Concludes(Wizard!Answer(wizardCall.sent.payload))
      /\ UNCHANGED wizardFlow /\ UNCHANGED wizardLate /\ UNCHANGED others
    BY DEF Wizard!Serve
<1>2. EngineInv' /\ ItemsGrow
    BY <1>1, SendingIsSendable, EngineKeeps DEF WizardInv
<1>3. ScreenInv' /\ CallInv' /\ UNCHANGED draft /\ UNCHANGED seen
    BY <1>1, ConcludesKeeps DEF Wizard!Sending
<1>4. QED
    BY <1>1, <1>2, <1>3, DraftKeeps DEF WizardInv

LEMMA LoseAttemptKeeps ==
    ASSUME Wizard!WizardAssumption, WizardNoneApart, WizardInv, Wizard!LoseAttempt
    PROVE  WizardInv'
<1>1. Wizard!Sending /\ UNCHANGED others
    BY DEF Wizard!LoseAttempt
<1>2. /\ wizardCall # None /\ wizardCall \in SavingRecord
      /\ Sendable(wizardCall.sent) /\ wizardCall.sent \in SentRecord
    BY <1>1, SendingIsSendable
<1>3. EngineInv' /\ ItemsGrow
    <2>1. CASE Wizard!Written(wizardCall.sent) /\ UNCHANGED wizardLate
        BY <1>1, <1>2, <2>1, EngineKeeps DEF WizardInv
    <2>2. CASE wizardLate' = wizardLate \union {wizardCall.sent} /\ UNCHANGED Wizard!engine
        <3>1. UNCHANGED items /\ UNCHANGED wizardRecorded /\ UNCHANGED applied
            BY <2>2 DEF Wizard!engine
        <3>2. ItemsGrow
            BY <1>1, <3>1 DEF ItemsGrow, WizardInv, EngineInv
        <3>3. \A m \in wizardLate' : Sendable(m)
            BY <1>2, <2>2 DEF WizardInv, EngineInv
        <3>4. \A m \in wizardLate' : Sendable(m)'
            BY <3>2, <3>3, SendableStays DEF WizardInv
        <3>5. QED
            BY <1>1, <3>1, <3>2, <3>4 DEF WizardInv, EngineInv, Wizard!ReplacesWhatItShowed
    <2>3. QED
        BY <2>1, <2>2 DEF Wizard!LoseAttempt
<1>4. ScreenInv' /\ CallInv' /\ UNCHANGED draft /\ UNCHANGED seen /\ UNCHANGED wizardFlow
    <2>1. CASE wizardCall.tries + 1 < Attempts
        <3> DEFINE n == [wizardCall EXCEPT !.tries = @ + 1]
        <3>1. n \in SavingRecord /\ n.sent = wizardCall.sent
            BY <1>2 DEF SavingRecord
        <3>2. wizardCall' = n /\ UNCHANGED Wizard!session /\ UNCHANGED Wizard!screen
            BY <2>1 DEF Wizard!LoseAttempt, Wizard!Again
        <3> HIDE DEF n
        <3>3. UNCHANGED draft /\ UNCHANGED seen /\ UNCHANGED wizardFlow
            BY <3>2 DEF Wizard!session
        <3>4. ScreenInv'
            BY <1>1, <3>2 DEF Wizard!session, Wizard!screen, WizardInv, ScreenInv
        <3>5. PICK m : m = wizardCall.sent
            OBVIOUS
        <3>6. Sendable(m)'
            BY <1>2, <1>3, <3>5, SendableStays DEF WizardInv
        <3>7. wizardCall' \in SavingRecord /\ wizardCall'.sent = m
            BY <3>1, <3>2, <3>5
        <3>8. CallInv'
            BY <1>2, <3>2, <3>6, <3>7 DEF Wizard!session, Wizard!screen, WizardInv, CallInv,
               Sendable, Current
        <3>9. QED
            BY <3>3, <3>4, <3>8
    <2>2. CASE ~(wizardCall.tries + 1 < Attempts)
        <3>1. Wizard!Concludes("unavailable") /\ UNCHANGED wizardFlow
            BY <2>2 DEF Wizard!LoseAttempt
        <3>2. QED
            BY <1>2, <3>1, ConcludesKeeps
    <2>3. QED
        BY <2>1, <2>2
<1>5. QED
    BY <1>3, <1>4, DraftKeeps DEF WizardInv

\* Nothing but the engine changes.
LEMMA GatewayRests ==
    ASSUME WizardNoneApart, WizardInv, UNCHANGED Wizard!session, UNCHANGED Wizard!screen,
           UNCHANGED wizardCall,
           EngineInv', ItemsGrow, others' >= others
    PROVE  WizardInv'
<1>1. /\ UNCHANGED draft /\ UNCHANGED seen /\ UNCHANGED wizardFlow /\ UNCHANGED step
      /\ UNCHANGED kept /\ UNCHANGED age
    BY DEF Wizard!session
<1>2. UNCHANGED idle /\ UNCHANGED card /\ UNCHANGED live /\ UNCHANGED wizardForm
    BY DEF Wizard!screen
<1>3. others \in Nat /\ others' \in Nat
    BY DEF WizardInv, EngineInv
<1>4. ScreenInv'
    BY <1>1, <1>2, <1>3 DEF WizardInv, ScreenInv
<1>5. CallInv'
    <2>1. ASSUME wizardCall # None, wizardCall.sent # None PROVE Sendable(wizardCall.sent)'
        <3>1. PICK m : m = wizardCall.sent
            OBVIOUS
        <3>2. Sendable(m)'
            BY <2>1, <3>1, SendableStays DEF WizardInv, CallInv
        <3>3. QED
            BY <3>1, <3>2 DEF Sendable, Current, Matches
    <2>2. QED
        BY <1>1, <1>2, <2>1 DEF WizardInv, CallInv
<1>6. QED
    BY <1>1, <1>4, <1>5, DraftKeeps DEF WizardInv

LEMMA ArriveLateKeeps ==
    ASSUME Wizard!WizardAssumption, WizardNoneApart, WizardInv, NEW m \in wizardLate,
           Wizard!ArriveLate(m)
    PROVE  WizardInv'
<1>1. /\ Wizard!Written(m) /\ wizardLate' = wizardLate \ {m}
      /\ UNCHANGED others /\ others' >= others
      /\ UNCHANGED Wizard!session /\ UNCHANGED Wizard!screen /\ UNCHANGED wizardCall
    BY DEF Wizard!ArriveLate, WizardInv, EngineInv
<1>2. Sendable(m)
    BY DEF WizardInv, EngineInv
<1>3. EngineInv' /\ ItemsGrow
    BY <1>1, <1>2, EngineKeeps DEF WizardInv
<1>4. QED
    BY <1>1, <1>3, GatewayRests

LEMMA OtherEditKeeps ==
    ASSUME Wizard!WizardAssumption, WizardNoneApart, WizardInv, NEW i \in Ids, Wizard!OtherEdit(i)
    PROVE  WizardInv'
<1>1. PICK b \in Bodies :
        /\ items' = [items EXCEPT ![i] =
             [version |-> IF @ = None THEN 1 ELSE @.version + 1, body |-> b]]
        /\ others' = others + 1
        /\ UNCHANGED Wizard!session /\ UNCHANGED Wizard!screen /\ UNCHANGED wizardCall
        /\ UNCHANGED wizardLate /\ UNCHANGED wizardRecorded /\ UNCHANGED applied
    BY DEF Wizard!OtherEdit
<1> DEFINE d == [version |-> IF items[i] = None THEN 1 ELSE items[i].version + 1, body |-> b]
<1>2. items[i] \in Definition \union {None} /\ others \in Nat
    BY DEF WizardInv, EngineInv
<1>3. d \in Definition /\ (items[i] # None => d.version > items[i].version)
    BY <1>2 DEF Definition
<1>4. items' = [items EXCEPT ![i] = d] /\ others' \in Nat /\ others' # 0 /\ others' >= others
    BY <1>1, <1>2
<1> HIDE DEF d
<1>5. ItemsGrow
    BY <1>3, <1>4 DEF ItemsGrow, WizardInv, EngineInv, WizardNoneApart
<1>6. \A m \in wizardLate : Sendable(m)'
    <2>1. \A m \in wizardLate : Sendable(m)
        BY DEF WizardInv, EngineInv
    <2>2. QED
        BY <1>5, <2>1, SendableStays DEF WizardInv
<1>7. EngineInv'
    BY <1>1, <1>4, <1>5, <1>6 DEF WizardInv, EngineInv, ItemsGrow, Wizard!ReplacesWhatItShowed
<1>8. QED
    BY <1>1, <1>4, <1>5, <1>7, GatewayRests

\* A confirmation begins only while none is served.
LEMMA ConfirmKeeps ==
    ASSUME Wizard!WizardAssumption, WizardNoneApart, WizardInv, Wizard!Confirm
    PROVE  WizardInv'
<1>1. /\ live /\ card = "review" /\ idle' = 0
      /\ UNCHANGED card /\ UNCHANGED live /\ UNCHANGED wizardForm /\ UNCHANGED wizardFlow
      /\ UNCHANGED draft /\ UNCHANGED seen /\ UNCHANGED kept /\ UNCHANGED age
      /\ UNCHANGED wizardLate /\ UNCHANGED others
      /\ UNCHANGED items /\ UNCHANGED wizardRecorded /\ UNCHANGED applied
    BY DEF Wizard!Confirm, Wizard!Used, Wizard!Rest, Wizard!engine
<1>2. 0 \in 0 .. Limit /\ wizardForm # "rarity" /\ draft.id \in Ids
    BY <1>1 DEF Wizard!WizardAssumption, WizardInv, ScreenInv
<1>3. DraftInv' /\ EngineInv'
    BY <1>1 DEF WizardInv, DraftInv, EngineInv, Sendable, Matches, Current, Wizard!Editing,
       Wizard!ReplacesWhatItShowed
<1>4. CASE UNCHANGED <<step, wizardCall>>
    <2>1. ScreenInv'
        BY <1>1, <1>2, <1>4 DEF WizardInv, ScreenInv
    <2>2. CallInv'
        BY <1>1, <1>4 DEF WizardInv, CallInv, Sendable, Current, Matches
    <2>3. QED
        BY <1>3, <2>1, <2>2 DEF WizardInv
<1>5. CASE /\ step' = "submitting"
           /\ wizardCall' = [view |-> "shown", sent |-> None, tries |-> 0]
    <2>1. ScreenInv'
        BY <1>1, <1>2, <1>5 DEF WizardInv, ScreenInv, Wizard!Steps
    <2>2. wizardCall' \in SavingRecord /\ wizardCall'.sent = None
        BY <1>5 DEF SavingRecord, Wizard!Views
    <2>3. CallInv'
        BY <1>1, <1>2, <1>5, <2>2 DEF CallInv, ReviewCards
    <2>4. QED
        BY <1>3, <2>1, <2>3 DEF WizardInv
<1>6. QED
    BY <1>4, <1>5 DEF Wizard!Confirm

\* The request says what the draft says by now.
LEMMA MarkKeeps ==
    ASSUME Wizard!WizardAssumption, WizardNoneApart, WizardInv, Wizard!Mark
    PROVE  WizardInv'
<1>1. /\ wizardCall # None /\ UNCHANGED step /\ UNCHANGED wizardFlow
      /\ UNCHANGED draft /\ UNCHANGED seen /\ UNCHANGED wizardLate /\ UNCHANGED others
      /\ UNCHANGED items /\ UNCHANGED wizardRecorded /\ UNCHANGED applied
    BY DEF Wizard!Mark, Wizard!Rest, Wizard!engine
<1>2. 0 \in 0 .. Limit /\ step \in Wizard!Steps /\ age \in 0 .. Limit
    BY DEF Wizard!WizardAssumption, WizardInv, ScreenInv
<1>3. DraftInv' /\ EngineInv'
    BY <1>1 DEF WizardInv, DraftInv, EngineInv, Sendable, Matches, Current, Wizard!Editing,
       Wizard!ReplacesWhatItShowed
<1>4. CASE /\ Wizard!Saved /\ wizardCall' = [wizardCall EXCEPT !.sent = Wizard!Sent]
           /\ UNCHANGED Wizard!screen
    <2>1. kept' = kept /\ age' = 0
        BY <1>4 DEF Wizard!Saved
    <2>2. UNCHANGED idle /\ UNCHANGED card /\ UNCHANGED live /\ UNCHANGED wizardForm
        BY <1>4 DEF Wizard!screen
    <2>3. ScreenInv'
        BY <1>1, <1>2, <2>1, <2>2 DEF WizardInv, ScreenInv
    <2>4. PICK m : m = Wizard!Sent
        OBVIOUS
    <2>5. m \in SentRecord /\ m.payload = draft /\ m.seen = seen
        BY <2>4 DEF Wizard!Sent, SentRecord, WizardInv, DraftInv
    <2>6. draft.id \in Ids /\ Matches(draft, seen) /\ Current(seen)
        BY <1>1, InReach DEF ReviewCards, WizardInv, ScreenInv, DraftInv
    <2>7. wizardCall' \in SavingRecord /\ wizardCall'.sent = m
        BY <1>1, <1>4, <2>4, <2>5 DEF WizardInv, CallInv, SavingRecord
    <2>8. Sendable(m)'
        BY <1>1, <2>5, <2>6 DEF Sendable, Matches, Current
    <2>9. CallInv'
        BY <1>1, <2>2, <2>7, <2>8 DEF WizardInv, CallInv, Sendable, Current
    <2>10. QED
        BY <1>3, <2>3, <2>9 DEF WizardInv
<1>5. CASE Wizard!Unsaved /\ Wizard!Reports("not completed")
    <2>1. kept' = kept /\ age' = age
        BY <1>5 DEF Wizard!Unsaved
    <2>2. ScreenInv' /\ CallInv'
        <3>1. PICK why : why = "not completed"
            OBVIOUS
        <3>2. Wizard!Reports(why)
            BY <1>5, <3>1
        <3>3. QED
            BY <1>1, <1>2, <2>1, <3>2, ReportsKeeps
    <2>3. QED
        BY <1>3, <2>2 DEF WizardInv
<1>6. QED
    BY <1>4, <1>5 DEF Wizard!Mark

LEMMA TickKeeps ==
    ASSUME Wizard!WizardAssumption, WizardNoneApart, WizardInv, Wizard!Tick
    PROVE  WizardInv'
<1>1. /\ wizardCall = None /\ UNCHANGED wizardCall
      /\ UNCHANGED card /\ UNCHANGED wizardForm /\ UNCHANGED wizardFlow /\ UNCHANGED draft
      /\ UNCHANGED seen /\ UNCHANGED wizardLate /\ UNCHANGED others /\ UNCHANGED step
      /\ UNCHANGED items /\ UNCHANGED wizardRecorded /\ UNCHANGED applied
    BY DEF Wizard!Tick, Wizard!engine
<1>2. /\ age' = IF age < Limit THEN age + 1 ELSE age
      /\ idle' = IF idle < Limit THEN idle + 1 ELSE idle
      /\ kept' = (kept /\ age' < Limit)
      /\ live' = (live /\ idle' # Limit)
    BY DEF Wizard!Tick, WizardInv, ScreenInv
<1>3. age' \in 0 .. Limit /\ idle' \in 0 .. Limit
    BY <1>2 DEF Wizard!WizardAssumption, WizardInv, ScreenInv
<1>4. kept' \in BOOLEAN /\ live' \in BOOLEAN /\ (live' => live)
    BY <1>2 DEF WizardInv, ScreenInv
<1>5. ScreenInv'
    BY <1>1, <1>3, <1>4 DEF WizardInv, ScreenInv
<1>6. CallInv'
    BY <1>1 DEF CallInv
<1>7. DraftInv' /\ EngineInv'
    BY <1>1 DEF WizardInv, DraftInv, EngineInv, Sendable, Matches, Current, Wizard!Editing,
       Wizard!ReplacesWhatItShowed
<1>8. QED
    BY <1>5, <1>6, <1>7 DEF WizardInv

LEMMA WizardStutters ==
    ASSUME WizardInv, UNCHANGED Wizard!vars
    PROVE  WizardInv'
<1>1. /\ UNCHANGED draft /\ UNCHANGED seen /\ UNCHANGED wizardFlow /\ UNCHANGED step
      /\ UNCHANGED kept /\ UNCHANGED age
      /\ UNCHANGED idle /\ UNCHANGED card /\ UNCHANGED live /\ UNCHANGED wizardForm
      /\ UNCHANGED wizardCall /\ UNCHANGED wizardLate /\ UNCHANGED others
      /\ UNCHANGED items /\ UNCHANGED wizardRecorded /\ UNCHANGED applied
    BY DEF Wizard!vars, Wizard!session, Wizard!screen, Wizard!engine
<1>2. DraftInv' /\ EngineInv'
    BY <1>1 DEF WizardInv, DraftInv, EngineInv, Sendable, Matches, Current, Wizard!Editing,
       Wizard!ReplacesWhatItShowed
<1>3. ScreenInv' /\ CallInv'
    BY <1>1 DEF WizardInv, ScreenInv, CallInv, Sendable, Matches, Current
<1>4. QED
    BY <1>2, <1>3 DEF WizardInv

\* The steps of the administrator.
Uses ==
    \/ Wizard!TemplateContinue \/ Wizard!Dismiss
    \/ Wizard!SubmitBasic \/ Wizard!SubmitReviewed \/ Wizard!Choose
    \/ Wizard!RarityContinue \/ Wizard!RarityBack
    \/ Wizard!MechanicsChoose \/ Wizard!MechanicsContinue \/ Wizard!MechanicsBack
    \/ Wizard!EffectsContinue \/ Wizard!EffectsBack
    \/ Wizard!EditBasic \/ Wizard!EditMechanics \/ Wizard!EditEffects
    \/ Wizard!Reload \/ Wizard!Cancel

LEMMA UsesEdit ==
    ASSUME Wizard!WizardAssumption, WizardInv, Uses
    PROVE  Edits
<1>1. CASE \/ Wizard!TemplateContinue \/ Wizard!Dismiss
           \/ Wizard!SubmitBasic \/ Wizard!SubmitReviewed \/ Wizard!Choose
    BY <1>1, TemplateContinueEdits, DismissEdits, SubmitBasicEdits, SubmitReviewedEdits,
       ChooseEdits
<1>2. CASE \/ Wizard!RarityContinue \/ Wizard!RarityBack
           \/ Wizard!MechanicsChoose \/ Wizard!MechanicsContinue \/ Wizard!MechanicsBack
    BY <1>2, RarityContinueEdits, RarityBackEdits, MechanicsChooseEdits,
       MechanicsContinueEdits, MechanicsBackEdits
<1>3. CASE \/ Wizard!EffectsContinue \/ Wizard!EffectsBack
           \/ Wizard!EditBasic \/ Wizard!EditMechanics \/ Wizard!EditEffects
    BY <1>3, EffectsContinueEdits, EffectsBackEdits, EditBasicEdits, EditMechanicsEdits,
       EditEffectsEdits
<1>4. CASE Wizard!Reload \/ Wizard!Cancel
    BY <1>4, ReloadEdits, CancelEdits
<1>5. QED
    BY <1>1, <1>2, <1>3, <1>4 DEF Uses

LEMMA WizardNextKeeps ==
    ASSUME Wizard!WizardAssumption, WizardNoneApart, WizardInv, [Wizard!Next]_(Wizard!vars)
    PROVE  WizardInv'
<1>1. CASE UNCHANGED Wizard!vars
    BY <1>1, WizardStutters
<1>2. CASE Uses
    BY <1>2, UsesEdit, EditsKeep
<1>3. CASE Wizard!Confirm \/ Wizard!Mark \/ Wizard!Serve \/ Wizard!LoseAttempt \/ Wizard!Tick
    BY <1>3, ConfirmKeeps, MarkKeeps, ServeKeeps, LoseAttemptKeeps, TickKeeps
<1>4. CASE \E m \in wizardLate : Wizard!ArriveLate(m)
    BY <1>4, ArriveLateKeeps
<1>5. CASE \E i \in Ids : Wizard!OtherEdit(i)
    BY <1>5, OtherEditKeeps
<1>6. QED
    BY <1>1, <1>2, <1>3, <1>4, <1>5 DEF Wizard!Next, Uses

LEMMA WizardStarts ==
    ASSUME Wizard!WizardAssumption, WizardNoneApart, Wizard!Init
    PROVE  WizardInv
<1>1. /\ wizardFlow \in Commands /\ items = Existing /\ others = 0 /\ wizardRecorded = None
      /\ wizardCall = None /\ wizardLate = {} /\ applied = <<>>
      /\ items \in [Ids -> Definition \union {None}]
      /\ Opened \in Ids /\ items[Opened] # None
    BY DEF Wizard!Init, Wizard!WizardAssumption, Definition
<1>2. EngineInv
    BY <1>1 DEF EngineInv, Wizard!ReplacesWhatItShowed
<1>3. DraftInv
    <2>1. CASE Wizard!Editing
        <3>1. PICK s : s = Wizard!Seeded(Opened)
            OBVIOUS
        <3>2. s \in SeenRecord /\ s \in DraftRecord /\ Matches(s, s) /\ Current(s)
            BY <1>1, <1>2, <3>1, SeededIsCurrent
        <3>3. draft = s /\ seen = s /\ s # None
            BY <2>1, <3>1, <3>2 DEF Wizard!Init, WizardNoneApart
        <3>4. QED
            BY <3>2, <3>3 DEF DraftInv
    <2>2. CASE ~ Wizard!Editing
        <3>1. /\ seen = None
              /\ \E b \in Bodies : draft = [id |-> None, body |-> b, version |-> None]
            BY <2>2 DEF Wizard!Init
        <3>2. draft \in DraftRecord /\ draft.version = None
            BY <3>1 DEF DraftRecord
        <3>3. QED
            BY <2>2, <3>1, <3>2 DEF DraftInv, Matches, Current
    <2>3. QED
        BY <2>1, <2>2
<1>4. ScreenInv
    <2>1. 0 \in 0 .. Limit
        BY DEF Wizard!WizardAssumption
    <2>2. /\ age = 0 /\ idle = 0 /\ kept = TRUE
          /\ live = (wizardFlow \in {"create", "effect-edit"})
          /\ wizardForm = IF wizardFlow \in {"template", "edit"} THEN "rarity" ELSE "none"
          /\ card = CASE wizardFlow = "create" -> "template"
                    [] wizardFlow = "effect-edit" -> "effects"
                    [] OTHER -> "none"
          /\ step = CASE wizardFlow = "create" -> "template"
                    [] wizardFlow = "effect-edit" -> "effects"
                    [] OTHER -> "basic_info"
        BY DEF Wizard!Init
    <2>3. wizardFlow = "effect-edit" => draft.id \in Ids
        BY <1>1 DEF Wizard!Init, Wizard!Editing, Wizard!Seeded
    <2>4. CASE wizardFlow = "create"
        BY <2>1, <2>2, <2>4 DEF ScreenInv, Wizard!Steps, Wizard!Cards
    <2>5. CASE wizardFlow = "effect-edit"
        BY <2>1, <2>2, <2>3, <2>5 DEF ScreenInv, Wizard!Steps, Wizard!Cards
    <2>6. CASE wizardFlow \notin {"create", "effect-edit"}
        <3>1. wizardFlow # "create" /\ wizardFlow # "effect-edit"
            BY <2>6
        <3>2. step = "basic_info" /\ card = "none"
            BY <2>2, <3>1
        <3>3. live = (wizardFlow \in {"create", "effect-edit"})
            BY <2>2
        <3>4. live \in BOOLEAN /\ ~ live
            <4> DEFINE c == wizardFlow \in {"create", "effect-edit"}
            <4>1. c \in BOOLEAN /\ ~ c
                BY <2>6
            <4>2. live = c
                BY <3>3
            <4> HIDE DEF c
            <4>3. QED
                BY <4>1, <4>2
        <3>5. wizardForm \in {"none", "rarity", "review"}
            BY <2>2
        <3>6. QED
            BY <2>1, <2>2, <3>2, <3>4, <3>5 DEF ScreenInv, Wizard!Steps, Wizard!Cards
    <2>7. QED
        BY <2>4, <2>5, <2>6
<1>5. CallInv
    BY <1>1 DEF CallInv
<1>6. QED
    BY <1>2, <1>3, <1>4, <1>5 DEF WizardInv

LEMMA WizardHoldsInv ==
    ASSUME Wizard!WizardAssumption, WizardNoneApart
    PROVE  Wizard!Spec => []WizardInv
<1>1. Wizard!Init => WizardInv
    BY WizardStarts
<1>2. ASSUME WizardInv, [Wizard!Next]_(Wizard!vars) PROVE WizardInv'
    BY <1>2, WizardNextKeeps
<1>3. QED
    BY <1>1, <1>2, PTL DEF Wizard!Spec

\* The wizard's state keeps its types; while a confirmation is served the step
\* stays "submitting" and only the review and the cards it opens are shown,
\* whatever of them is used (wizard.py, review.py).
THEOREM WizardTypeCorrect ==
    ASSUME Wizard!WizardAssumption, WizardNoneApart
    PROVE  Wizard!Spec => []Wizard!TypeOK
<1>1. ASSUME WizardInv PROVE Wizard!TypeOK
    <2>1. draft.id \in Ids \union {None} /\ draft.body \in Bodies
        BY <1>1 DEF WizardInv, DraftInv, DraftRecord
    <2>2. wizardCall # None => /\ step = "submitting" /\ wizardCall.view \in Wizard!Views
                               /\ card \in {"review", "review_mechanics", "review_effects"}
        BY <1>1 DEF WizardInv, CallInv, SavingRecord, ReviewCards
    <2>3. \A i \in Ids : items[i] = None \/ items[i].version \in Nat \ {0}
        BY <1>1 DEF WizardInv, EngineInv, Definition
    <2>4. QED
        BY <1>1, <2>1, <2>2, <2>3 DEF Wizard!TypeOK, WizardInv, ScreenInv
<1>2. QED
    BY <1>1, WizardHoldsInv, PTL

\* "a second click or an HTTP retry can never create/update twice": whatever is
\* changed, confirmed again, lost or late, a flow writes one definition.
THEOREM WizardWritesOnce ==
    ASSUME Wizard!WizardAssumption, WizardNoneApart
    PROVE  Wizard!Spec => []Wizard!WritesOnce
<1>1. ASSUME WizardInv PROVE Wizard!WritesOnce
    BY <1>1 DEF WizardInv, EngineInv, Wizard!WritesOnce
<1>2. QED
    BY <1>1, WizardHoldsInv, PTL

\* An edit of the item its draft was made from replaces the definition it was made
\* from and no newer one (the version of the draft, compared by upsert_item),
\* however often the draft was changed, saved and reloaded, before and while it is
\* saved.
THEOREM EditsReplaceWhatTheyShowed ==
    ASSUME Wizard!WizardAssumption, WizardNoneApart
    PROVE  Wizard!Spec => []Wizard!ReplacesWhatItShowed
<1>1. ASSUME WizardInv PROVE Wizard!ReplacesWhatItShowed
    BY <1>1 DEF WizardInv, EngineInv
<1>2. QED
    BY <1>1, WizardHoldsInv, PTL

\* A conflict over the item the request was made from is somebody else's, unless
\* the request closed a cycle.
LEMMA ConflictNeedsOthers ==
    ASSUME WizardInv, Wizard!Sending, Wizard!Answer(wizardCall.sent.payload) = "conflict",
           wizardCall.sent.payload.id = wizardCall.sent.seen.id,
           wizardCall.sent.payload.body \notin Cyclic
    PROVE  others > 0
<1> DEFINE p == wizardCall.sent.payload
           s == wizardCall.sent.seen
<1>1. Matches(p, s) /\ Current(s)
    BY SendingIsSendable DEF Sendable
<1>2. ~ Wizard!Recorded /\ p.body \notin Refused /\ ~ Wizard!Accepted(p)
    BY DEF Wizard!Answer
<1>3. ~ Wizard!Fits(p)
    BY <1>2 DEF Wizard!Accepted
<1>4. p.version # None
    <2>1. items[p.id] # None
        BY <1>3 DEF Wizard!Fits
    <2>2. QED
        BY <1>2, <2>1 DEF Wizard!Answer
<1>5. items[p.id].version # p.version
    BY <1>3, <1>4 DEF Wizard!Fits
<1>6. s # None /\ p.version = s.version
    BY <1>1, <1>4 DEF Matches
<1>7. ~(others = 0 /\ wizardRecorded = None)
    BY <1>1, <1>5, <1>6 DEF Current, Wizard!Said
<1>8. others \in Nat /\ wizardRecorded = None
    BY <1>2 DEF WizardInv, EngineInv, Wizard!Recorded
<1>9. QED
    BY <1>7, <1>8

\* The conflict's card follows an answer of the engine.
LEMMA ConflictIsAnswered ==
    ASSUME Wizard!WizardAssumption, WizardInv, [Wizard!Next]_(Wizard!vars),
           card # "conflict", card' = "conflict"
    PROVE  Wizard!Sending /\ Wizard!Answer(wizardCall.sent.payload) = "conflict"
<1>1. CASE UNCHANGED Wizard!vars
    BY <1>1 DEF Wizard!vars, Wizard!screen
<1>2. CASE Uses
    BY <1>2, UsesEdit DEF Edits
<1>3. CASE Wizard!Confirm \/ Wizard!Mark \/ Wizard!Tick
    BY <1>3 DEF Wizard!Confirm, Wizard!Mark, Wizard!Tick, Wizard!Reports, Wizard!screen
<1>4. CASE Wizard!Serve
    BY <1>4 DEF Wizard!Serve, Wizard!Concludes, Wizard!Deletes, Wizard!Reports
<1>5. CASE Wizard!LoseAttempt
    BY <1>5 DEF Wizard!LoseAttempt, Wizard!Concludes, Wizard!Deletes, Wizard!Reports,
       Wizard!screen
<1>6. CASE (\E m \in wizardLate : Wizard!ArriveLate(m)) \/ (\E i \in Ids : Wizard!OtherEdit(i))
    BY <1>6 DEF Wizard!ArriveLate, Wizard!OtherEdit, Wizard!screen
<1>7. QED
    BY <1>1, <1>2, <1>3, <1>4, <1>5, <1>6 DEF Wizard!Next, Uses

\* "This item was changed by another administrator" is shown only when another
\* has written, unless the request was for another ID than its draft was made
\* from, or closed a cycle of items that grant each other.
THEOREM ConflictsAreSomebodyElses ==
    ASSUME Wizard!WizardAssumption, WizardNoneApart
    PROVE  Wizard!Spec => Wizard!ConflictIsSomebodyElses
<1>1. ASSUME WizardInv, [Wizard!Next]_(Wizard!vars) PROVE Wizard!ConflictStep
    BY <1>1, ConflictIsAnswered, ConflictNeedsOthers DEF Wizard!ConflictStep
<1>2. QED
    BY <1>1, WizardHoldsInv, PTL DEF Wizard!Spec, Wizard!ConflictIsSomebodyElses

\* "a double click never issues two HTTP mutations": until its answer is shown
\* every attempt of a save says what the first has said, and no other save begins,
\* though the draft is edited and reviewed again meanwhile (_confirming, and the
\* step "submitting" of session_store.py).
THEOREM SavesAreOneAtATime ==
    ASSUME Wizard!WizardAssumption, WizardNoneApart
    PROVE  Wizard!Spec => Wizard!OneSaveAtATime
<1>1. ASSUME WizardInv, [Wizard!Next]_(Wizard!vars), Wizard!Sending, wizardCall' # None
      PROVE  wizardCall'.sent = wizardCall.sent /\ wizardCall'.tries >= wizardCall.tries
    <2>1. /\ wizardCall \in SavingRecord /\ wizardCall # None
          /\ step = "submitting"
        BY <1>1, SendingIsSendable, InReach
    <2>2. wizardCall.tries \in Nat
        BY <2>1 DEF SavingRecord
    <2>3. CASE wizardCall' = wizardCall
        BY <2>2, <2>3
    <2>4. ASSUME CallKept
          PROVE  wizardCall'.sent = wizardCall.sent /\ wizardCall'.tries >= wizardCall.tries
        <3>1. ASSUME NEW v \in Wizard!Views, wizardCall' = [wizardCall EXCEPT !.view = v]
              PROVE  wizardCall'.sent = wizardCall.sent /\ wizardCall'.tries = wizardCall.tries
            BY <2>1, <3>1 DEF SavingRecord
        <3>2. QED
            BY <2>2, <2>3, <2>4, <3>1 DEF CallKept
    <2>5. CASE UNCHANGED Wizard!vars
        BY <2>3, <2>5 DEF Wizard!vars
    <2>6. CASE Uses
        BY <1>1, <2>4, <2>6, UsesEdit DEF Edits
    <2>7. CASE Wizard!Confirm
        <3>1. Wizard!KeptOut
            BY <2>1 DEF Wizard!KeptOut, Wizard!Allowed
        <3>2. QED
            BY <2>3, <2>7, <3>1 DEF Wizard!Confirm
    <2>8. CASE Wizard!Mark \/ Wizard!Tick \/ Wizard!Serve
        BY <1>1, <2>1, <2>8 DEF Wizard!Mark, Wizard!Tick, Wizard!Serve, Wizard!Sending,
           Wizard!Concludes, Wizard!Reports
    <2>9. CASE Wizard!LoseAttempt
        <3>1. wizardCall' = [wizardCall EXCEPT !.tries = @ + 1]
            BY <1>1, <2>9 DEF Wizard!LoseAttempt, Wizard!Again, Wizard!Concludes, Wizard!Reports
        <3>2. wizardCall'.sent = wizardCall.sent /\ wizardCall'.tries = wizardCall.tries + 1
            BY <2>1, <3>1 DEF SavingRecord
        <3>3. QED
            BY <2>2, <3>2
    <2>10. CASE (\E m \in wizardLate : Wizard!ArriveLate(m)) \/ (\E i \in Ids : Wizard!OtherEdit(i))
        BY <2>3, <2>10 DEF Wizard!ArriveLate, Wizard!OtherEdit
    <2>11. QED
        BY <1>1, <2>5, <2>6, <2>7, <2>8, <2>9, <2>10 DEF Wizard!Next, Uses
<1>2. ASSUME WizardInv, [Wizard!Next]_(Wizard!vars) PROVE Wizard!OneSaveStep
    BY <1>1, <1>2 DEF Wizard!OneSaveStep
<1>3. QED
    BY <1>2, WizardHoldsInv, PTL DEF Wizard!Spec, Wizard!OneSaveAtATime
=============================================================================
