------------------------ MODULE IntegrationHealthProofs ------------------------
(***************************************************************************)
(* What is believed of a StreamElements credential, for any number of      *)
(* requests, credentials and health runners, as long as no conversion      *)
(* reports on it (one writes back what it read before it waited).  The     *)
(* argument: a test holds the row's lock while it waits for the provider,  *)
(* so that the row it judges is the row it read; a probe holds none, and   *)
(* is dropped when the version or the credential has moved.                *)
(***************************************************************************)
EXTENDS IntegrationHealth, TLAPS

NoConversions == \A q \in Requests : "convert" \notin May[q]

\* A request is where its operation can be, and a test under way has the row.
Sound(q) ==
    LET j == req[q] IN
    /\ j.op # "convert" /\ j.pc \notin {"insert", "pay"}
    /\ j.pc = "authorize" => j.op \in {"connect", "disconnect"}
    /\ j.pc \in {"call", "write"} => j.op \in {"connect", "test"}
    /\ j.pc \in {"call", "write"} /\ j.op = "test" =>
          /\ locked["row"] = q /\ row.status \in Usable
          /\ j.seen = row /\ j.token = row.token

HealthInv ==
    /\ TypeOK
    /\ \A q \in Requests : Sound(q)
    /\ VerdictOfCredential
    /\ ConnectedMeansHealthy

-----------------------------------------------------------------------------
(* What a step leaves alone *)

Request == [op : Operations \union {None},
            pc : {"idle", "authorize", "load", "call", "insert", "pay", "write", "callback"},
            token : Tokens \union {None}, seen : Row,
            answer : Answers \union {None}, at : Time]
Probe == [pc : {"asleep", "rebuild", "read", "probe", "schedule"}, seen : Row, at : Time]
LockType == [{"channel", "row"} -> Requests \union {None}]
SpentType == [requests : 0 .. MaxRequests, failures : 0 .. MaxFailures, losses : 0 .. MaxLosses]

\* The type of what the properties do not speak of.
Rest ==
    /\ loop \in Requests \union {None} /\ runner \in [Runners -> Probe]
    /\ lease \in Runners \union {None} /\ due \in Time /\ now \in 0 .. MaxTime
    /\ spent \in SpentType

LEMMA Typed ==
    TypeOK <=> /\ Rest /\ row \in Row /\ locked \in LockType
               /\ req \in [Requests -> Request] /\ verdict \in Tokens \union {None}
BY DEF TypeOK, Rest, LockType, SpentType, Request, Probe

\* A request that takes no step is in order: nobody writes the row that it has locked.
LEMMA Untouched ==
    ASSUME HealthInv, NEW p \in Requests, req'[p] = req[p],
           locked["row"] = p => locked'["row"] = p /\ row' = row
    PROVE  Sound(p)'
BY DEF HealthInv, Sound

\* One request goes on and the row is as it was.
LEMMA RequestGoesOn ==
    ASSUME HealthInv, NEW q \in Requests, NEW new \in Request,
           req' = [req EXCEPT ![q] = new], Sound(q)', Rest', locked' \in LockType,
           \A p \in Requests : p # q /\ locked["row"] = p => locked'["row"] = p,
           UNCHANGED <<row, verdict>>
    PROVE  HealthInv'
<1>1. req \in [Requests -> Request] /\ row \in Row /\ verdict \in Tokens \union {None}
  BY Typed DEF HealthInv
<1>2. req' \in [Requests -> Request] /\ \A p \in Requests : p # q => req'[p] = req[p] BY <1>1
<1>3. TypeOK'
  <2>1. row' \in Row /\ verdict' \in Tokens \union {None} BY <1>1
  <2> QED BY <1>2, <2>1 DEF TypeOK, Rest, LockType, SpentType, Request, Probe
<1>4. \A p \in Requests : Sound(p)'
  <2>1. \A p \in Requests : p # q => Sound(p)' BY <1>2, Untouched
  <2> QED BY <2>1
<1>5. VerdictOfCredential' /\ ConnectedMeansHealthy'
  BY DEF HealthInv, VerdictOfCredential, ConnectedMeansHealthy
<1> QED BY <1>3, <1>4, <1>5 DEF HealthInv

\* No request goes on and no row is written.
LEMMA RestGoesOn ==
    ASSUME HealthInv, Rest', UNCHANGED <<row, verdict, req, locked>>
    PROVE  HealthInv'
<1>1. TypeOK'
  <2>1. row \in Row /\ verdict \in Tokens \union {None} /\ req \in [Requests -> Request]
        /\ locked \in LockType
    BY Typed DEF HealthInv
  <2> QED BY <2>1 DEF TypeOK, Rest, LockType, SpentType, Request, Probe
<1>2. \A p \in Requests : Sound(p)' BY Untouched
<1>3. VerdictOfCredential' /\ ConnectedMeansHealthy'
  BY DEF HealthInv, VerdictOfCredential, ConnectedMeansHealthy
<1> QED BY <1>1, <1>2, <1>3 DEF HealthInv

LEMMA NoRowTyped == NoRow \in Row /\ NoRow.status = "disconnected"
BY DEF NoRow, Row, Time

LEMMA IdleTyped == Idle \in Request /\ Idle.pc = "idle" /\ Idle.op = None
BY NoRowTyped DEF Idle, Request, Time

LEMMA AsleepTyped == Asleep \in Probe
BY NoRowTyped DEF Asleep, Probe, Time

\* What a request that is outside an operation's body needs.
LEMMA SoundOutside ==
    ASSUME NEW q \in Requests, NEW new, req'[q] = new, new.op # "convert",
           new.pc \notin {"insert", "pay", "call", "write"},
           new.pc = "authorize" => new.op \in {"connect", "disconnect"}
    PROVE  Sound(q)'
BY DEF Sound

LEMMA ReleaseKeeps ==
    ASSUME HealthAssumption, locked \in LockType, NEW q \in Requests, Release(q)
    PROVE  /\ locked' \in LockType
           /\ \A p \in Requests : p # q /\ locked["row"] = p => locked'["row"] = p
BY DEF Release, LockType

LEMMA TakeKeeps ==
    ASSUME locked \in LockType, NEW q \in Requests, NEW x \in {"channel", "row"},
           Take(x, q), locked[x] = None, None \notin Requests
    PROVE  /\ locked' \in LockType /\ locked'[x] = q
           /\ \A p \in Requests : locked["row"] = p => locked'["row"] = p
BY DEF Take, LockType

LEMMA LeavesTyped ==
    ASSUME loop \in Requests \union {None}, NEW q \in Requests, LeavesLoop(q)
    PROVE  loop' \in Requests \union {None}
BY DEF LeavesLoop

LEMMA AnsweredTyped ==
    ASSUME HealthAssumption, spent \in SpentType, NEW answer, Answered(answer)
    PROVE  spent' \in SpentType
<1>1. spent.failures \in 0 .. MaxFailures /\ MaxFailures \in Nat
  BY DEF SpentType, HealthAssumption
<1>2. CASE answer = "ok"
  <2>1. spent' = [spent EXCEPT !.failures = spent.failures + 0] BY <1>2 DEF Answered
  <2> QED BY <1>1, <2>1 DEF SpentType
<1>3. CASE answer # "ok"
  <2>1. spent' = [spent EXCEPT !.failures = spent.failures + 1] /\ spent.failures < MaxFailures
    BY <1>3 DEF Answered
  <2> QED BY <1>1, <2>1 DEF SpentType
<1> QED BY <1>2, <1>3

-----------------------------------------------------------------------------
(* The requests' steps that leave the row as it is *)

LEMMA Here ==
    ASSUME HealthInv, NEW q \in Requests
    PROVE  /\ req \in [Requests -> Request] /\ req[q] \in Request /\ Sound(q)
           /\ Rest /\ row \in Row /\ locked \in LockType
           /\ verdict \in Tokens \union {None}
BY Typed DEF HealthInv

\* A request ends: it lets its locks and the loop go.
LEMMA EndsSafe ==
    ASSUME HealthAssumption, HealthInv, NEW q \in Requests, Ends(q),
           spent' \in SpentType, UNCHANGED <<row, runner, lease, due, now, verdict>>
    PROVE  HealthInv'
<1>1. Idle \in Request /\ Idle.pc = "idle" /\ Idle.op # "convert"
  <2>1. None # "convert" BY DEF HealthAssumption, Operations
  <2> QED BY <2>1, IdleTyped
<1>2. req' = [req EXCEPT ![q] = Idle] /\ req'[q] = Idle BY Here DEF Ends
<1>3. Sound(q)' BY <1>1, <1>2, SoundOutside
<1>4. /\ locked' \in LockType
      /\ \A p \in Requests : p # q /\ locked["row"] = p => locked'["row"] = p
  BY Here, ReleaseKeeps DEF Ends
<1>5. loop' \in Requests \union {None} BY Here, LeavesTyped DEF Ends, Rest
<1>6. Rest' BY <1>5, Here DEF Rest
<1> QED BY <1>1, <1>2, <1>3, <1>4, <1>6, RequestGoesOn

LEMMA BeginSafe ==
    ASSUME HealthAssumption, NoConversions, HealthInv, NEW q \in Requests,
           NEW op \in Operations, NEW t \in Tokens, Begin(q, op, t)
    PROVE  HealthInv'
<1> DEFINE new == [Idle EXCEPT !.op = op, !.token = IF op = "connect" THEN t ELSE None,
                      !.pc = IF op \in {"connect", "disconnect"}
                             THEN "authorize" ELSE "load"]
<1>1. new \in Request /\ new.op = op
      /\ new.pc = IF op \in {"connect", "disconnect"} THEN "authorize" ELSE "load"
  BY IdleTyped DEF Request, Operations
<1>2. req' = [req EXCEPT ![q] = new] BY DEF Begin
<1>3. op # "convert" BY DEF Begin, NoConversions
<1> HIDE DEF new
<1>4. req'[q] = new BY <1>2, Here
<1>5. Sound(q)' BY <1>1, <1>3, <1>4, SoundOutside
<1>6. spent' \in SpentType
  <2>1. spent' = [spent EXCEPT !.requests = spent.requests + 1]
        /\ spent.requests < MaxRequests
    BY DEF Begin
  <2>2. spent \in SpentType BY Here DEF Rest
  <2> QED BY <2>1, <2>2 DEF SpentType, HealthAssumption
<1>7. Rest' BY <1>6, Here DEF Begin, Rest
<1>8. locked' \in LockType /\ locked' = locked BY Here DEF Begin
<1> QED BY <1>1, <1>2, <1>5, <1>7, <1>8, RequestGoesOn DEF Begin

LEMMA AuthorizeSafe ==
    ASSUME HealthAssumption, HealthInv, NEW q \in Requests, Authorize(q)
    PROVE  HealthInv'
<1> DEFINE pc == IF req[q].op = "connect" THEN "call" ELSE "load"
           new == [req[q] EXCEPT !.pc = pc]
<1>1. /\ new \in Request /\ new.op = req[q].op /\ new.pc = pc
      /\ pc = "call" => new.op = "connect"
  BY Here DEF Request
<1>2. req' = [req EXCEPT ![q] = new] /\ req'[q] = new BY Here DEF Authorize
<1>3. req[q].op # "convert" BY Here DEF Sound
<1>4. pc \in {"call", "load"} OBVIOUS
<1> HIDE DEF new, pc
<1>5. Sound(q)' BY <1>1, <1>2, <1>3, <1>4 DEF Sound
<1>6. /\ locked' \in LockType
      /\ \A p \in Requests : locked["row"] = p => locked'["row"] = p
  BY Here, TakeKeeps DEF Authorize, HealthAssumption
<1>7. Rest' BY Here, LeavesTyped DEF Authorize, Rest
<1> QED BY <1>1, <1>2, <1>5, <1>6, <1>7, RequestGoesOn DEF Authorize

LEMMA RefusedSafe ==
    ASSUME HealthAssumption, HealthInv, NEW q \in Requests, Refused(q)
    PROVE  HealthInv'
<1>1. spent' \in SpentType BY Here DEF Refused, Rest
<1> QED BY <1>1, EndsSafe DEF Refused

LEMMA LoadTestSafe ==
    ASSUME HealthAssumption, HealthInv, NEW q \in Requests, LoadTest(q)
    PROVE  HealthInv'
<1> DEFINE new == [req[q] EXCEPT !.pc = "call", !.seen = row, !.token = row.token]
<1>1. row.token \in Tokens \union {None} BY Here DEF Row
<1>2. new \in Request /\ new.op = "test" /\ new.pc = "call"
      /\ new.seen = row /\ new.token = row.token
  BY <1>1, Here DEF Request, LoadTest
<1>3. req' = [req EXCEPT ![q] = new] BY Here DEF LoadTest, Request
<1>4. req'[q] = new BY <1>3, Here
<1>5. row' = row /\ verdict' = verdict /\ row.status \in Usable BY DEF LoadTest
<1> HIDE DEF new
<1>6. /\ locked' \in LockType /\ locked'["row"] = q
      /\ \A p \in Requests : locked["row"] = p => locked'["row"] = p
  BY Here, TakeKeeps DEF LoadTest, HealthAssumption
<1>7. Sound(q)' BY <1>2, <1>4, <1>5, <1>6 DEF Sound
<1>8. Rest' BY Here, LeavesTyped DEF LoadTest, Rest
<1> QED BY <1>2, <1>3, <1>5, <1>6, <1>7, <1>8, RequestGoesOn

LEMMA AnswerSafe ==
    ASSUME HealthAssumption, HealthInv, NEW q \in Requests, NEW answer \in Answers,
           Answer(q, answer)
    PROVE  HealthInv'
<1>1. /\ req[q].pc = "call" /\ req[q].op \in {"connect", "test"} /\ req[q].op # "convert"
      /\ Sound(q)
  BY Here DEF Answer, Sound
<1>2. spent' \in SpentType
  <2>1. Answered(answer) /\ spent \in SpentType BY Here DEF Answer, Rest
  <2> QED BY <2>1, AnsweredTyped
<1>3. CASE req[q].op = "connect" /\ answer # "ok"
  <2>1. Ends(q) /\ UNCHANGED <<row, runner, lease, due, now, verdict>>
    BY <1>3 DEF Answer
  <2> QED BY <1>2, <2>1, EndsSafe
<1>4. CASE ~(req[q].op = "connect" /\ answer # "ok")
  <2> DEFINE new == [req[q] EXCEPT !.answer = answer, !.pc = "write"]
  <2>1. /\ new \in Request /\ new.op = req[q].op /\ new.pc = "write"
        /\ new.seen = req[q].seen /\ new.token = req[q].token
    BY Here DEF Request
  <2>2. req' = [req EXCEPT ![q] = new] BY <1>1, <1>4, Here DEF Answer, Request
  <2>3. req'[q] = new BY <2>2, Here
  <2> HIDE DEF new
  <2>4. /\ loop' = q /\ locked' = locked
        /\ UNCHANGED <<row, runner, lease, due, now, verdict>>
    BY <1>4 DEF Answer
  <2>5. Sound(q)' BY <1>1, <2>1, <2>3, <2>4 DEF Sound
  <2>6. Rest' BY <1>2, <2>4, Here DEF Rest
  <2>7. locked' \in LockType BY <2>4, Here
  <2> QED BY <2>1, <2>2, <2>4, <2>5, <2>6, <2>7, RequestGoesOn
<1> QED BY <1>3, <1>4

LEMMA CallbackSafe ==
    ASSUME HealthAssumption, HealthInv, NEW q \in Requests, Callback(q)
    PROVE  HealthInv'
<1>1. Idle \in Request /\ Idle.pc = "idle" /\ Idle.op # "convert"
  <2>1. None # "convert" BY DEF HealthAssumption, Operations
  <2> QED BY <2>1, IdleTyped
<1>2. req' = [req EXCEPT ![q] = Idle] /\ req'[q] = Idle BY Here DEF Callback
<1>3. Sound(q)' BY <1>1, <1>2, SoundOutside
<1>4. req[q].at \in Time BY Here DEF Request
<1>5. Rest' BY <1>4, Here DEF Rest, Callback
<1>6. locked' \in LockType /\ locked' = locked BY Here DEF Callback
<1> QED BY <1>1, <1>2, <1>3, <1>5, <1>6, RequestGoesOn DEF Callback

-----------------------------------------------------------------------------
(* The steps that write the row *)

\* A request writes the row while nobody else has it.
LEMMA RowWritten ==
    ASSUME HealthAssumption, HealthInv, NEW q \in Requests, NEW new \in Request,
           req' = [req EXCEPT ![q] = new], Sound(q)', Rest', locked' \in LockType,
           locked["row"] \in {None, q}, row' \in Row, verdict' \in Tokens \union {None},
           VerdictOfCredential', ConnectedMeansHealthy'
    PROVE  HealthInv'
<1>1. req' \in [Requests -> Request] /\ \A p \in Requests : p # q => req'[p] = req[p]
  BY Here
<1>2. TypeOK' BY <1>1 DEF TypeOK, Rest, LockType, SpentType, Request, Probe
<1>3. \A p \in Requests : p # q => Sound(p)'
  <2>1. \A p \in Requests : p # q => locked["row"] # p BY DEF HealthAssumption
  <2> QED BY <1>1, <2>1, Untouched
<1> QED BY <1>2, <1>3 DEF HealthInv

\* A runner writes the row while nobody has it, or leaves it as it is.
LEMMA ProbeWrites ==
    ASSUME HealthAssumption, HealthInv, Rest', UNCHANGED <<req, locked>>,
           locked["row"] = None \/ row' = row,
           row' \in Row, verdict' \in Tokens \union {None},
           VerdictOfCredential', ConnectedMeansHealthy'
    PROVE  HealthInv'
<1>1. TypeOK'
  <2>1. req \in [Requests -> Request] /\ locked \in LockType BY Typed DEF HealthInv
  <2> QED BY <2>1 DEF TypeOK, Rest, LockType, SpentType, Request, Probe
<1>2. \A p \in Requests : Sound(p)'
  <2>1. None \notin Requests BY DEF HealthAssumption
  <2> QED BY <2>1, Untouched
<1> QED BY <1>1, <1>2 DEF HealthInv

\* A judgement keeps the credential, and its status fits its count of failures.
LEMMA JudgedFits ==
    ASSUME NEW r \in Row, NEW answer, now \in Nat
    PROVE  LET j == Judged(r, answer) IN
           /\ j \in Row /\ j.next \in Nat /\ j.token = r.token
           /\ j.status # "disconnected" /\ (j.status = "connected" <=> j.failures = 0)
<1> DEFINE when == now + Delay(answer)
           count == IF answer = "ok" THEN 0 ELSE r.failures + 1
           first == [r EXCEPT !.status = StatusOf(answer), !.next = when]
           last == [first EXCEPT !.failures = count]
<1>1. when \in Nat BY DEF Delay
<1>2. count \in Nat /\ (count = 0 <=> answer = "ok") BY DEF Row
<1>3. /\ StatusOf(answer) \in {"connected", "degraded", "invalid"}
      /\ StatusOf(answer) = "connected" <=> answer = "ok"
  <2>1. CASE answer = "ok" BY <2>1 DEF StatusOf
  <2>2. CASE answer # "ok" BY <2>2 DEF StatusOf
  <2> QED BY <2>1, <2>2
<1>4. Judged(r, answer) = last
  <2>1. first.failures = r.failures BY DEF Row
  <2> QED BY DEF Judged, Row
<1> HIDE DEF when, count
<1>5. first \in Row /\ first.status = StatusOf(answer) /\ first.token = r.token
      /\ first.next = when
  BY <1>1, <1>3 DEF Row, Time
<1> HIDE DEF first
<1>6. /\ last \in Row /\ last.status = first.status /\ last.token = first.token
      /\ last.next = first.next /\ last.failures = count
  BY <1>2, <1>5 DEF Row
<1> QED BY <1>1, <1>2, <1>3, <1>4, <1>5, <1>6

\* Whoever read the row under its lock writes what it means to write.
LEMMA NothingLost ==
    ASSUME row \in Row, NEW new \in Row
    PROVE  Merged(row, new) = new
<1>1. /\ row = [status |-> row.status, version |-> row.version, token |-> row.token,
                next |-> row.next, failures |-> row.failures]
      /\ new = [status |-> new.status, version |-> new.version, token |-> new.token,
                next |-> new.next, failures |-> new.failures]
  BY DEF Row
<1>2. DOMAIN row = DOMAIN new BY DEF Row
<1>3. \A c \in DOMAIN row : Merged(row, new)[c] = new[c] BY DEF Merged
<1>4. new = [c \in DOMAIN new |-> new[c]] BY DEF Row
<1> QED BY <1>2, <1>3, <1>4 DEF Merged

LEMMA DisconnectSafe ==
    ASSUME HealthAssumption, HealthInv, NEW q \in Requests, Disconnect(q)
    PROVE  HealthInv'
<1> DEFINE new == [req[q] EXCEPT !.pc = "callback"]
<1>1. new \in Request /\ new.op = "disconnect" /\ new.pc = "callback"
  BY Here DEF Request, Disconnect
<1>2. req' = [req EXCEPT ![q] = new] /\ req'[q] = new BY Here DEF Disconnect
<1> HIDE DEF new
<1>3. Sound(q)' BY <1>1, <1>2, SoundOutside
<1>4. Rest' BY Here, LeavesTyped DEF Disconnect, Rest
<1>5. locked' \in LockType BY Here, ReleaseKeeps DEF Disconnect
<1>6. row' \in Row /\ row'.status = "disconnected"
  <2> DEFINE gone == [row EXCEPT !.status = "disconnected", !.next = None]
  <2>1. row \in Row /\ row.version + 1 \in Nat BY Here DEF Row
  <2>2. gone \in Row /\ gone.status = "disconnected" BY <2>1 DEF Row, Time
  <2>3. row' = [gone EXCEPT !.version = row.version + 1] BY <2>1 DEF Disconnect, Row
  <2> HIDE DEF gone
  <2> QED BY <2>1, <2>2, <2>3 DEF Row
<1>7. verdict' \in Tokens \union {None} BY Here DEF Disconnect
<1>8. VerdictOfCredential' /\ ConnectedMeansHealthy'
  BY <1>6 DEF VerdictOfCredential, ConnectedMeansHealthy
<1>9. locked["row"] \in {None, q} BY DEF Disconnect
<1> QED BY <1>1, <1>2, <1>3, <1>4, <1>5, <1>6, <1>7, <1>8, <1>9, RowWritten

\* What connect and test write: the verdict and the row it is about.
LEMMA WriteFits ==
    ASSUME HealthAssumption, HealthInv, NEW q \in Requests, Write(q)
    PROVE  /\ row' \in Row /\ row'.next \in Time /\ verdict' \in Tokens \union {None}
           /\ VerdictOfCredential' /\ ConnectedMeansHealthy'
           /\ row.status = "disconnected" => req[q].op = "connect"
           /\ req' = [req EXCEPT ![q].pc = "callback", ![q].at = row'.next]
<1>1. /\ req[q].pc = "write" /\ req[q].op \in {"connect", "test"} /\ Sound(q)
      /\ req[q].token \in Tokens \union {None}
  BY Here DEF Write, Sound, Request
<1>2. now \in Nat /\ row \in Row /\ verdict \in Tokens \union {None}
  BY Here DEF Rest, HealthAssumption
<1>3. CASE req[q].op = "connect"
  <2>1. row' = Connected(req[q].token) /\ verdict' = req[q].token
        /\ req' = [req EXCEPT ![q].pc = "callback", ![q].at = row'.next]
    BY <1>3 DEF Write
  <2>2. row' \in Row /\ row'.token = req[q].token /\ row'.status = "connected"
        /\ row'.failures = 0
    BY <1>1, <1>2, <2>1 DEF Connected, Row, Time
  <2>3. row'.next \in Time BY <2>2 DEF Row
  <2> QED BY <1>1, <1>3, <2>1, <2>2, <2>3 DEF VerdictOfCredential, ConnectedMeansHealthy
<1>4. CASE req[q].op = "test"
  <2>1. req[q].seen = row /\ req[q].token = row.token /\ row.status \in Usable
    BY <1>1, <1>4 DEF Sound
  <2>2. row.status # "disconnected" /\ verdict = row.token
    BY <2>1 DEF Usable, HealthInv, VerdictOfCredential
  <2> DEFINE j == Judged(row, req[q].answer)
  <2>3. /\ j \in Row /\ j.next \in Nat /\ j.token = row.token
        /\ j.status # "disconnected" /\ (j.status = "connected" <=> j.failures = 0)
    BY <1>2, JudgedFits
  <2>4. Merged(row, j) = j BY <1>2, <2>3, NothingLost
  <2>5. /\ row' = Merged(row, j)
        /\ verdict' = IF Merged(row, j).status # row.status THEN row.token ELSE verdict
        /\ req' = [req EXCEPT ![q].pc = "callback", ![q].at = Merged(row, j).next]
    BY <1>4, <2>1 DEF Write
  <2> HIDE DEF j
  <2>6. row' = j /\ verdict' = row.token
        /\ req' = [req EXCEPT ![q].pc = "callback", ![q].at = row'.next]
    BY <2>2, <2>4, <2>5
  <2>7. row'.next \in Time BY <2>3, <2>6 DEF Time
  <2> QED BY <1>2, <2>2, <2>3, <2>6, <2>7 DEF VerdictOfCredential, ConnectedMeansHealthy, Row
<1> QED BY <1>1, <1>3, <1>4

LEMMA WriteSafe ==
    ASSUME HealthAssumption, HealthInv, NEW q \in Requests, Write(q)
    PROVE  HealthInv'
<1> DEFINE new == [req[q] EXCEPT !.pc = "callback", !.at = row'.next]
<1>1. /\ row' \in Row /\ row'.next \in Time /\ verdict' \in Tokens \union {None}
      /\ VerdictOfCredential' /\ ConnectedMeansHealthy'
      /\ req' = [req EXCEPT ![q].pc = "callback", ![q].at = row'.next]
  BY WriteFits
<1>2. new \in Request /\ new.op = req[q].op /\ new.pc = "callback"
  BY <1>1, Here DEF Request
<1>3. req' = [req EXCEPT ![q] = new] BY <1>1, Here DEF Request
<1>4. req'[q] = new BY <1>3, Here
<1> HIDE DEF new
<1>5. Sound(q)'
  <2>1. req[q].op # "convert" BY Here DEF Sound
  <2> QED BY <1>2, <1>4, <2>1, SoundOutside
<1>6. Rest' BY Here, LeavesTyped DEF Write, Rest
<1>7. locked' \in LockType /\ locked["row"] \in {None, q}
  BY Here, ReleaseKeeps DEF Write
<1> QED BY <1>1, <1>2, <1>3, <1>5, <1>6, <1>7, RowWritten

LEMMA RebuildReadSafe ==
    ASSUME HealthAssumption, HealthInv, NEW r \in Runners, RebuildRead(r)
    PROVE  HealthInv'
<1> DEFINE next == IF row.next = None THEN now ELSE row.next
           new == [runner[r] EXCEPT !.pc = "rebuild", !.at = next]
<1>1. row \in Row /\ Rest /\ locked \in LockType /\ verdict \in Tokens \union {None}
  BY Typed DEF HealthInv
<1>2. next \in Time BY <1>1 DEF Rest, Row, Time, HealthAssumption
<1>3. row' = [row EXCEPT !.next = next] BY DEF RebuildRead
<1>4. runner' \in [Runners -> Probe]
  <2>1. runner' = [runner EXCEPT ![r].pc = "rebuild", ![r].at = next] BY DEF RebuildRead
  <2>2. runner \in [Runners -> Probe] BY <1>1 DEF Rest
  <2> HIDE DEF next
  <2> QED BY <1>2, <2>1, <2>2 DEF Probe
<1>5. locked["row"] = None \/ row' = row
  <2>1. CASE row.next = None BY <2>1 DEF RebuildRead
  <2>2. CASE row.next # None BY <1>1, <1>3, <2>2 DEF Row
  <2> QED BY <2>1, <2>2
<1> HIDE DEF next
<1>6. /\ row' \in Row /\ row'.status = row.status /\ row'.token = row.token
      /\ row'.failures = row.failures
  BY <1>1, <1>2, <1>3 DEF Row
<1>7. VerdictOfCredential' /\ ConnectedMeansHealthy'
  BY <1>6 DEF RebuildRead, HealthInv, VerdictOfCredential, ConnectedMeansHealthy
<1>8. Rest' /\ UNCHANGED <<req, locked, verdict>> BY <1>1, <1>4 DEF RebuildRead, Rest
<1> QED BY <1>1, <1>5, <1>6, <1>7, <1>8, ProbeWrites

\* A probe speaks of the row only while the row is the one it read.
LEMMA ApplySafe ==
    ASSUME HealthAssumption, HealthInv, NEW r \in Runners, NEW answer \in Answers,
           Apply(r, answer)
    PROVE  HealthInv'
<1> DEFINE seen == runner[r].seen
<1>1. row \in Row /\ Rest /\ locked \in LockType /\ verdict \in Tokens \union {None}
  BY Typed DEF HealthInv
<1>2. now \in Nat /\ runner \in [Runners -> Probe]
  BY <1>1 DEF Rest, HealthAssumption
<1>3. Answered(answer) /\ UNCHANGED <<locked, loop, req, lease, due, now>>
      /\ locked["row"] = None
  BY DEF Apply
<1>4. spent' \in SpentType BY <1>1, <1>3, AnsweredTyped DEF Rest
<1>5. \A at \in Time : runner' = [runner EXCEPT ![r].pc = "schedule", ![r].at = at]
        => Rest'
  <2> SUFFICES ASSUME NEW at \in Time,
                      runner' = [runner EXCEPT ![r].pc = "schedule", ![r].at = at]
               PROVE  Rest'
    OBVIOUS
  <2>1. runner' \in [Runners -> Probe] BY <1>2 DEF Probe
  <2> QED BY <1>1, <1>3, <1>4, <2>1 DEF Rest
<1>6. CASE row.status = "disconnected"
  <2>1. /\ row' = [row EXCEPT !.next = None] /\ verdict' = verdict
        /\ runner' = [runner EXCEPT ![r].pc = "schedule", ![r].at = None]
    BY <1>6 DEF Apply
  <2>2. row' \in Row /\ row'.status = "disconnected" BY <1>1, <1>6, <2>1 DEF Row, Time
  <2>3. Rest' BY <1>5, <2>1 DEF Time
  <2>4. VerdictOfCredential' /\ ConnectedMeansHealthy'
    BY <2>2 DEF VerdictOfCredential, ConnectedMeansHealthy
  <2> QED BY <1>1, <1>3, <2>1, <2>2, <2>3, <2>4, ProbeWrites
<1>7. CASE row.status # "disconnected" /\ Superseded(seen)
  <2>1. /\ row' = row /\ verdict' = verdict
        /\ runner' = [runner EXCEPT ![r].pc = "schedule", ![r].at = row.next]
    BY <1>7 DEF Apply
  <2>2. row.next \in Time BY <1>1 DEF Row
  <2>3. Rest' BY <1>5, <2>1, <2>2
  <2> QED BY <1>3, <2>1, <2>3, RestGoesOn
<1>8. CASE row.status # "disconnected" /\ ~Superseded(seen)
  <2> DEFINE j == Judged(row, answer)
  <2>1. /\ row' = j /\ verdict' = seen.token
        /\ runner' = [runner EXCEPT ![r].pc = "schedule", ![r].at = row'.next]
    BY <1>8 DEF Apply
  <2>2. /\ j \in Row /\ j.next \in Nat /\ j.token = row.token
        /\ j.status # "disconnected" /\ (j.status = "connected" <=> j.failures = 0)
    BY <1>1, <1>2, JudgedFits
  <2>3. seen.token = row.token BY <1>8 DEF Superseded
  <2> HIDE DEF j
  <2>4. Rest' BY <1>5, <2>1, <2>2 DEF Time
  <2>5. verdict' \in Tokens \union {None} BY <1>1, <2>1, <2>3 DEF Row
  <2>6. VerdictOfCredential' /\ ConnectedMeansHealthy'
    BY <2>1, <2>2, <2>3 DEF VerdictOfCredential, ConnectedMeansHealthy
  <2> QED BY <1>3, <2>1, <2>2, <2>4, <2>5, <2>6, ProbeWrites
<1> QED BY <1>6, <1>7, <1>8

\* A stop of the engine loses every request and every lock.
LEMMA EngineStopsSafe ==
    ASSUME HealthAssumption, HealthInv, EngineStops
    PROVE  HealthInv'
<1>1. row \in Row /\ Rest /\ locked \in LockType /\ verdict \in Tokens \union {None}
  BY Typed DEF HealthInv
<1>2. None # "convert" BY DEF HealthAssumption, Operations
<1>3. req' \in [Requests -> Request] /\ \A q \in Requests : req'[q] = Idle
  BY IdleTyped DEF EngineStops
<1>4. \A q \in Requests : Sound(q)'
  BY <1>2, <1>3, IdleTyped, SoundOutside
<1>5. spent' \in SpentType
  <2>1. spent' = [spent EXCEPT !.losses = spent.losses + 1] /\ spent.losses < MaxLosses
    BY DEF EngineStops
  <2>2. spent \in SpentType BY <1>1 DEF Rest
  <2> QED BY <2>1, <2>2 DEF SpentType, HealthAssumption
<1>6. Rest' BY <1>1, <1>5 DEF EngineStops, Rest
<1>7. locked' \in LockType BY <1>1 DEF EngineStops, LockType
<1>8. TypeOK'
  BY <1>1, <1>3, <1>6, <1>7 DEF EngineStops, TypeOK, Rest, LockType, SpentType, Request, Probe
<1>9. VerdictOfCredential' /\ ConnectedMeansHealthy'
  BY DEF EngineStops, HealthInv, VerdictOfCredential, ConnectedMeansHealthy
<1> QED BY <1>4, <1>8, <1>9 DEF HealthInv

-----------------------------------------------------------------------------
(* What the runners and the world do besides *)

LEMMA RunnerMoves ==
    ASSUME HealthInv, NEW r \in Runners,
           RebuildAdd(r) \/ Acquire(r) \/ Snapshot(r) \/ Schedule(r)
    PROVE  Rest' /\ UNCHANGED <<row, verdict, req, locked>>
<1>1. row \in Row /\ Rest BY Typed DEF HealthInv
<1>2. runner \in [Runners -> Probe] /\ runner[r] \in Probe /\ runner[r].at \in Time
      /\ Unleased(r) \in Runners \union {None}
  BY <1>1 DEF Rest, Probe, Unleased
<1>3. Sleeps(r) => runner' \in [Runners -> Probe] BY <1>2, AsleepTyped DEF Sleeps
<1>4. CASE RebuildAdd(r) BY <1>1, <1>2, <1>3, <1>4 DEF RebuildAdd, Rest
<1>5. CASE Acquire(r)
  <2>1. runner' \in [Runners -> Probe] BY <1>2, <1>5 DEF Acquire, Probe
  <2> QED BY <1>1, <1>5, <2>1 DEF Acquire, Rest
<1>6. CASE Snapshot(r)
  <2>1. CASE row.status = "disconnected"
    <3>1. None \in Time BY DEF Time
    <3> QED BY <1>1, <1>2, <1>3, <1>6, <2>1, <3>1 DEF Snapshot, Rest
  <2>2. CASE row.status # "disconnected"
    <3>1. runner' = [runner EXCEPT ![r].pc = "probe", ![r].seen = row]
          /\ UNCHANGED <<lease, due>>
      BY <1>6, <2>2 DEF Snapshot
    <3>2. runner' \in [Runners -> Probe] BY <1>1, <1>2, <3>1 DEF Probe
    <3> QED BY <1>1, <1>6, <3>1, <3>2 DEF Snapshot, Rest
  <2> QED BY <2>1, <2>2
<1>7. CASE Schedule(r) BY <1>1, <1>2, <1>3, <1>7 DEF Schedule, Rest
<1> QED BY <1>4, <1>5, <1>6, <1>7

LEMMA LossTyped ==
    ASSUME HealthAssumption, spent \in SpentType,
           \/ spent.losses < MaxLosses /\ spent' = [spent EXCEPT !.losses = @ + 1]
           \/ spent' = [spent EXCEPT !.losses = @ + 0]
    PROVE  spent' \in SpentType
BY DEF SpentType, HealthAssumption

LEMMA WorldMoves ==
    ASSUME HealthAssumption, HealthInv,
           LeaseExpires \/ RedisLoses \/ Tick \/ \E r \in Runners : RunnerStops(r)
    PROVE  Rest' /\ UNCHANGED <<row, verdict, req, locked>>
<1>1. Rest /\ spent \in SpentType BY Typed DEF HealthInv, Rest
<1>2. CASE LeaseExpires
  <2>1. spent' \in SpentType
    <3>1. CASE runner[lease].pc \in {"asleep", "rebuild"}
      <4>1. spent' = [spent EXCEPT !.losses = @ + 0] BY <1>2, <3>1 DEF LeaseExpires
      <4> QED BY <1>1, <4>1, LossTyped
    <3>2. CASE runner[lease].pc \notin {"asleep", "rebuild"}
      <4>1. spent.losses < MaxLosses /\ spent' = [spent EXCEPT !.losses = @ + 1]
        BY <1>2, <3>2 DEF LeaseExpires
      <4> QED BY <1>1, <4>1, LossTyped
    <3> QED BY <3>1, <3>2
  <2> QED BY <1>1, <1>2, <2>1 DEF LeaseExpires, Rest
<1>3. CASE RedisLoses
  <2>1. spent' \in SpentType BY <1>1, <1>3, LossTyped DEF RedisLoses
  <2> QED BY <1>1, <1>3, <2>1 DEF RedisLoses, Rest, Time
<1>4. CASE Tick
  <2>1. now' \in 0 .. MaxTime BY <1>1, <1>4 DEF Tick, Rest, HealthAssumption
  <2> QED BY <1>1, <1>4, <2>1 DEF Tick, Rest
<1>5. CASE \E r \in Runners : RunnerStops(r)
  <2> PICK r \in Runners : RunnerStops(r) BY <1>5
  <2>1. spent' \in SpentType BY <1>1, LossTyped DEF RunnerStops
  <2>2. runner' \in [Runners -> Probe] BY <1>1, AsleepTyped DEF RunnerStops, Sleeps, Rest
  <2> QED BY <1>1, <2>1, <2>2 DEF RunnerStops, Rest
<1> QED BY <1>2, <1>3, <1>4, <1>5

-----------------------------------------------------------------------------
(* The invariant *)

LEMMA InitSafe == ASSUME HealthAssumption, Init PROVE HealthInv
<1>1. /\ row \in Row /\ row.next = None
      /\ row.status # "disconnected" => row.status = "connected" /\ row.failures = 0
  BY NoRowTyped DEF Init, Row, Time, NoRow
<1>2. None # "convert" BY DEF HealthAssumption, Operations
<1>3. req \in [Requests -> Request] /\ \A q \in Requests : req[q] = Idle
  BY IdleTyped DEF Init
<1>4. \A q \in Requests : Sound(q) BY <1>2, <1>3, IdleTyped DEF Sound
<1>5. Rest
  <2>1. runner \in [Runners -> Probe] BY AsleepTyped DEF Init
  <2>2. spent \in SpentType /\ now \in 0 .. MaxTime BY DEF Init, SpentType, HealthAssumption
  <2> QED BY <2>1, <2>2 DEF Init, Rest, Time
<1>6. locked \in LockType /\ verdict = row.token BY DEF Init, LockType
<1>7. TypeOK
  <2>1. verdict \in Tokens \union {None} BY <1>1, <1>6 DEF Row
  <2> QED BY <1>1, <1>3, <1>5, <1>6, <2>1, Typed
<1>8. VerdictOfCredential /\ ConnectedMeansHealthy
  BY <1>1, <1>6 DEF VerdictOfCredential, ConnectedMeansHealthy
<1> QED BY <1>4, <1>7, <1>8 DEF HealthInv

LEMMA ServesSafe ==
    ASSUME HealthAssumption, HealthInv, NEW q \in Requests, Serves(q)
    PROVE  HealthInv'
<1>1. CASE LoadConvert(q) \/ Insert(q)
  <2>1. req[q].op # "convert" /\ req[q].pc # "insert" BY Here DEF Sound
  <2> QED BY <1>1, <2>1 DEF LoadConvert, Insert
<1>2. CASE ~(LoadConvert(q) \/ Insert(q))
  BY <1>2, AuthorizeSafe, RefusedSafe, LoadTestSafe, DisconnectSafe, WriteSafe, CallbackSafe,
     AnswerSafe DEF Serves
<1> QED BY <1>1, <1>2

LEMMA ProbesSafe ==
    ASSUME HealthAssumption, HealthInv, NEW r \in Runners,
           Probes(r) \/ RebuildRead(r) \/ RebuildAdd(r) \/ RunnerStops(r)
    PROVE  HealthInv'
<1>1. CASE RebuildAdd(r) \/ Acquire(r) \/ Snapshot(r) \/ Schedule(r)
  BY <1>1, RunnerMoves, RestGoesOn
<1>2. CASE RunnerStops(r) BY <1>2, WorldMoves, RestGoesOn
<1>3. CASE RebuildRead(r) BY <1>3, RebuildReadSafe
<1>4. CASE \E answer \in Answers : Apply(r, answer) BY <1>4, ApplySafe
<1> QED BY <1>1, <1>2, <1>3, <1>4 DEF Probes

LEMMA NextSafe ==
    ASSUME HealthAssumption, NoConversions, HealthInv, [Next]_vars
    PROVE  HealthInv'
<1>1. CASE \E q \in Requests : Serves(q) BY <1>1, ServesSafe
<1>2. CASE \E q \in Requests, op \in Operations, t \in Tokens : Begin(q, op, t)
  BY <1>2, BeginSafe
<1>3. CASE \E r \in Runners :
        Probes(r) \/ RebuildRead(r) \/ RebuildAdd(r) \/ RunnerStops(r)
  BY <1>3, ProbesSafe
<1>4. CASE EngineStops BY <1>4, EngineStopsSafe
<1>5. CASE LeaseExpires \/ RedisLoses \/ Tick BY <1>5, WorldMoves, RestGoesOn
<1>6. CASE UNCHANGED vars
  <2>1. Rest' BY <1>6, Typed DEF vars, Rest, HealthInv
  <2> QED BY <1>6, <2>1, RestGoesOn DEF vars
<1> QED BY <1>1, <1>2, <1>3, <1>4, <1>5, <1>6 DEF Next

\* Only a connect brings a disconnected integration back: a test has the row, which
\* was usable, and a probe leaves a disconnected one as it is.
LEMMA StepStays ==
    ASSUME HealthAssumption, HealthInv, [Next]_vars
    PROVE  DisconnectStaysStep
<1> SUFFICES ASSUME row.status = "disconnected", row'.status # "disconnected"
             PROVE  \E q \in Requests : req[q].op = "connect" /\ req[q].pc = "write"
  BY DEF DisconnectStaysStep
<1>1. row \in Row BY Typed DEF HealthInv
<1>2. CASE \E q \in Requests : Write(q) BY <1>2, WriteFits DEF Write
<1>3. CASE \E r \in Runners, answer \in Answers : Apply(r, answer)
  BY <1>1, <1>3 DEF Apply, Row
<1>4. CASE \E r \in Runners : RebuildRead(r) BY <1>4 DEF RebuildRead
<1>5. CASE \E q \in Requests : Disconnect(q) BY <1>5 DEF Disconnect, Usable
<1>6. CASE row' = row BY <1>6
<1>7. \/ \E q \in Requests : Write(q) \/ Disconnect(q)
      \/ \E r \in Runners : RebuildRead(r) \/ \E answer \in Answers : Apply(r, answer)
      \/ row' = row
  <2>1. ASSUME NEW q \in Requests, Serves(q), ~Write(q), ~Disconnect(q)
        PROVE  row' = row
    BY <2>1 DEF Serves, Authorize, Refused, LoadTest, LoadConvert, Insert, Callback, Answer
  <2>2. ASSUME NEW q \in Requests, NEW op \in Operations, NEW t \in Tokens, Begin(q, op, t)
        PROVE  row' = row
    BY <2>2 DEF Begin
  <2>3. ASSUME NEW r \in Runners, Acquire(r) \/ Snapshot(r) \/ Schedule(r) \/ RebuildAdd(r)
                                  \/ RunnerStops(r)
        PROVE  row' = row
    BY <2>3 DEF Acquire, Snapshot, Schedule, RebuildAdd, RunnerStops
  <2>4. ASSUME EngineStops \/ LeaseExpires \/ RedisLoses \/ Tick \/ UNCHANGED vars
        PROVE  row' = row
    BY <2>4 DEF EngineStops, LeaseExpires, RedisLoses, Tick, vars
  <2> QED BY <2>1, <2>2, <2>3, <2>4 DEF Next, Probes
<1> QED BY <1>2, <1>3, <1>4, <1>5, <1>6, <1>7

\* What the row says of a credential was found with that credential, although
\* probes and tests are under way while an administrator replaces it or
\* disconnects: its status is a verdict on the credential it has, fits its count of
\* failures, and only a connect ends a disconnection (EconomyIntegrationService,
\* EconomyHealthService._check_one).  For any number of requests, runners and
\* credentials, as long as no conversion reports on the row.
THEOREM VerdictsAreOfTheCredential ==
    ASSUME HealthAssumption, NoConversions
    PROVE  Spec => IntegrationHolds
<1>1. Init => HealthInv BY InitSafe
<1>2. HealthInv /\ [Next]_vars => HealthInv' BY NextSafe
<1>3. HealthInv /\ [Next]_vars => DisconnectStaysStep BY StepStays
<1>4. HealthInv => TypeOK /\ VerdictOfCredential /\ ConnectedMeansHealthy BY DEF HealthInv
<1>5. Spec => []HealthInv BY <1>1, <1>2, PTL DEF Spec
<1>6. Spec => [](TypeOK /\ VerdictOfCredential /\ ConnectedMeansHealthy) BY <1>4, <1>5, PTL
<1>7. Spec => DisconnectStays
  BY <1>3, <1>5, PTL DEF Spec, DisconnectStays
<1> QED BY <1>6, <1>7 DEF IntegrationHolds

=============================================================================
