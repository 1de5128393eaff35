------------------------------ MODULE WebhookProofs ------------------------------
(***************************************************************************)
(* What webhook delivery keeps for any number of events, endpoints and     *)
(* overlapping runs of the cron, and any limit of attempts: what a row     *)
(* says of an attempt has happened.                                        *)
(***************************************************************************)
EXTENDS Webhooks, TLAPS

-----------------------------------------------------------------------------
\* Types.

LEMMA RowType ==
  ASSUME NEW n \in 1..MaxAttempts, NEW ok \in BOOLEAN
  PROVE  NewRow(n, ok) \in Row
  BY DEF NewRow, Row

LEMMA RestType ==
  ASSUME TypeOK, NEW c \in Crons, NEW left \in SUBSET Deliveries, Rest(c, left)
  PROVE  /\ pc' \in [Crons -> {"idle", "loop", "post", "update"}]
         /\ work' \in [Crons -> SUBSET Deliveries]
         /\ cur' \in [Crons -> Deliveries \cup {NoDelivery}]
         /\ attempt' \in [Crons -> 0..MaxAttempts]
         /\ answer' \in [Crons -> BOOLEAN]
  BY WebhookAssumption DEF TypeOK, Rest

\* An attempt is counted, and no count goes back.
LEMMA DeliverOnceCounts ==
  ASSUME TypeOK, NEW d \in Deliveries, NEW ok \in BOOLEAN, DeliverOnce(d, ok)
  PROVE  /\ tries' \in [Deliveries -> 0..(MaxAttempts + 1)]
         /\ acks' \in [Deliveries -> 0..2]
         /\ \A x \in Deliveries : tries[x] <= tries'[x] /\ acks[x] <= acks'[x]
         /\ tries'[d] > tries[d] \/ tries'[d] > MaxAttempts
         /\ ok => acks'[d] > 0
  BY WebhookAssumption DEF TypeOK, DeliverOnce, Refused, Posted

\* What is due is kept in rows.
LEMMA DueType == TypeOK => Due \subseteq Deliveries
  BY DEF TypeOK, Due, Open

\* Whoever retries a row retries a delivery: part of the inductive invariant.
Busy(c) == pc[c] \in {"post", "update"}

Retrying(c) ==
  Busy(c) => cur[c] \in Deliveries /\ attempt[c] \in 1..MaxAttempts

Typed == TypeOK /\ \A c \in Crons : Retrying(c)

\* Between two retries nothing is to be shown.
LEMMA RestRetrying ==
  ASSUME Typed, NEW c \in Crons, NEW left, Rest(c, left)
  PROVE  /\ ~Busy(c)'
         /\ \A o \in Crons : Retrying(o)'
         /\ \A o \in Crons \ {c} :
              /\ pc'[o] = pc[o] /\ cur'[o] = cur[o]
              /\ attempt'[o] = attempt[o] /\ answer'[o] = answer[o]
  BY DEF Typed, TypeOK, Rest, Busy, Retrying

LEMMA InitTyped == Init => Typed
<1> SUFFICES ASSUME Init PROVE Typed
  OBVIOUS
<1>1. DOMAIN row \subseteq Deliveries /\ row \in [DOMAIN row -> Row]
  BY Zenon DEF Init
<1>2. \A c \in Crons : ~Busy(c)
  BY DEF Init, Busy
<1>3. cur \in [Crons -> Deliveries \cup {NoDelivery}]
  BY DEF Init
<1>4. /\ attempt \in [Crons -> 0..MaxAttempts]
      /\ tries \in [Deliveries -> 0..(MaxAttempts + 1)]
      /\ acks \in [Deliveries -> 0..2]
  BY WebhookAssumption DEF Init
<1>5. /\ endpoint \in [Endpoints -> {"off", "on", "deleted"}]
      /\ task \in [Events -> {"none", "queued", "running", "ended"}]
      /\ first \in [Deliveries -> {"none", "post", "ok", "failed"}]
      /\ pc \in [Crons -> {"idle", "loop", "post", "update"}]
      /\ work \in [Crons -> SUBSET Deliveries]
      /\ answer \in [Crons -> BOOLEAN]
      /\ overlap \in BOOLEAN
  BY DEF Init
<1> QED
  BY <1>1, <1>2, <1>3, <1>4, <1>5 DEF Typed, TypeOK, Retrying

LEMMA NextTyped == Typed /\ [Next]_vars => Typed'
<1> SUFFICES ASSUME Typed, [Next]_vars PROVE Typed'
  OBVIOUS
<1> USE WebhookAssumption
<1>0. TypeOK /\ \A c \in Crons : Retrying(c)
  BY DEF Typed
<1>1. ASSUME NEW p \in Endpoints, PatchEndpoint(p) PROVE Typed'
  BY <1>0, <1>1 DEF PatchEndpoint, Typed, TypeOK, Retrying, Busy, cronVars, history
<1>2. ASSUME NEW p \in Endpoints, DeleteEndpoint(p) PROVE Typed'
  BY <1>0, <1>2 DEF DeleteEndpoint, Typed, TypeOK, Retrying, Busy, cronVars, history
<1>3. ASSUME NEW e \in Events, Emit(e) PROVE Typed'
  BY <1>0, <1>3 DEF Emit, Typed, TypeOK, Retrying, Busy, cronVars, history
<1>4. ASSUME NEW e \in Events, Match(e) PROVE Typed'
  BY <1>0, <1>4 DEF Match, Typed, TypeOK, Retrying, Busy, cronVars, history
<1>5. ASSUME NEW d \in Deliveries, FirstPost(d) PROVE Typed'
  <2>1. PICK ok \in BOOLEAN : DeliverOnce(d, ok)
    BY <1>5 DEF FirstPost
  <2> QED
    BY <1>0, <1>5, <2>1, DeliverOnceCounts
    DEF FirstPost, Typed, TypeOK, Retrying, Busy, cronVars
<1>6. ASSUME NEW d \in Deliveries, PersistDelivery(d) PROVE Typed'
  <2>1. NewRow(1, first[d] = "ok") \in Row
    BY DEF NewRow, Row
  <2> QED
    BY <1>0, <1>6, <2>1
    DEF PersistDelivery, Typed, TypeOK, Retrying, Busy, cronVars, history
<1>7. ASSUME NEW e \in Events, EndTask(e) PROVE Typed'
  BY <1>0, <1>7 DEF EndTask, Typed, TypeOK, Retrying, Busy, cronVars, history
<1>8. ASSUME NEW e \in Events, TaskDies(e) PROVE Typed'
  BY <1>0, <1>8 DEF TaskDies, Typed, TypeOK, Retrying, Busy, cronVars, history
<1>9. ASSUME NEW c \in Crons, CronStart(c) PROVE Typed'
  <2>1. PICK batch \in SUBSET Due : Rest(c, batch)
    BY <1>9 DEF CronStart
  <2>2. batch \in SUBSET Deliveries
    BY <1>0, DueType
  <2> QED
    BY <1>0, <1>9, <2>1, <2>2, RestType, RestRetrying
    DEF CronStart, Typed, TypeOK, history
<1>10. ASSUME NEW c \in Crons, NEW d \in Deliveries, CronSkip(c, d) PROVE Typed'
  <2>1. work[c] \ {d} \in SUBSET Deliveries
    BY <1>0 DEF TypeOK
  <2> QED
    BY <1>0, <1>10, <2>1, RestType, RestRetrying
    DEF CronSkip, Typed, TypeOK, history
<1>11. ASSUME NEW c \in Crons, NEW d \in Deliveries, CronTake(c, d) PROVE Typed'
  <2>1. row[d].attempts \in 1..MaxAttempts /\ row[d].attempts < MaxAttempts
    BY <1>0, <1>11 DEF CronTake, Open, TypeOK, Row
  <2>2. row[d].attempts + 1 \in 1..MaxAttempts
    BY <2>1
  <2> QED
    BY <1>0, <1>11, <2>2 DEF CronTake, Typed, TypeOK, Retrying, Busy, history
<1>12. ASSUME NEW c \in Crons, CronPost(c) PROVE Typed'
  <2>1. cur[c] \in Deliveries
    BY <1>0, <1>12 DEF CronPost, Retrying, Busy
  <2>2. PICK ok \in BOOLEAN :
          DeliverOnce(cur[c], ok) /\ answer' = [answer EXCEPT ![c] = ok]
    BY <1>12 DEF CronPost
  <2> QED
    BY <1>0, <1>12, <2>1, <2>2, DeliverOnceCounts
    DEF CronPost, Typed, TypeOK, Retrying, Busy
<1>13. ASSUME NEW c \in Crons, CronUpdate(c) PROVE Typed'
  <2>1. attempt[c] \in 1..MaxAttempts /\ answer[c] \in BOOLEAN
    BY <1>0, <1>13 DEF CronUpdate, Retrying, Busy, TypeOK
  <2>2. NewRow(attempt[c], answer[c]) \in Row
    BY <2>1, RowType
  <2>3. row' \in [DOMAIN row' -> Row] /\ DOMAIN row' \subseteq Deliveries
    BY <1>0, <1>13, <2>2 DEF CronUpdate, TypeOK
  <2>4. PICK left \in {work[c], {}} : Rest(c, left)
    BY <1>13 DEF CronUpdate
  <2>5. left \in SUBSET Deliveries
    BY <1>0 DEF TypeOK
  <2> QED
    BY <1>0, <1>13, <2>3, <2>4, <2>5, RestType, RestRetrying
    DEF CronUpdate, Typed, TypeOK, history
<1>14. ASSUME NEW c \in Crons, CronDies(c) PROVE Typed'
  BY <1>0, <1>14, RestType, RestRetrying DEF CronDies, Typed, TypeOK, history
<1>15. ASSUME NEW d \in Deliveries, Elapse(d) PROVE Typed'
  <2>1. [row[d] EXCEPT !.next = "due"] \in Row
    BY <1>0, <1>15 DEF Elapse, TypeOK, Row
  <2> QED
    BY <1>0, <1>15, <2>1
    DEF Elapse, Typed, TypeOK, Retrying, Busy, cronVars, history
<1>16. CASE UNCHANGED vars
  BY <1>0, <1>16 DEF vars, Typed, TypeOK, Retrying, Busy
<1>17. \A e \in Events, p \in Endpoints : <<e, p>> \in Deliveries
  BY DEF Deliveries
<1> QED
  BY <1>1, <1>2, <1>3, <1>4, <1>5, <1>6, <1>7, <1>8, <1>9, <1>10, <1>11, <1>12,
     <1>13, <1>14, <1>15, <1>16, <1>17 DEF Next, TaskStep, CronStep

\* Tasks, rows, runs of the cron and the counters of attempts have their types.
THEOREM TypeCorrect == Spec => []TypeOK
<1>1. Typed => TypeOK
  BY DEF Typed
<1> QED
  BY <1>1, InitTyped, NextTyped, PTL DEF Spec

-----------------------------------------------------------------------------
\* What a row, a first attempt and a retry say of the attempts made.

RowHeld(d) ==
  d \in DOMAIN row =>
    /\ row[d].attempts <= tries[d]
    /\ row[d].delivered => acks[d] > 0

FirstHeld(d) ==
  /\ first[d] \in {"ok", "failed"} => tries[d] >= 1
  /\ first[d] = "ok" => acks[d] > 0

RetryHeld(c) ==
  /\ pc[c] = "post" => attempt[c] <= tries[cur[c]] + 1
  /\ pc[c] = "update" =>
       attempt[c] <= tries[cur[c]] /\ (answer[c] => acks[cur[c]] > 0)

Held ==
  /\ \A d \in Deliveries : RowHeld(d) /\ FirstHeld(d)
  /\ \A c \in Crons : RetryHeld(c)

\* The rows a request writes are about the attempt it was given.
LEMMA NewRowSays ==
  ASSUME NEW n, NEW ok
  PROVE  NewRow(n, ok).attempts = n /\ NewRow(n, ok).delivered = ok
  BY DEF NewRow

\* What is said of a retry stays true when only the counts grow.
LEMMA RetryKept ==
  ASSUME Typed, Typed', NEW c \in Crons, RetryHeld(c),
         pc'[c] = pc[c], cur'[c] = cur[c], attempt'[c] = attempt[c],
         answer'[c] = answer[c],
         \A x \in Deliveries : tries[x] <= tries'[x] /\ acks[x] <= acks'[x]
  PROVE  RetryHeld(c)'
<1>1. Busy(c) => cur[c] \in Deliveries
  BY DEF Typed, Retrying
<1>2. CASE ~Busy(c)
  BY <1>2 DEF RetryHeld, Busy
<1>3. CASE Busy(c)
  <2>1. cur[c] \in Deliveries /\ attempt[c] \in Nat
    BY <1>3, WebhookAssumption DEF Typed, TypeOK, Retrying
  <2>2. /\ tries[cur[c]] \in Nat /\ tries'[cur[c]] \in Nat
        /\ acks[cur[c]] \in Nat /\ acks'[cur[c]] \in Nat
    BY <2>1, WebhookAssumption DEF Typed, TypeOK
  <2> QED
    BY <2>1, <2>2 DEF RetryHeld
<1> QED
  BY <1>2, <1>3

\* Steps that leave the counts, the first attempts and the rows alone.
LEMMA SameRows ==
  ASSUME Held, UNCHANGED <<first, row, tries, acks>>,
         \A c \in Crons : RetryHeld(c)'
  PROVE  Held'
  BY DEF Held, RowHeld, FirstHeld

\* A run that rests says nothing.
LEMMA RestHeld ==
  ASSUME Typed, Typed', Held, NEW c \in Crons, NEW left, Rest(c, left),
         UNCHANGED history
  PROVE  \A o \in Crons : RetryHeld(o)'
<1> SUFFICES ASSUME NEW o \in Crons PROVE RetryHeld(o)'
  OBVIOUS
<1>1. CASE o = c
  BY <1>1, RestRetrying DEF RetryHeld, Busy
<1>2. CASE o # c
  <2>1. \A x \in Deliveries : tries[x] <= tries'[x] /\ acks[x] <= acks'[x]
    BY WebhookAssumption DEF history, Typed, TypeOK
  <2> QED
    BY <1>2, <2>1, RestRetrying, RetryKept DEF Held
<1> QED
  BY <1>1, <1>2

LEMMA InitHeld == Init => Held
  BY DEF Init, Held, RowHeld, FirstHeld, RetryHeld

LEMMA NextHeld == Typed /\ Typed' /\ Held /\ [Next]_vars => Held'
<1> SUFFICES ASSUME Typed, Typed', Held, [Next]_vars PROVE Held'
  OBVIOUS
<1> USE WebhookAssumption
<1>0. TypeOK /\ TypeOK'
  BY DEF Typed
<1>1. ASSUME NEW p \in Endpoints, PatchEndpoint(p) PROVE Held'
  BY <1>1 DEF PatchEndpoint, Held, RowHeld, FirstHeld, RetryHeld, cronVars, history
<1>2. ASSUME NEW p \in Endpoints, DeleteEndpoint(p) PROVE Held'
  BY <1>2 DEF DeleteEndpoint, Held, RowHeld, FirstHeld, RetryHeld, cronVars, history
<1>3. ASSUME NEW e \in Events, Emit(e) PROVE Held'
  BY <1>3 DEF Emit, Held, RowHeld, FirstHeld, RetryHeld, cronVars, history
<1>4. ASSUME NEW e \in Events, Match(e) PROVE Held'
  BY <1>0, <1>4
  DEF Match, TypeOK, Held, RowHeld, FirstHeld, RetryHeld, cronVars, history
<1>5. ASSUME NEW d \in Deliveries, FirstPost(d) PROVE Held'
  <2>1. PICK ok \in BOOLEAN :
          /\ DeliverOnce(d, ok)
          /\ first' = [first EXCEPT ![d] = IF ok THEN "ok" ELSE "failed"]
    BY <1>5 DEF FirstPost
  <2>2. /\ \A x \in Deliveries : tries[x] <= tries'[x] /\ acks[x] <= acks'[x]
        /\ tries'[d] > tries[d] \/ tries'[d] > MaxAttempts
        /\ ok => acks'[d] > 0
    BY <1>0, <2>1, DeliverOnceCounts
  <2>3. \A c \in Crons : RetryHeld(c)'
    BY <1>5, <2>2, RetryKept DEF FirstPost, cronVars, Held
  <2>4. ASSUME NEW x \in Deliveries PROVE RowHeld(x)'
    BY <1>0, <1>5, <2>2 DEF FirstPost, Held, RowHeld, TypeOK, Row
  <2>5. ASSUME NEW x \in Deliveries PROVE FirstHeld(x)'
    BY <1>0, <2>1, <2>2 DEF Held, FirstHeld, TypeOK
  <2> QED
    BY <2>3, <2>4, <2>5 DEF Held
<1>6. ASSUME NEW d \in Deliveries, PersistDelivery(d) PROVE Held'
  <2>1. ASSUME NEW x \in Deliveries PROVE RowHeld(x)'
    <3>1. CASE row' = row
      BY <1>6, <3>1 DEF PersistDelivery, Held, RowHeld, history
    <3>2. CASE row' = [y \in DOMAIN row \cup {d} |->
                         IF y = d THEN NewRow(1, first[d] = "ok") ELSE row[y]]
      <4>1. CASE x = d
        <5>1. row'[d].attempts = 1 /\ (row'[d].delivered <=> first[d] = "ok")
          BY <3>2 DEF NewRow
        <5> QED
          BY <1>6, <4>1, <5>1 DEF PersistDelivery, Held, RowHeld, FirstHeld, history
      <4>2. CASE x # d
        BY <1>6, <3>2, <4>2 DEF PersistDelivery, Held, RowHeld, history
      <4> QED
        BY <4>1, <4>2
    <3> QED
      BY <1>6, <3>1, <3>2 DEF PersistDelivery
  <2> QED
    BY <1>0, <1>6, <2>1
    DEF PersistDelivery, Held, FirstHeld, RetryHeld, TypeOK, cronVars, history
<1>7. ASSUME NEW e \in Events, EndTask(e) PROVE Held'
  BY <1>7 DEF EndTask, Held, RowHeld, FirstHeld, RetryHeld, cronVars, history
<1>8. ASSUME NEW e \in Events, TaskDies(e) PROVE Held'
  BY <1>0, <1>8
  DEF TaskDies, TypeOK, Held, RowHeld, FirstHeld, RetryHeld, cronVars, history
<1>9. ASSUME NEW c \in Crons, CronStart(c) PROVE Held'
  BY <1>9, RestHeld, SameRows DEF CronStart, history
<1>10. ASSUME NEW c \in Crons, NEW d \in Deliveries, CronSkip(c, d) PROVE Held'
  BY <1>10, RestHeld, SameRows DEF CronSkip, history
<1>11. ASSUME NEW c \in Crons, NEW d \in Deliveries, CronTake(c, d) PROVE Held'
  <2>1. attempt'[c] = row[d].attempts + 1 /\ cur'[c] = d /\ pc'[c] = "post"
    BY <1>0, <1>11 DEF CronTake, TypeOK
  <2>2. row[d].attempts <= tries[d] /\ row[d].attempts \in Nat
    BY <1>0, <1>11 DEF CronTake, Open, Held, RowHeld, TypeOK, Row
  <2>3. RetryHeld(c)'
    BY <1>0, <1>11, <2>1, <2>2 DEF CronTake, RetryHeld, TypeOK, history
  <2>4. ASSUME NEW o \in Crons \ {c} PROVE RetryHeld(o)'
    BY <1>0, <1>11 DEF CronTake, Held, RetryHeld, TypeOK, history
  <2> QED
    BY <1>11, <2>3, <2>4, SameRows DEF CronTake, history
<1>12. ASSUME NEW c \in Crons, CronPost(c) PROVE Held'
  <2>1. cur[c] \in Deliveries /\ attempt[c] \in 1..MaxAttempts
    BY <1>12 DEF CronPost, Typed, Retrying, Busy
  <2>2. PICK ok \in BOOLEAN :
          DeliverOnce(cur[c], ok) /\ answer' = [answer EXCEPT ![c] = ok]
    BY <1>12 DEF CronPost
  <2>3. /\ \A x \in Deliveries : tries[x] <= tries'[x] /\ acks[x] <= acks'[x]
        /\ tries'[cur[c]] > tries[cur[c]] \/ tries'[cur[c]] > MaxAttempts
        /\ ok => acks'[cur[c]] > 0
    BY <1>0, <2>1, <2>2, DeliverOnceCounts
  <2>4. RetryHeld(c)'
    <3>1. pc'[c] = "update" /\ answer'[c] = ok /\ attempt'[c] = attempt[c]
          /\ cur'[c] = cur[c]
      BY <1>0, <1>12, <2>2 DEF CronPost, TypeOK
    <3>2. attempt[c] <= tries[cur[c]] + 1
      BY <1>12 DEF CronPost, Held, RetryHeld
    <3>3. tries[cur[c]] \in Nat /\ tries'[cur[c]] \in Nat
      BY <1>0, <2>1 DEF TypeOK
    <3> QED
      BY <2>1, <2>3, <3>1, <3>2, <3>3 DEF RetryHeld
  <2>5. ASSUME NEW o \in Crons \ {c} PROVE RetryHeld(o)'
    BY <1>0, <1>12, <2>2, <2>3, RetryKept DEF CronPost, Held, TypeOK
  <2>6. ASSUME NEW x \in Deliveries PROVE RowHeld(x)' /\ FirstHeld(x)'
    BY <1>0, <1>12, <2>3 DEF CronPost, Held, RowHeld, FirstHeld, TypeOK, Row
  <2> QED
    BY <2>4, <2>5, <2>6 DEF Held
<1>13. ASSUME NEW c \in Crons, CronUpdate(c) PROVE Held'
  <2>1. PICK left : Rest(c, left)
    BY <1>13 DEF CronUpdate
  <2>2. \A o \in Crons : RetryHeld(o)'
    BY <1>13, <2>1, RestHeld DEF CronUpdate
  <2>3. ASSUME NEW x \in Deliveries PROVE RowHeld(x)'
    BY <1>0, <1>13, NewRowSays
    DEF CronUpdate, Held, RowHeld, RetryHeld, TypeOK, history
  <2> QED
    BY <1>13, <2>2, <2>3 DEF CronUpdate, Held, FirstHeld, history
<1>14. ASSUME NEW c \in Crons, CronDies(c) PROVE Held'
  BY <1>14, RestHeld, SameRows DEF CronDies, history
<1>15. ASSUME NEW d \in Deliveries, Elapse(d) PROVE Held'
  <2>1. ASSUME NEW x \in Deliveries PROVE RowHeld(x)'
    BY <1>0, <1>15 DEF Elapse, Held, RowHeld, TypeOK, Row, history
  <2> QED
    BY <1>15, <2>1 DEF Elapse, Held, FirstHeld, RetryHeld, cronVars, history
<1>16. CASE UNCHANGED vars
  BY <1>16 DEF vars, Held, RowHeld, FirstHeld, RetryHeld
<1>17. \A e \in Events, p \in Endpoints : <<e, p>> \in Deliveries
  BY DEF Deliveries
<1> QED
  BY <1>1, <1>2, <1>3, <1>4, <1>5, <1>6, <1>7, <1>8, <1>9, <1>10, <1>11, <1>12,
     <1>13, <1>14, <1>15, <1>16, <1>17 DEF Next, TaskStep, CronStep

LEMMA AttemptsHeld == Spec => [](Typed /\ Held)
<1>1. Typed /\ Held /\ [Next]_vars => (Typed /\ Held)'
  BY NextTyped, NextHeld
<1> QED
  BY <1>1, InitTyped, InitHeld, PTL DEF Spec

\* A row reads delivered only when its receiver has answered, whichever run wrote
\* it last.
THEOREM DeliveredReceived == Spec => []DeliveredIsReceived
<1>1. Typed /\ Held => DeliveredIsReceived
  BY DEF Typed, TypeOK, Held, RowHeld, DeliveredIsReceived
<1> QED
  BY <1>1, AttemptsHeld, PTL

\* A row never counts an attempt that was not made: a POST, or the refusal of the
\* SSRF guard to send one.
THEOREM NoneInvented == Spec => []NoAttemptInvented
<1>1. Typed /\ Held => NoAttemptInvented
  BY DEF Typed, TypeOK, Held, RowHeld, NoAttemptInvented
<1> QED
  BY <1>1, AttemptsHeld, PTL

-----------------------------------------------------------------------------
\* As long as no two runs overlap and nothing dies, each delivery is in the
\* hands of one party, its task or one run, which knows every attempt made.

Alone == \A c, o \in Crons : pc[c] # "idle" /\ pc[o] # "idle" => c = o

CountOnce(d) == tries[d] <= MaxAttempts /\ acks[d] <= 1

Unsent(d) == task[d[1]] \in {"none", "queued"}

Untouched(d) == \A c \in Crons : Busy(c) => cur[c] # d

\* Before its row is written a delivery belongs to its task.
FirstOnce(d) ==
  /\ Unsent(d) => first[d] = "none"
  /\ Unsent(d) \/ first[d] = "post" => tries[d] = 0 /\ acks[d] = 0
  /\ first[d] \in {"ok", "failed"} =>
       tries[d] = 1 /\ (acks[d] > 0 => first[d] = "ok")
  /\ Unsent(d) \/ first[d] # "none" => d \notin DOMAIN row /\ Untouched(d)

\* A row counts every attempt but the one a run is about to write down.
RowOnce(d) ==
  d \in DOMAIN row =>
    \/ \E c \in Crons : pc[c] = "update" /\ cur[c] = d
    \/ tries[d] <= row[d].attempts /\ (acks[d] > 0 => row[d].delivered)

RetryOnce(c) ==
  /\ pc[c] = "post" => tries[cur[c]] < attempt[c] /\ acks[cur[c]] = 0
  /\ pc[c] = "update" =>
       tries[cur[c]] <= attempt[c] /\ (acks[cur[c]] > 0 => answer[c])

Once ==
  /\ Alone
  /\ \A d \in Deliveries : CountOnce(d) /\ FirstOnce(d) /\ RowOnce(d)
  /\ \A c \in Crons : RetryOnce(c)

\* Neither an overlap nor a death is forgotten.
LEMMA OverlapStays == Typed /\ [Next]_vars /\ ~overlap' => ~overlap
<1> SUFFICES ASSUME Typed, [Next]_vars, overlap PROVE overlap'
  OBVIOUS
<1>1. CASE UNCHANGED overlap
  BY <1>1
<1>2. CASE \E c \in Crons : CronStart(c)
  BY <1>2 DEF CronStart
<1>3. CASE \/ \E c \in Crons : CronDies(c)
           \/ \E e \in Events : TaskDies(e)
  BY <1>3 DEF CronDies, TaskDies
<1> QED
  BY <1>1, <1>2, <1>3
  DEF Next, TaskStep, CronStep, vars, PatchEndpoint, DeleteEndpoint, Emit, Match,
      FirstPost, PersistDelivery, EndTask, CronSkip, CronTake, CronPost,
      CronUpdate, Elapse

LEMMA InitOnce == Init => Once
<1> SUFFICES ASSUME Init PROVE Once
  OBVIOUS
<1>1. Alone /\ \A c \in Crons : ~Busy(c) /\ RetryOnce(c)
  BY DEF Init, Alone, Busy, RetryOnce
<1>2. DOMAIN row = {}
  BY DEF Init
<1>3. ASSUME NEW d \in Deliveries PROVE CountOnce(d) /\ FirstOnce(d) /\ RowOnce(d)
  BY <1>1, <1>2, WebhookAssumption
  DEF Init, CountOnce, FirstOnce, RowOnce, Unsent, Untouched
<1> QED
  BY <1>1, <1>3 DEF Once

\* While one run is at work the others are idle.
LEMMA OthersIdle ==
  ASSUME Alone, NEW c \in Crons, pc[c] # "idle"
  PROVE  \A o \in Crons : Busy(o) => o = c
  BY DEF Alone, Busy

\* One attempt more, for one delivery.
LEMMA DeliverOnceAdds ==
  ASSUME TypeOK, NEW d \in Deliveries, NEW ok \in BOOLEAN, DeliverOnce(d, ok)
  PROVE  /\ \A x \in Deliveries \ {d} : tries'[x] = tries[x] /\ acks'[x] = acks[x]
         /\ tries[d] <= MaxAttempts => tries'[d] = tries[d] + 1
         /\ acks[d] = 0 => acks'[d] <= 1
         /\ acks[d] = 0 /\ ~ok => acks'[d] = 0
  BY WebhookAssumption DEF TypeOK, DeliverOnce, Refused, Posted

LEMMA NextOnce ==
  ASSUME Typed, Typed', Once, ~overlap', [Next]_vars
  PROVE  Once'
<1> USE WebhookAssumption
<1>0. TypeOK /\ TypeOK'
  BY DEF Typed
<1>o. /\ Alone /\ \A c \in Crons : RetryOnce(c)
      /\ \A d \in Deliveries : CountOnce(d) /\ FirstOnce(d) /\ RowOnce(d)
  BY DEF Once
<1>1. ASSUME NEW p \in Endpoints, PatchEndpoint(p) PROVE Once'
  BY <1>1
  DEF PatchEndpoint, Once, Alone, CountOnce, FirstOnce, RowOnce, RetryOnce,
      Unsent, Untouched, Busy, cronVars, history
<1>2. ASSUME NEW p \in Endpoints, DeleteEndpoint(p) PROVE Once'
  BY <1>2
  DEF DeleteEndpoint, Once, Alone, CountOnce, FirstOnce, RowOnce, RetryOnce,
      Unsent, Untouched, Busy, cronVars, history
<1>3. ASSUME NEW e \in Events, Emit(e) PROVE Once'
  <2>1. \A d \in Deliveries : Unsent(d)' <=> Unsent(d)
    BY <1>0, <1>3 DEF Emit, Unsent, TypeOK, Deliveries
  <2>2. \A d \in Deliveries : FirstOnce(d)'
    BY <1>3, <2>1 DEF Emit, Once, FirstOnce, Untouched, Busy, cronVars, history
  <2> QED
    BY <1>3, <2>2
    DEF Emit, Once, Alone, CountOnce, RowOnce, RetryOnce, cronVars, history
<1>4. ASSUME NEW e \in Events, Match(e) PROVE Once'
  <2>1. ASSUME NEW d \in Deliveries PROVE FirstOnce(d)'
    <3>1. Untouched(d)' <=> Untouched(d)
      BY <1>4 DEF Match, Untouched, Busy, cronVars
    <3>2. CASE d[1] = e
      <4>1. Unsent(d) /\ ~Unsent(d)'
        BY <1>0, <1>4, <3>2 DEF Match, Unsent, TypeOK
      <4>2. first'[d] \in {"none", "post"}
        BY <1>4, <3>2, <4>1, <1>o DEF Match, FirstOnce
      <4> QED
        BY <1>4, <4>1, <4>2, <3>1, <1>o DEF Match, FirstOnce, history
    <3>3. CASE d[1] # e
      <4>1. first'[d] = first[d] /\ (Unsent(d)' <=> Unsent(d))
        BY <1>0, <1>4, <3>3 DEF Match, Unsent, TypeOK
      <4> QED
        BY <1>4, <4>1, <3>1, <1>o DEF Match, FirstOnce, history
    <3> QED
      BY <3>2, <3>3
  <2> QED
    BY <1>4, <2>1
    DEF Match, Once, Alone, CountOnce, RowOnce, RetryOnce, cronVars, history
<1>5. ASSUME NEW d \in Deliveries, FirstPost(d) PROVE Once'
  <2>1. PICK ok \in BOOLEAN :
          /\ DeliverOnce(d, ok)
          /\ first' = [first EXCEPT ![d] = IF ok THEN "ok" ELSE "failed"]
    BY <1>5 DEF FirstPost
  <2>2. /\ tries[d] = 0 /\ acks[d] = 0 /\ d \notin DOMAIN row
        /\ Untouched(d) /\ ~Unsent(d)
    BY <1>5, <1>o DEF FirstPost, FirstOnce
  <2>3. /\ \A x \in Deliveries \ {d} :
             /\ tries'[x] = tries[x] /\ acks'[x] = acks[x]
             /\ first'[x] = first[x]
        /\ tries'[d] = 1 /\ acks'[d] <= 1 /\ (~ok => acks'[d] = 0)
    BY <1>0, <2>1, <2>2, DeliverOnceAdds DEF TypeOK
  <2>4. first'[d] = IF ok THEN "ok" ELSE "failed"
    BY <1>0, <2>1 DEF TypeOK
  <2>5. ASSUME NEW x \in Deliveries PROVE CountOnce(x)'
    BY <2>3, <1>o DEF CountOnce
  <2>6. \A x \in Deliveries : (Unsent(x)' <=> Unsent(x))
                              /\ (Untouched(x)' <=> Untouched(x))
    BY <1>5 DEF FirstPost, Unsent, Untouched, Busy, cronVars
  <2>7. acks'[d] > 0 => ok
    BY <1>0, <2>3 DEF TypeOK
  <2>8. FirstOnce(d)'
    BY <1>5, <2>2, <2>3, <2>4, <2>6, <2>7 DEF FirstPost, FirstOnce
  <2>9. ASSUME NEW x \in Deliveries \ {d} PROVE FirstOnce(x)'
    BY <1>5, <2>3, <2>6, <1>o DEF FirstPost, FirstOnce
  <2>10. ASSUME NEW x \in Deliveries PROVE RowOnce(x)'
    BY <1>5, <2>2, <2>3, <1>o DEF FirstPost, RowOnce, cronVars
  <2>11. ASSUME NEW c \in Crons PROVE RetryOnce(c)'
    <3>1. Busy(c) => cur[c] \in Deliveries \ {d}
      BY <2>2 DEF Typed, Retrying, Untouched
    <3> QED
      BY <1>5, <2>3, <3>1, <1>o DEF FirstPost, RetryOnce, Busy, cronVars
  <2> QED
    BY <1>5, <2>5, <2>8, <2>9, <2>10, <2>11 DEF FirstPost, Once, Alone, cronVars
<1>6. ASSUME NEW d \in Deliveries, PersistDelivery(d) PROVE Once'
  <2>1. /\ tries[d] = 1 /\ (acks[d] > 0 => first[d] = "ok") /\ ~Unsent(d)
        /\ first'[d] = "none"
        /\ \A x \in Deliveries \ {d} : first'[x] = first[x]
    BY <1>0, <1>6, <1>o DEF PersistDelivery, FirstOnce, TypeOK
  <2>2. \A x \in Deliveries : (Unsent(x)' <=> Unsent(x))
                              /\ (Untouched(x)' <=> Untouched(x))
    BY <1>6 DEF PersistDelivery, Unsent, Untouched, Busy, cronVars
  <2>3. /\ DOMAIN row' \subseteq DOMAIN row \cup {d}
        /\ \A x \in DOMAIN row' \ {d} : row'[x] = row[x]
    BY <1>6 DEF PersistDelivery
  <2>4. d \in DOMAIN row' =>
          row' = [y \in DOMAIN row \cup {d} |->
                    IF y = d THEN NewRow(1, first[d] = "ok") ELSE row[y]]
    BY <1>6, <1>o DEF PersistDelivery, FirstOnce
  <2>5. ASSUME NEW x \in Deliveries PROVE FirstOnce(x)'
    BY <1>6, <2>1, <2>2, <2>3, <1>o DEF PersistDelivery, FirstOnce, history
  <2>6. RowOnce(d)'
    <3>1. ASSUME d \in DOMAIN row'
          PROVE  row'[d].attempts = 1 /\ (row'[d].delivered <=> first[d] = "ok")
      <4>1. row' = [y \in DOMAIN row \cup {d} |->
                      IF y = d THEN NewRow(1, first[d] = "ok") ELSE row[y]]
        BY <2>4, <3>1
      <4> QED
        BY <4>1 DEF NewRow
    <3> QED
      BY <1>6, <2>1, <3>1 DEF PersistDelivery, RowOnce, history
  <2>7. ASSUME NEW x \in Deliveries \ {d} PROVE RowOnce(x)'
    BY <1>6, <2>3, <1>o DEF PersistDelivery, RowOnce, cronVars, history
  <2> QED
    BY <1>6, <2>5, <2>6, <2>7
    DEF PersistDelivery, Once, Alone, CountOnce, RetryOnce, cronVars, history
<1>7. ASSUME NEW e \in Events, EndTask(e) PROVE Once'
  <2>1. \A d \in Deliveries : Unsent(d)' <=> Unsent(d)
    BY <1>0, <1>7 DEF EndTask, Unsent, TypeOK, Deliveries
  <2>2. \A d \in Deliveries : FirstOnce(d)'
    BY <1>7, <2>1 DEF EndTask, Once, FirstOnce, Untouched, Busy, cronVars, history
  <2> QED
    BY <1>7, <2>2
    DEF EndTask, Once, Alone, CountOnce, RowOnce, RetryOnce, cronVars, history
<1>9. ASSUME NEW c \in Crons, CronStart(c) PROVE Once'
  <2>1. PICK batch : Rest(c, batch)
    BY <1>9 DEF CronStart
  <2>2. \A o \in Crons : pc[o] = "idle"
    BY <1>9 DEF CronStart
  <2>3. \A o \in Crons : ~Busy(o) /\ ~Busy(o)'
    BY <1>0, <2>1, <2>2 DEF Rest, Busy, TypeOK
  <2>4. Alone'
    BY <1>0, <2>1, <2>2 DEF Rest, Alone, TypeOK
  <2> QED
    BY <1>9, <2>3, <2>4
    DEF CronStart, Once, CountOnce, FirstOnce, RowOnce, RetryOnce, Unsent,
        Untouched, Busy, history
<1>10. ASSUME NEW c \in Crons, NEW d \in Deliveries, CronSkip(c, d) PROVE Once'
  <2>1. Rest(c, work[c] \ {d}) /\ pc[c] = "loop"
    BY <1>10 DEF CronSkip
  <2>2. \A o \in Crons : ~Busy(o) /\ ~Busy(o)'
    BY <2>1, <1>o, OthersIdle, RestRetrying DEF Busy
  <2>3. Alone'
    BY <1>0, <2>1, <1>o DEF Rest, Alone, TypeOK
  <2> QED
    BY <1>10, <2>2, <2>3
    DEF CronSkip, Once, CountOnce, FirstOnce, RowOnce, RetryOnce, Unsent,
        Untouched, Busy, history
<1>11. ASSUME NEW c \in Crons, NEW d \in Deliveries, CronTake(c, d) PROVE Once'
  <2>1. /\ attempt'[c] = row[d].attempts + 1 /\ cur'[c] = d /\ pc'[c] = "post"
        /\ \A o \in Crons \ {c} : pc'[o] = pc[o] /\ cur'[o] = cur[o]
    BY <1>0, <1>11 DEF CronTake, TypeOK
  <2>2. /\ d \in DOMAIN row /\ row[d].attempts \in Nat
        /\ row[d].delivered = FALSE
    BY <1>0, <1>11 DEF CronTake, Open, TypeOK, Row
  <2>3. \A o \in Crons : ~Busy(o) /\ (Busy(o)' => o = c)
    BY <1>11, <2>1, <1>o, OthersIdle DEF CronTake, Busy
  <2>4. tries[d] <= row[d].attempts /\ ~(acks[d] > 0)
    BY <2>2, <2>3, <1>o DEF RowOnce, Busy
  <2>5. tries[d] \in Nat /\ acks[d] \in Nat
    BY <1>0 DEF TypeOK
  <2>6. RetryOnce(c)'
    BY <1>11, <2>1, <2>2, <2>4, <2>5 DEF CronTake, RetryOnce, history
  <2>7. ASSUME NEW x \in Deliveries PROVE FirstOnce(x)'
    <3>1. CASE x = d
      BY <1>11, <2>2, <3>1, <1>o DEF CronTake, FirstOnce, Unsent, history
    <3>2. CASE x # d
      <4>1. Untouched(x)'
        BY <2>1, <2>3, <3>2 DEF Untouched
      <4> QED
        BY <1>11, <4>1, <1>o DEF CronTake, FirstOnce, Unsent, history
    <3> QED
      BY <3>1, <3>2
  <2>8. ASSUME NEW x \in Deliveries PROVE RowOnce(x)'
    BY <1>11, <2>3, <1>o DEF CronTake, RowOnce, Busy, history
  <2>9. Alone'
    BY <1>0, <1>11, <1>o DEF CronTake, Alone, TypeOK
  <2> QED
    BY <1>11, <2>3, <2>6, <2>7, <2>8, <2>9
    DEF CronTake, Once, CountOnce, RetryOnce, Busy, history
<1>12. ASSUME NEW c \in Crons, CronPost(c) PROVE Once'
  <2> DEFINE d == cur[c]
  <2>1. d \in Deliveries /\ attempt[c] \in 1..MaxAttempts
    BY <1>12 DEF CronPost, Typed, Retrying, Busy
  <2>2. PICK ok \in BOOLEAN :
          DeliverOnce(d, ok) /\ answer' = [answer EXCEPT ![c] = ok]
    BY <1>12 DEF CronPost
  <2>3. tries[d] < attempt[c] /\ acks[d] = 0
    BY <1>12, <1>o DEF CronPost, RetryOnce
  <2>4. tries[d] \in Nat /\ tries[d] <= MaxAttempts
    BY <1>0, <2>1, <1>o DEF TypeOK, CountOnce
  <2>5. /\ \A x \in Deliveries \ {d} : tries'[x] = tries[x] /\ acks'[x] = acks[x]
        /\ tries'[d] = tries[d] + 1
        /\ acks'[d] <= 1 /\ (~ok => acks'[d] = 0)
    BY <1>0, <2>1, <2>2, <2>3, <2>4, DeliverOnceAdds
  <2>6. /\ pc'[c] = "update" /\ answer'[c] = ok
        /\ \A o \in Crons : cur'[o] = cur[o] /\ attempt'[o] = attempt[o]
        /\ \A o \in Crons \ {c} : pc'[o] = pc[o]
    BY <1>0, <1>12, <2>2 DEF CronPost, TypeOK
  <2>7. \A o \in Crons : Busy(o)' <=> Busy(o)
    BY <1>12, <2>6 DEF CronPost, Busy
  <2>8. /\ ~Unsent(d) /\ first[d] = "none"
        /\ \A x \in Deliveries : Untouched(x)' <=> Untouched(x)
    <3>1. ~Untouched(d)
      BY <1>12 DEF CronPost, Untouched, Busy
    <3> QED
      BY <2>1, <2>6, <2>7, <3>1, <1>o DEF FirstOnce, Untouched
  <2>9. tries'[d] <= attempt[c] /\ tries'[d] <= MaxAttempts
    BY <2>1, <2>3, <2>4, <2>5
  <2>10. RetryOnce(c)'
    <3>1. acks'[d] > 0 => ok
      BY <1>0, <2>1, <2>5 DEF TypeOK
    <3> QED
      BY <2>6, <2>9, <3>1 DEF RetryOnce
  <2>11. ASSUME NEW x \in Deliveries PROVE CountOnce(x)'
    BY <2>5, <2>9, <1>o DEF CountOnce
  <2>12. ASSUME NEW x \in Deliveries PROVE FirstOnce(x)'
    <3>1. UNCHANGED <<first, task, row>>
      BY <1>12 DEF CronPost
    <3>2. CASE x = d
      BY <2>8, <3>1, <3>2 DEF FirstOnce, Unsent
    <3>3. CASE x # d
      BY <2>5, <2>8, <3>1, <3>3, <1>o DEF FirstOnce, Unsent
    <3> QED
      BY <3>2, <3>3
  <2>13. ASSUME NEW x \in Deliveries PROVE RowOnce(x)'
    <3>1. CASE x = d
      BY <2>6, <3>1 DEF RowOnce
    <3>2. CASE x # d
      <4>1. \A o \in Crons : pc[o] = "update" => pc'[o] = "update"
        BY <2>6
      <4> QED
        BY <1>12, <2>5, <2>6, <3>2, <4>1, <1>o DEF CronPost, RowOnce
    <3> QED
      BY <3>1, <3>2
  <2>14. ASSUME NEW o \in Crons \ {c} PROVE ~Busy(o)
    BY <1>12, <1>o, OthersIdle DEF CronPost
  <2>15. Alone'
    BY <1>12, <2>6, <1>o DEF CronPost, Alone
  <2> QED
    BY <2>7, <2>10, <2>11, <2>12, <2>13, <2>14, <2>15 DEF Once, RetryOnce, Busy
<1>13. ASSUME NEW c \in Crons, CronUpdate(c) PROVE Once'
  <2>1. PICK left : Rest(c, left)
    BY <1>13 DEF CronUpdate
  <2>2. \A o \in Crons : (Busy(o) => o = c) /\ ~Busy(o)'
    BY <1>13, <2>1, <1>o, OthersIdle, RestRetrying DEF CronUpdate, Busy
  <2>3. Alone'
    BY <1>0, <1>13, <2>1, <1>o DEF CronUpdate, Rest, Alone, TypeOK
  <2>4. DOMAIN row' = DOMAIN row
    BY <1>13 DEF CronUpdate
  <2>5. ASSUME NEW x \in Deliveries PROVE FirstOnce(x)'
    BY <1>13, <2>2, <2>4, <1>o DEF CronUpdate, FirstOnce, Unsent, Untouched, history
  <2>6. ASSUME NEW x \in Deliveries, x # cur[c] PROVE RowOnce(x)'
    <3>1. x \in DOMAIN row => row'[x] = row[x]
      BY <1>13, <2>6 DEF CronUpdate
    <3>2. ~\E o \in Crons : pc[o] = "update" /\ cur[o] = x
      BY <2>2, <2>6 DEF Busy
    <3> QED
      BY <1>13, <2>4, <3>1, <3>2, <1>o DEF CronUpdate, RowOnce, history
  <2>7. ASSUME NEW x \in Deliveries, x = cur[c] PROVE RowOnce(x)'
    <3>1. x \in DOMAIN row =>
            /\ row'[x].attempts = attempt[c]
            /\ row'[x].delivered = answer[c]
      BY <1>13, <2>7 DEF CronUpdate, NewRow
    <3>2. tries[x] <= attempt[c] /\ (acks[x] > 0 => answer[c])
      BY <1>13, <2>7, <1>o DEF CronUpdate, RetryOnce
    <3> QED
      BY <1>13, <2>4, <3>1, <3>2 DEF CronUpdate, RowOnce, history
  <2> QED
    BY <1>13, <2>2, <2>3, <2>5, <2>6, <2>7
    DEF CronUpdate, Once, CountOnce, RetryOnce, Busy, history
<1>15. ASSUME NEW d \in Deliveries, Elapse(d) PROVE Once'
  <2>1. /\ DOMAIN row' = DOMAIN row
        /\ \A x \in DOMAIN row : row'[x].attempts = row[x].attempts
                                 /\ row'[x].delivered = row[x].delivered
    BY <1>0, <1>15 DEF Elapse, TypeOK, Row
  <2>2. ASSUME NEW x \in Deliveries PROVE RowOnce(x)'
    BY <1>15, <2>1, <1>o DEF Elapse, RowOnce, cronVars, history
  <2> QED
    BY <1>15, <2>1, <2>2
    DEF Elapse, Once, Alone, CountOnce, FirstOnce, RetryOnce, Unsent, Untouched,
        Busy, cronVars, history
<1>16. CASE UNCHANGED vars
  BY <1>16
  DEF vars, Once, Alone, CountOnce, FirstOnce, RowOnce, RetryOnce, Unsent,
      Untouched, Busy
<1>17. ~(\E e \in Events : TaskDies(e)) /\ ~(\E c \in Crons : CronDies(c))
  BY DEF TaskDies, CronDies
<1>18. \A e \in Events, p \in Endpoints : <<e, p>> \in Deliveries
  BY DEF Deliveries
<1> QED
  BY <1>1, <1>2, <1>3, <1>4, <1>5, <1>6, <1>7, <1>9, <1>10, <1>11, <1>12, <1>13,
     <1>15, <1>16, <1>17, <1>18 DEF Next, TaskStep, CronStep

OnceInv == ~overlap => Once

\* As long as no two runs of the cron overlap and no process dies, an answered
\* event is not sent again and none is tried more than MaxAttempts times, whatever
\* owners do to the endpoints meanwhile.
THEOREM AnsweredOnce == Spec => []NotSentAgain
<1>1. Init => OnceInv
  BY InitOnce DEF OnceInv
<1>2. Typed /\ Typed' /\ OnceInv /\ [Next]_vars => OnceInv'
  BY OverlapStays, NextOnce DEF OnceInv
<1>3. OnceInv => NotSentAgain
  BY DEF OnceInv, Once, CountOnce, NotSentAgain
<1> QED
  BY <1>1, <1>2, <1>3, InitTyped, NextTyped, PTL DEF Spec
=================================================================================
