------------------------------- MODULE Webhooks -------------------------------
(***************************************************************************)
(* Outbound webhooks: emit() hands an event to after(), which posts it to  *)
(* every matching endpoint and only then writes a WebhookDelivery row; a   *)
(* cron retries the rows that failed.  Runs of the cron may overlap, a     *)
(* process may die between any two steps, an answer may be lost, and the   *)
(* owner may switch off or delete an endpoint at any time.                 *)
(***************************************************************************)
EXTENDS Naturals, FiniteSets

CONSTANTS
  Events,       \* calls of emit()
  Endpoints,
  Crons,        \* runs of the retry cron that may overlap
  MaxAttempts,  \* MAX_ATTEMPTS, 6 in the code
  BatchSize,    \* rows one run of the cron takes, 100 in the code
  NoDelivery,   \* the value of cur between deliveries
  MayDie        \* whether processes die

ASSUME WebhookAssumption ==
  /\ MaxAttempts \in Nat /\ MaxAttempts > 1
  /\ BatchSize \in Nat \ {0}
  /\ NoDelivery \notin Events \X Endpoints

VARIABLES
  endpoint,  \* WebhookEndpoint: "on" is active and subscribed, "off" also not
             \* created yet
  task,      \* the after() task of an event
  first,     \* the first attempt of a delivery, inside that task
  row,       \* WebhookDelivery rows, by event and endpoint
  pc,        \* the next step of a cron run
  work,      \* the rows it has read and not yet visited
  cur,       \* the row it is retrying
  attempt,   \* the number it gives to this attempt
  answer,    \* whether this attempt was answered 2xx
  tries,     \* history: attempts made, those the guard refused to send
             \* included, counted up to MaxAttempts + 1
  acks,      \* history: attempts answered 2xx, counted up to 2
  overlap    \* history: two runs overlapped, or something died

cronVars == <<pc, work, cur, attempt, answer>>
history  == <<tries, acks>>
vars == <<endpoint, task, first, row, pc, work, cur, attempt, answer,
          tries, acks, overlap>>

Deliveries == Events \X Endpoints

\* nextAttemptAt is null, still ahead, or past.
Row == [attempts : 1..MaxAttempts, delivered : BOOLEAN,
        next : {"null", "later", "due"}]

\* Mutation: only 200, and no other 2xx, counts as delivered.
NewRowOnly200(n, ok) ==
  [attempts  |-> n,
   delivered |-> FALSE,
   next      |-> IF n >= MaxAttempts THEN "null" ELSE "later"]

\* Mutation: the last attempt is dated like the others.
NewRowDated(n, ok) ==
  [attempts |-> n, delivered |-> ok, next |-> IF ok THEN "null" ELSE "later"]

\* persistDelivery and the update of retryDelivery write the same columns.
NewRow(n, ok) ==
  [attempts  |-> n,
   delivered |-> ok,
   next      |-> IF ok \/ n >= MaxAttempts THEN "null" ELSE "later"]

\* Neither delivered nor given up.
Open(d) ==
  d \in DOMAIN row /\ ~row[d].delivered /\ row[d].attempts < MaxAttempts

Due == {d \in DOMAIN row : Open(d) /\ row[d].next = "due"}

TypeOK ==
  /\ endpoint \in [Endpoints -> {"off", "on", "deleted"}]
  /\ task \in [Events -> {"none", "queued", "running", "ended"}]
  /\ first \in [Deliveries -> {"none", "post", "ok", "failed"}]
  /\ DOMAIN row \subseteq Deliveries
  /\ row \in [DOMAIN row -> Row]
  /\ pc \in [Crons -> {"idle", "loop", "post", "update"}]
  /\ work \in [Crons -> SUBSET Deliveries]
  /\ cur \in [Crons -> Deliveries \cup {NoDelivery}]
  /\ attempt \in [Crons -> 0..MaxAttempts]
  /\ answer \in [Crons -> BOOLEAN]
  /\ tries \in [Deliveries -> 0..(MaxAttempts + 1)]
  /\ acks \in [Deliveries -> 0..2]
  /\ overlap \in BOOLEAN

Init ==
  /\ endpoint = [p \in Endpoints |-> "off"]
  /\ task = [e \in Events |-> "none"]
  /\ first = [d \in Deliveries |-> "none"]
  /\ row = [d \in {} |-> NoDelivery]
  /\ pc = [c \in Crons |-> "idle"]
  /\ work = [c \in Crons |-> {}]
  /\ cur = [c \in Crons |-> NoDelivery]
  /\ attempt = [c \in Crons |-> 0]
  /\ answer = [c \in Crons |-> FALSE]
  /\ tries = [d \in Deliveries |-> 0]
  /\ acks = [d \in Deliveries |-> 0]
  /\ overlap = FALSE

-----------------------------------------------------------------------------
\* The owner's routes.
\* POST creates an endpoint, PATCH sets isActive or events.  Bound: only as long
\* as a task is still to read it; nothing else does.
PatchEndpoint(p) ==
  /\ endpoint[p] # "deleted"
  /\ \E e \in Events : task[e] \in {"none", "queued"}
  /\ endpoint' = [endpoint EXCEPT ![p] = IF @ = "on" THEN "off" ELSE "on"]
  /\ UNCHANGED <<task, first, row, cronVars, history, overlap>>

\* The rows go with their endpoint.
DeleteEndpoint(p) ==
  /\ endpoint[p] # "deleted"
  /\ endpoint' = [endpoint EXCEPT ![p] = "deleted"]
  /\ row' = [d \in {x \in DOMAIN row : x[2] # p} |-> row[d]]
  /\ UNCHANGED <<task, first, cronVars, history, overlap>>

-----------------------------------------------------------------------------
\* One attempt, which counts in either case.  The SSRF guard may refuse the
\* address, and then nothing is sent; or it is posted, and answered 2xx or not,
\* and if not it may have arrived all the same.
Refused(ok) == ~ok /\ UNCHANGED acks

Posted(d, ok) == acks' = [acks EXCEPT ![d] = IF ok /\ @ < 2 THEN @ + 1 ELSE @]

DeliverOnce(d, ok) ==
  /\ tries' = [tries EXCEPT ![d] = IF @ > MaxAttempts THEN @ ELSE @ + 1]
  /\ Refused(ok) \/ Posted(d, ok)

Emit(e) ==
  /\ task[e] = "none"
  /\ task' = [task EXCEPT ![e] = "queued"]
  /\ UNCHANGED <<endpoint, first, row, cronVars, history, overlap>>

\* The task reads the endpoints.
Match(e) ==
  /\ task[e] = "queued"
  /\ task' = [task EXCEPT ![e] = "running"]
  /\ first' = [d \in Deliveries |->
                 IF d[1] = e /\ endpoint[d[2]] = "on" THEN "post" ELSE first[d]]
  /\ UNCHANGED <<endpoint, row, cronVars, history, overlap>>

FirstPost(d) ==
  /\ first[d] = "post"
  /\ \E ok \in BOOLEAN :
       /\ DeliverOnce(d, ok)
       /\ first' = [first EXCEPT ![d] = IF ok THEN "ok" ELSE "failed"]
  /\ UNCHANGED <<endpoint, task, row, cronVars, overlap>>

\* The row is refused, and the refusal swallowed, if the endpoint is gone.
PersistDelivery(d) ==
  /\ first[d] \in {"ok", "failed"}
  /\ row' = IF endpoint[d[2]] = "deleted" THEN row
            ELSE [x \in DOMAIN row \cup {d} |->
                    IF x = d THEN NewRow(1, first[d] = "ok") ELSE row[x]]
  /\ first' = [first EXCEPT ![d] = "none"]
  /\ UNCHANGED <<endpoint, task, cronVars, history, overlap>>

EndTask(e) ==
  /\ task[e] = "running"
  /\ \A p \in Endpoints : first[<<e, p>>] = "none"
  /\ task' = [task EXCEPT ![e] = "ended"]
  /\ UNCHANGED <<endpoint, first, row, cronVars, history, overlap>>

\* The process dies in after(): whatever has no row yet is gone.
TaskDies(e) ==
  /\ MayDie
  /\ task[e] \in {"queued", "running"}
  /\ task' = [task EXCEPT ![e] = "ended"]
  /\ first' = [d \in Deliveries |-> IF d[1] = e THEN "none" ELSE first[d]]
  /\ overlap' = TRUE
  /\ UNCHANGED <<endpoint, row, cronVars, history>>

-----------------------------------------------------------------------------
\* Between the retries of a run there is nothing to remember but its list.
Rest(c, left) ==
  /\ pc' = [pc EXCEPT ![c] = IF left = {} THEN "idle" ELSE "loop"]
  /\ work' = [work EXCEPT ![c] = left]
  /\ cur' = [cur EXCEPT ![c] = NoDelivery]
  /\ attempt' = [attempt EXCEPT ![c] = 0]
  /\ answer' = [answer EXCEPT ![c] = FALSE]

\* The cron's findMany.
CronStart(c) ==
  /\ pc[c] = "idle"
  /\ \E batch \in SUBSET Due :
       /\ batch # {}
       /\ Cardinality(batch) <= BatchSize
       /\ batch = Due \/ Cardinality(batch) = BatchSize
       /\ Rest(c, batch)
  /\ overlap' = (overlap \/ \E o \in Crons : pc[o] # "idle")
  /\ UNCHANGED <<endpoint, task, first, row, history>>

\* retryDelivery reads the row again.
CronSkip(c, d) ==
  /\ pc[c] = "loop"
  /\ d \in work[c]
  /\ ~Open(d)
  /\ Rest(c, work[c] \ {d})
  /\ UNCHANGED <<endpoint, task, first, row, history, overlap>>

CronTake(c, d) ==
  /\ pc[c] = "loop"
  /\ d \in work[c]
  /\ Open(d)
  /\ pc' = [pc EXCEPT ![c] = "post"]
  /\ work' = [work EXCEPT ![c] = @ \ {d}]
  /\ cur' = [cur EXCEPT ![c] = d]
  /\ attempt' = [attempt EXCEPT ![c] = row[d].attempts + 1]
  /\ UNCHANGED <<answer, endpoint, task, first, row, history, overlap>>

\* Sent to the url it has read, whether or not the endpoint is still active.
CronPost(c) ==
  /\ pc[c] = "post"
  /\ \E ok \in BOOLEAN :
       /\ DeliverOnce(cur[c], ok)
       /\ answer' = [answer EXCEPT ![c] = ok]
  /\ pc' = [pc EXCEPT ![c] = "update"]
  /\ UNCHANGED <<work, cur, attempt, endpoint, task, first, row, overlap>>

\* The update throws, and ends the whole run, if the row is gone.
CronUpdate(c) ==
  /\ pc[c] = "update"
  /\ IF cur[c] \in DOMAIN row
     THEN /\ row' = [row EXCEPT ![cur[c]] = NewRow(attempt[c], answer[c])]
          /\ Rest(c, work[c])
     ELSE /\ UNCHANGED row
          /\ Rest(c, {})
  /\ UNCHANGED <<endpoint, task, first, history, overlap>>

CronDies(c) ==
  /\ MayDie
  /\ pc[c] # "idle"
  /\ Rest(c, {})
  /\ overlap' = TRUE
  /\ UNCHANGED <<endpoint, task, first, row, history>>

\* nextAttemptAt passes.
Elapse(d) ==
  /\ d \in DOMAIN row
  /\ row[d].next = "later"
  /\ row' = [row EXCEPT ![d].next = "due"]
  /\ UNCHANGED <<endpoint, task, first, cronVars, history, overlap>>

-----------------------------------------------------------------------------
TaskStep(e) ==
  \/ Match(e)
  \/ EndTask(e)
  \/ \E p \in Endpoints : FirstPost(<<e, p>>) \/ PersistDelivery(<<e, p>>)

CronStep(c) ==
  \/ CronStart(c)
  \/ \E d \in Deliveries : CronSkip(c, d) \/ CronTake(c, d)
  \/ CronPost(c)
  \/ CronUpdate(c)

Next ==
  \/ \E p \in Endpoints : PatchEndpoint(p) \/ DeleteEndpoint(p)
  \/ \E e \in Events : Emit(e) \/ TaskStep(e) \/ TaskDies(e)
  \/ \E c \in Crons : CronStep(c) \/ CronDies(c)
  \/ \E d \in Deliveries : Elapse(d)

Spec == Init /\ [][Next]_vars

\* Tasks and runs go on, time passes, and the scheduler starts the cron again
\* and again.
FairSpec ==
  /\ Spec
  /\ \A e \in Events : WF_vars(TaskStep(e))
  /\ \A c \in Crons : WF_vars(CronStep(c))
  /\ \A d \in Deliveries : WF_vars(Elapse(d))

-----------------------------------------------------------------------------
\* A delivery is shown as delivered only if its receiver got the event, even
\* when a run overwrites what another one has just written.
DeliveredIsReceived ==
  \A d \in DOMAIN row : row[d].delivered => acks[d] > 0

\* No delivery is given up before MaxAttempts attempts, each of them a POST or a
\* refusal of its address by the SSRF guard: the counter never runs ahead of the
\* attempts, although overlapping runs set it back.
NoAttemptInvented == \A d \in DOMAIN row : row[d].attempts <= tries[d]

\* As long as runs neither overlap nor die, an answered event is never sent
\* again, and no more than MaxAttempts attempts are made to send one.
NotSentAgain ==
  ~overlap => \A d \in Deliveries : acks[d] <= 1 /\ tries[d] <= MaxAttempts

\* Every failed delivery is settled in the end: answered, given up, or deleted
\* with its endpoint; overlapping runs cannot set it back for ever.
Settled(d) == d \in DOMAIN row => row[d].next = "null"

KeepDying == []<><<\E c \in Crons : CronDies(c)>>_vars

EveryDeliverySettles ==
  \A d \in Deliveries : KeepDying \/ (d \in DOMAIN row ~> Settled(d))
===============================================================================
