------------------------------- MODULE RateLimit -------------------------------
(***************************************************************************)
(* The fallback of the rate limiters: while Upstash does not answer, one   *)
(* process keeps a bucket of tokens in memory for each limiter and key.  A *)
(* bucket counts parts of a token, so that a tick adds a whole number.     *)
(***************************************************************************)
EXTENDS Integers, FiniteSets, Sequences

CONSTANTS
  BucketKeys,  \* name of a limiter, with an address, a token or a user
  Capacity,    \* tokens of a full bucket, for each key
  Refill,      \* parts of a token that a tick adds, for each key
  Part,        \* parts of a token
  PruneAbove,  \* 10000 in the code
  MaxAge,      \* ticks, 10 minutes in the code
  MaxTime,     \* bound on the clock
  MaxRestarts  \* bound on restarts

ASSUME LimitAssumption ==
  /\ Capacity \in [BucketKeys -> Nat \ {0}] /\ Refill \in [BucketKeys -> Nat]
  /\ Part \in Nat \ {0} /\ MaxAge \in Nat

VARIABLES
  now,        \* Date.now()
  buckets,    \* the map
  passed,     \* history: when requests of a key were let through
  forgotten,  \* history: when a bucket that was not full was last pruned
  restarted,  \* history: when the process began
  restarts

limitVars == <<now, buckets, passed, forgotten, restarted, restarts>>

Full(k) == Capacity[k] * Part

LimitInit ==
  /\ now = 0
  /\ buckets = [k \in {} |-> 0]
  /\ passed = [k \in BucketKeys |-> <<>>]
  /\ forgotten = [k \in BucketKeys |-> -1]
  /\ restarted = -1 /\ restarts = 0

-----------------------------------------------------------------------------
\* Mutation: a bucket that is filled up may overflow.
Overflows(k, bucket) == bucket.tokens + (now - bucket.at) * Refill[k]

\* Mutation: whole tokens only, and the rest of the time is lost.
WholeTokens(k, bucket) ==
  LET level == bucket.tokens + (((now - bucket.at) * Refill[k]) \div Part) * Part
  IN  IF level > Full(k) THEN Full(k) ELSE level

\* What is in a bucket by now.
Refilled(k, bucket) ==
  LET level == bucket.tokens + (now - bucket.at) * Refill[k]
  IN  IF level > Full(k) THEN Full(k) ELSE level

\* The level of the bucket that a request of k finds or makes.
Level(k) == IF k \in DOMAIN buckets THEN Refilled(k, buckets[k]) ELSE Full(k)

\* The map with the bucket of k at a level.
Put(k, level) ==
  [x \in DOMAIN buckets \cup {k} |->
     IF x = k THEN [tokens |-> level, at |-> now] ELSE buckets[x]]

\* takeToken, if there is a token.
Allow(k) ==
  /\ Level(k) >= Part
  /\ buckets' = Put(k, Level(k) - Part)
  /\ passed' = [passed EXCEPT ![k] = Append(@, now)]
  /\ UNCHANGED <<now, forgotten, restarted, restarts>>

\* pruneBuckets.
Old(map) == {x \in DOMAIN map : map[x].at < now - MaxAge}

\* takeToken, if there is none: the only occasion to prune.
Throttle(k) ==
  LET map == Put(k, Level(k))
      old == IF Cardinality(DOMAIN map) > PruneAbove THEN Old(map) ELSE {}
  IN  /\ Level(k) < Part
      /\ buckets' = [x \in DOMAIN map \ old |-> map[x]]
      /\ forgotten' = [x \in BucketKeys |->
                         IF x \in old /\ Level(x) < Full(x) THEN now ELSE forgotten[x]]
      /\ UNCHANGED <<now, passed, restarted, restarts>>

\* Time passes.
Tick ==
  /\ now < MaxTime
  /\ now' = now + 1
  /\ UNCHANGED <<buckets, passed, forgotten, restarted, restarts>>

\* Another process, with an empty map.
Restart ==
  /\ restarts < MaxRestarts
  /\ restarts' = restarts + 1
  /\ restarted' = now
  /\ buckets' = [k \in {} |-> 0]
  /\ UNCHANGED <<now, passed, forgotten>>

LimitNext == (\E k \in BucketKeys : Allow(k) \/ Throttle(k)) \/ Tick \/ Restart

LimitSpec == LimitInit /\ [][LimitNext]_limitVars

-----------------------------------------------------------------------------
\* The requests of a key that were let through at a time or later.
Since(k, time) == {i \in DOMAIN passed[k] : passed[k][i] >= time}

\* A bucket that is as old as those that are pruned may still not be full.
Slow(k) == Full(k) > MaxAge * Refill[k]

\* However its requests are spread, a key is let through no more often than a full
\* bucket and the refill since then allow, in every span of time: unless the process
\* was restarted in it, or the bucket of a slow limiter was pruned.
WithinBudget ==
  \A k \in BucketKeys : \A time \in 0..now :
    time > restarted /\ (Slow(k) => time > forgotten[k]) =>
      Cardinality(Since(k, time)) * Part <= Full(k) + (now - time) * Refill[k]

\* Nor is a key shut out: if none of its requests was let through for as long as a
\* token takes, the next one is, however often it asked meanwhile.
NotShutOut ==
  \A k \in BucketKeys : \A time \in 0..now :
    (now - time) * Refill[k] >= Part /\ Since(k, time) = {} => Level(k) >= Part

\* A limiter that counts in memory keeps its rate: it lets through no more than is
\* due (WithinBudget), and no less (NotShutOut).
RateIsKept == WithinBudget /\ NotShutOut
=================================================================================
