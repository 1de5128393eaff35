----------------------------- MODULE PlanProofs -----------------------------
(***************************************************************************)
(* What a user's plan lets through and what it is.  Idempotent creation,   *)
(* for any number of requests, keys and envelopes: a key creates one       *)
(* envelope while its row lives, nobody is answered with the envelope of   *)
(* another key or body, and no more get past the quota than were on their  *)
(* way together.  Billing, for any number of subscriptions and events:     *)
(* handled in order, they leave the user with what Stripe is paid for.     *)
(* What the rate limiters let through from memory stays within their rates.*)
(***************************************************************************)
EXTENDS Creation, Billing, RateLimit, FiniteSetTheorems, TLAPS

-----------------------------------------------------------------------------
\* Types.

LEMMA ReplyType ==
  ASSUME TypeOK, NEW r \in Requests,
         NEW a \in Responses \cup {"none", "error", "conflict", "reused",
                                   "quota", "limited"},
         Reply(r, a)
  PROVE  /\ pc' = [pc EXCEPT ![r] = "done"]
         /\ answer' = [answer EXCEPT ![r] = a]
         /\ pc' \in [Requests -> {"new", "quota", "look", "claim", "run",
                                  "audit", "store", "done"}]
         /\ answer' \in [Requests -> Responses \cup
              {"none", "error", "conflict", "reused", "quota", "limited"}]
  BY DEF TypeOK, Reply

LEMMA RespondType ==
  ASSUME TypeOK, NEW r \in Requests, NEW a \in Responses, Respond(r, a)
  PROVE  /\ pc' \in [Requests -> {"new", "quota", "look", "claim", "run",
                                  "audit", "store", "done"}]
         /\ answer' \in [Requests -> Responses \cup
              {"none", "error", "conflict", "reused", "quota", "limited"}]
         /\ result' \in [Requests -> Responses \cup {"none"}]
  BY DEF TypeOK, Respond, Reply, Goto

\* The requests past the check are finitely many.
LEMMA BusyCount == Cardinality(Busy') \in Nat
<1>1. Busy' \subseteq Requests
  BY DEF Busy
<1> QED
  BY <1>1, CreationAssumption, FS_Subset, FS_CardinalityType

\* A request that has come far has a key, an envelope, a result to store; nothing
\* is known of one that has not arrived.
Answers == Responses \cup {"none", "error", "conflict", "reused", "quota",
                           "limited"}

Arrived(r) ==
  /\ pc[r] \in {"look", "claim", "store"} => key[r] \in Keys
  /\ pc[r] = "store" => result[r] \in {r, "refused"}
  /\ pc[r] = "audit" => r \in env
  /\ pc[r] = "new" => r \notin env

Typed == TypeOK /\ \A r \in Requests : Arrived(r)

LEMMA InitTyped == Init => Typed
  BY DEF Init, Typed, TypeOK, Bodies, Responses, Arrived

LEMMA NextTyped == Typed /\ [Next]_vars => Typed'
<1> SUFFICES ASSUME Typed, [Next]_vars PROVE Typed'
  OBVIOUS
<1>0. TypeOK /\ \A r \in Requests : Arrived(r)
  BY DEF Typed
<1>r. "refused" \in Responses /\ \A r \in Requests : r \in Responses
  BY DEF Responses
<1>1. ASSUME NEW r \in Requests, NEW k \in Keys \cup {NoKey}, NEW b \in Bodies,
             Arrive(r, k, b)
      PROVE  Typed'
  BY <1>0, <1>1 DEF Arrive, Reply, Goto, Typed, TypeOK, Arrived, rows, request
<1>2. ASSUME NEW r \in Requests, CheckQuota(r) PROVE Typed'
  <2>1. peak' \in Nat
    BY <1>0, <1>2, BusyCount DEF CheckQuota, TypeOK
  <2>2. key[r] # NoKey => key[r] \in Keys
    BY <1>0 DEF TypeOK
  <2> QED
    BY <1>0, <1>2, <1>r, <2>1, <2>2
    DEF CheckQuota, Reply, Goto, Typed, TypeOK, Arrived, rows, request
<1>3. ASSUME NEW r \in Requests, LookUp(r) PROVE Typed'
  <2>1. key[r] \in Keys
    BY <1>0, <1>3 DEF LookUp, Arrived
  <2>2. Replay(key[r], body[r]) \in Answers
    BY <1>0, <2>1 DEF Replay, TypeOK, Answers
  <2> QED
    BY <1>0, <1>3, <2>1, <2>2
    DEF LookUp, Reply, Goto, Typed, TypeOK, Arrived, Answers, rows, request
<1>4. ASSUME NEW r \in Requests, Claim(r) PROVE Typed'
  BY <1>0, <1>4 DEF Claim, Reply, Goto, Typed, TypeOK, Arrived, rows, request
<1>5. ASSUME NEW r \in Requests, Refuse(r) \/ RefuseTemplate(r) PROVE Typed'
  BY <1>0, <1>5, <1>r
  DEF Refuse, RefuseTemplate, Respond, Reply, Goto, Typed, TypeOK, Arrived, rows,
      request
<1>6. ASSUME NEW r \in Requests, Create(r) \/ CreateFromTemplate(r) PROVE Typed'
  BY <1>0, <1>6
  DEF Create, CreateFromTemplate, CommitEnvelope, Goto, Typed, TypeOK, Arrived,
      rows, request
<1>7. ASSUME NEW r \in Requests, Audit(r) PROVE Typed'
  BY <1>0, <1>7, <1>r
  DEF Audit, Respond, Reply, Goto, Typed, TypeOK, Arrived, rows, request
<1>8. ASSUME NEW r \in Requests, Throw(r) \/ Die(r) PROVE Typed'
  BY <1>0, <1>8 DEF Throw, Die, Reply, Typed, TypeOK, Arrived, rows, request
<1>9. ASSUME NEW r \in Requests, Store(r) PROVE Typed'
  <2>1. result[r] \in Answers
    BY <1>0 DEF TypeOK, Answers
  <2>2. result[r] \in Responses
    BY <1>0, <1>9, <1>r DEF Store, Arrived
  <2> QED
    BY <1>0, <1>9, <2>1, <2>2
    DEF Store, Reply, Typed, TypeOK, Arrived, Answers, request
<1>10. ASSUME NEW k \in Keys, Prune(k) PROVE Typed'
  BY <1>0, <1>10 DEF Prune, Typed, TypeOK, Arrived, request
<1>11. ASSUME NewMonth PROVE Typed'
  BY <1>0, <1>11 DEF NewMonth, Typed, TypeOK, Arrived, request, rows
<1>12. CASE UNCHANGED vars
  BY <1>0, <1>12 DEF vars, Typed, TypeOK, Arrived
<1> QED
  BY <1>1, <1>2, <1>3, <1>4, <1>5, <1>6, <1>7, <1>8, <1>9, <1>10, <1>11, <1>12
  DEF Next, Step

\* Requests, keys and envelopes have their types.
THEOREM TypeCorrect == Spec => []TypeOK
<1>1. Typed => TypeOK
  BY DEF Typed
<1> QED
  BY <1>1, InitTyped, NextTyped, PTL DEF Spec

-----------------------------------------------------------------------------
\* One key, one envelope.

\* A request between its claim and its answer holds the key.
Holds(r) == key[r] \in Keys /\ pc[r] \in {"run", "audit", "store"}

OneHolder ==
  \A r \in Requests : Holds(r) =>
    /\ held[key[r]] = body[r]
    /\ pc[r] = "run" => under[key[r]] = {}
    /\ \A q \in Requests : Holds(q) /\ key[q] = key[r] => q = r

\* A key without a row has no envelope, one with a row at most one.
AtMostOne ==
  \A k \in Keys :
    under[k] # {} => held[k] # "none" /\ \E e \in Requests : under[k] = {e}

KeyHeld == OneHolder /\ AtMostOne

\* Steps of one request that neither claims nor creates.
LEMMA PlainKeyHeld ==
  ASSUME Typed, KeyHeld, NEW r \in Requests,
         \/ ~Holds(r)'
         \/ /\ Holds(r)
            /\ pc'[r] = "run" => pc[r] = "run",
         \A q \in Requests \ {r} : pc'[q] = pc[q],
         UNCHANGED <<key, body, held, under>>
  PROVE  KeyHeld'
<1>1. OneHolder'
  BY DEF KeyHeld, OneHolder, Holds
<1>2. AtMostOne'
  BY DEF KeyHeld, AtMostOne
<1> QED
  BY <1>1, <1>2 DEF KeyHeld

LEMMA InitKeyHeld == Init => KeyHeld
<1> SUFFICES ASSUME Init PROVE OneHolder /\ AtMostOne
  BY DEF KeyHeld
<1>1. OneHolder
  BY DEF Init, OneHolder, Holds
<1>2. \A k \in Keys : under[k] = {}
  BY DEF Init
<1>3. AtMostOne
  BY <1>2, Zenon DEF AtMostOne
<1> QED
  BY <1>1, <1>3

LEMMA NextKeyHeld == Typed /\ KeyHeld /\ [Next]_vars => KeyHeld'
<1> SUFFICES ASSUME Typed, KeyHeld, [Next]_vars PROVE KeyHeld'
  OBVIOUS
<1>0. TypeOK /\ \A r \in Requests : Arrived(r)
  BY DEF Typed
<1>h. OneHolder /\ AtMostOne
  BY DEF KeyHeld
<1>1. ASSUME NEW r \in Requests, NEW k \in Keys \cup {NoKey}, NEW b \in Bodies,
             Arrive(r, k, b)
      PROVE  KeyHeld'
  <2>1. pc'[r] \notin {"run", "audit", "store"}
    BY <1>0, <1>1 DEF Arrive, Reply, Goto, TypeOK
  <2>2. \A q \in Requests \ {r} :
          pc'[q] = pc[q] /\ key'[q] = key[q] /\ body'[q] = body[q]
    BY <1>0, <1>1 DEF Arrive, Reply, Goto, TypeOK, request
  <2>3. OneHolder'
    BY <1>1, <1>h, <2>1, <2>2 DEF Arrive, rows, OneHolder, Holds
  <2> QED
    BY <1>1, <1>h, <2>3 DEF Arrive, rows, KeyHeld, AtMostOne
<1>2. ASSUME NEW r \in Requests, CheckQuota(r) PROVE KeyHeld'
  <2>1. pc'[r] \in {"done", "look"} \/ key[r] \notin Keys
    BY <1>0, <1>2, CreationAssumption DEF CheckQuota, Reply, Goto, TypeOK
  <2>2. \A q \in Requests \ {r} : pc'[q] = pc[q]
    BY <1>0, <1>2 DEF CheckQuota, Reply, Goto, TypeOK
  <2> QED
    BY <1>2, <2>1, <2>2, PlainKeyHeld DEF CheckQuota, Holds, rows, request
<1>3. ASSUME NEW r \in Requests, LookUp(r) PROVE KeyHeld'
  <2>1. pc'[r] \in {"done", "claim"} /\ \A q \in Requests \ {r} : pc'[q] = pc[q]
    BY <1>0, <1>3 DEF LookUp, Reply, Goto, TypeOK
  <2> QED
    BY <1>3, <2>1, PlainKeyHeld DEF LookUp, Holds, rows, request
<1>4. ASSUME NEW r \in Requests, Claim(r) PROVE KeyHeld'
  <2>1. \A q \in Requests \ {r} : pc'[q] = pc[q]
    BY <1>0, <1>4 DEF Claim, Reply, Goto, TypeOK
  <2>2. CASE held[key[r]] # "none"
    <3>1. pc'[r] = "done"
      BY <1>0, <1>4, <2>2 DEF Claim, Reply, TypeOK
    <3> QED
      BY <1>4, <2>1, <2>2, <3>1, PlainKeyHeld DEF Claim, Holds, rows, request
  <2>3. CASE held[key[r]] = "none"
    <3>1. key[r] \in Keys /\ pc'[r] = "run" /\ ~Holds(r)
      BY <1>0, <1>4, <2>3 DEF Claim, Goto, TypeOK, Arrived, Holds
    <3>2. /\ held' = [held EXCEPT ![key[r]] = body[r]]
          /\ UNCHANGED <<key, body, under>>
      BY <1>4, <2>3 DEF Claim, request
    <3>3. under[key[r]] = {}
      BY <1>h, <2>3, <3>1 DEF AtMostOne
    <3>4. body[r] # "none"
      BY <1>0 DEF TypeOK, Bodies
    <3>5. \A q \in Requests : Holds(q) => key[q] # key[r]
      BY <1>0, <1>h, <2>3, <3>1 DEF OneHolder, TypeOK, Bodies
    <3>6. held'[key[r]] = body[r] /\ \A k \in Keys \ {key[r]} : held'[k] = held[k]
      BY <1>0, <3>1, <3>2 DEF TypeOK
    <3>7. OneHolder'
      <4> SUFFICES ASSUME NEW q \in Requests, Holds(q)'
                   PROVE  /\ held'[key[q]] = body[q]
                          /\ pc'[q] = "run" => under[key[q]] = {}
                          /\ \A p \in Requests : Holds(p)' /\ key[p] = key[q] => p = q
        BY <3>2 DEF OneHolder
      <4>1. CASE q = r
        BY <2>1, <3>2, <3>3, <3>5, <3>6, <4>1 DEF Holds
      <4>2. CASE q # r
        BY <1>h, <2>1, <3>2, <3>5, <3>6, <4>2 DEF Holds, OneHolder
      <4> QED
        BY <4>1, <4>2
    <3>8. AtMostOne'
      BY <1>h, <3>2, <3>3, <3>6 DEF AtMostOne
    <3> QED
      BY <3>7, <3>8 DEF KeyHeld
  <2> QED
    BY <2>2, <2>3
<1>5. ASSUME NEW r \in Requests, Refuse(r) \/ RefuseTemplate(r) PROVE KeyHeld'
  <2>1. Respond(r, "refused") /\ pc[r] = "run"
    BY <1>5 DEF Refuse, RefuseTemplate
  <2>2. /\ pc'[r] \in {"done", "store"}
        /\ pc'[r] = "store" => key[r] \in Keys
        /\ \A q \in Requests \ {r} : pc'[q] = pc[q]
    BY <1>0, <2>1, CreationAssumption DEF Respond, Reply, Goto, TypeOK
  <2> QED
    BY <1>5, <2>1, <2>2, PlainKeyHeld
    DEF Refuse, RefuseTemplate, Holds, rows, request
<1>6. ASSUME NEW r \in Requests, Create(r) \/ CreateFromTemplate(r) PROVE KeyHeld'
  <2>1. CommitEnvelope(r) /\ pc[r] = "run"
    BY <1>6 DEF Create, CreateFromTemplate
  <2>2. /\ pc'[r] = "audit"
        /\ \A q \in Requests \ {r} : pc'[q] = pc[q]
        /\ UNCHANGED <<key, body, held>>
    BY <1>0, <2>1 DEF CommitEnvelope, Goto, TypeOK, rows, request
  <2>3. \A k \in Keys : under'[k] = IF k = key[r] THEN under[k] \cup {r} ELSE under[k]
    BY <2>1 DEF CommitEnvelope
  <2>4. key[r] \in Keys => under[key[r]] = {} /\ held[key[r]] # "none"
    BY <1>0, <1>h, <2>1 DEF OneHolder, Holds, TypeOK, Bodies
  <2>5. OneHolder'
    BY <1>h, <2>1, <2>2, <2>3, ZenonT(40) DEF OneHolder, Holds
  <2>6. AtMostOne'
    BY <1>h, <2>2, <2>3, <2>4, ZenonT(40) DEF AtMostOne
  <2> QED
    BY <2>5, <2>6 DEF KeyHeld
<1>7. ASSUME NEW r \in Requests, Audit(r) PROVE KeyHeld'
  <2>1. /\ pc'[r] \in {"done", "store"}
        /\ pc'[r] = "store" => key[r] \in Keys
        /\ \A q \in Requests \ {r} : pc'[q] = pc[q]
    BY <1>0, <1>7, CreationAssumption DEF Audit, Respond, Reply, Goto, TypeOK
  <2> QED
    BY <1>7, <2>1, PlainKeyHeld DEF Audit, Holds, rows, request
<1>8. ASSUME NEW r \in Requests, Throw(r) \/ Die(r) PROVE KeyHeld'
  <2>1. pc'[r] = "done" /\ \A q \in Requests \ {r} : pc'[q] = pc[q]
    BY <1>0, <1>8 DEF Throw, Die, Reply, TypeOK
  <2> QED
    BY <1>8, <2>1, PlainKeyHeld DEF Throw, Die, Holds, rows, request
<1>9. ASSUME NEW r \in Requests, Store(r) PROVE KeyHeld'
  <2>1. pc'[r] = "done" /\ \A q \in Requests \ {r} : pc'[q] = pc[q]
    BY <1>0, <1>9 DEF Store, Reply, TypeOK
  <2> QED
    BY <1>9, <2>1, PlainKeyHeld DEF Store, Holds, request
<1>10. ASSUME NEW k \in Keys, Prune(k) PROVE KeyHeld'
  <2>1. \A r \in Requests : Holds(r) => key[r] # k
    BY <1>10 DEF Prune, Held, Holds
  <2>2. /\ under'[k] = {}
        /\ \A x \in Keys \ {k} : under'[x] = under[x] /\ held'[x] = held[x]
        /\ UNCHANGED <<pc, key, body>>
    BY <1>0, <1>10 DEF Prune, TypeOK, request
  <2>3. OneHolder'
    BY <1>h, <2>1, <2>2 DEF OneHolder, Holds
  <2>4. AtMostOne'
    BY <1>h, <2>2, Zenon DEF AtMostOne
  <2> QED
    BY <2>3, <2>4 DEF KeyHeld
<1>11. ASSUME NewMonth PROVE KeyHeld'
  BY <1>h, <1>11 DEF NewMonth, KeyHeld, OneHolder, AtMostOne, Holds, rows, request
<1>12. CASE UNCHANGED vars
  BY <1>h, <1>12 DEF vars, KeyHeld, OneHolder, AtMostOne, Holds
<1> QED
  BY <1>1, <1>2, <1>3, <1>4, <1>5, <1>6, <1>7, <1>8, <1>9, <1>10, <1>11, <1>12
  DEF Next, Step

LEMMA KeysHeld == Spec => [](Typed /\ KeyHeld)
<1>1. Typed /\ KeyHeld /\ [Next]_vars => (Typed /\ KeyHeld)'
  BY NextTyped, NextKeyHeld
<1> QED
  BY <1>1, InitTyped, InitKeyHeld, PTL DEF Spec

\* As long as its row lives a key makes one envelope, whatever number of requests
\* carry it and wherever they throw or die.
THEOREM OneEnvelopePerKey == Spec => []OncePerKey
<1>1. Typed /\ KeyHeld => OncePerKey
  <2> SUFFICES ASSUME KeyHeld, NEW k \in Keys PROVE Cardinality(under[k]) <= 1
    BY DEF OncePerKey
  <2>1. CASE under[k] = {}
    BY <2>1, FS_EmptySet
  <2>2. CASE \E e \in Requests : under[k] = {e}
    BY <2>2, FS_Singleton
  <2> QED
    BY <2>1, <2>2 DEF KeyHeld, AtMostOne
<1> QED
  BY <1>1, KeysHeld, PTL

-----------------------------------------------------------------------------
\* Whose envelope a request is answered with.

ResultHeld ==
  \A r \in Requests :
    /\ result[r] \in {r, "refused", "none"}
    /\ result[r] = r => r \in audited

StoredHeld ==
  \A k \in Keys, e \in Requests :
    stored[k] = e => key[e] = k /\ body[e] = held[k] /\ e \in audited

NewUnanswered == \A r \in Requests : pc[r] = "new" => answer[r] = "none"

OwnHeld == ResultHeld /\ StoredHeld /\ NewUnanswered /\ AnswerIsOwn

\* Words are not envelopes.
LEMMA NotEnvelopes ==
  ASSUME NEW r \in Requests
  PROVE  r \notin {"none", "pending", "refused", "error", "conflict", "reused",
                  "quota", "limited"}
  BY CreationAssumption

\* Steps that change nothing these facts speak of but an answer of a word.
LEMMA WordOwn ==
  ASSUME Typed, OwnHeld, NEW r \in Requests, pc[r] # "new",
         NEW a, a \notin Requests, Reply(r, a),
         UNCHANGED <<key, body, held, stored, audited>>,
         result' \in {result, [result EXCEPT ![r] = "none"]}
  PROVE  OwnHeld'
<1>1. /\ answer'[r] = a /\ pc'[r] = "done"
      /\ \A q \in Requests \ {r} : answer'[q] = answer[q] /\ pc'[q] = pc[q]
  BY DEF Reply, Typed, TypeOK
<1>2. \A q \in Requests : result'[q] \in {result[q], "none"}
  BY DEF Typed, TypeOK
<1>3. ResultHeld'
  BY <1>2, NotEnvelopes DEF OwnHeld, ResultHeld
<1>4. StoredHeld'
  BY DEF OwnHeld, StoredHeld
<1>5. NewUnanswered'
  BY <1>1 DEF OwnHeld, NewUnanswered
<1>6. AnswerIsOwn'
  BY <1>1 DEF OwnHeld, AnswerIsOwn
<1> QED
  BY <1>3, <1>4, <1>5, <1>6 DEF OwnHeld

\* Steps of a request that has arrived and goes on.
LEMMA GotoOwn ==
  ASSUME Typed, OwnHeld, NEW r \in Requests, pc[r] # "new", NEW to,
         to # "new", Goto(r, to),
         UNCHANGED <<key, body, held, stored, audited, result>>
  PROVE  OwnHeld'
<1>1. \A q \in Requests : pc'[q] = "new" => pc[q] = "new"
  BY DEF Goto, Typed, TypeOK
<1> QED
  BY <1>1
  DEF Goto, OwnHeld, ResultHeld, StoredHeld, NewUnanswered, AnswerIsOwn

LEMMA InitOwn == Init => OwnHeld
<1> SUFFICES ASSUME Init PROVE OwnHeld
  OBVIOUS
<1>1. ResultHeld
  BY NotEnvelopes DEF Init, ResultHeld
<1>2. StoredHeld
  BY NotEnvelopes DEF Init, StoredHeld
<1>3. NewUnanswered /\ AnswerIsOwn
  BY NotEnvelopes DEF Init, NewUnanswered, AnswerIsOwn
<1> QED
  BY <1>1, <1>2, <1>3 DEF OwnHeld

LEMMA NextOwn == Typed /\ Typed' /\ KeyHeld /\ OwnHeld /\ [Next]_vars => OwnHeld'
<1> SUFFICES ASSUME Typed, Typed', KeyHeld, OwnHeld, [Next]_vars PROVE OwnHeld'
  OBVIOUS
<1>0. TypeOK /\ \A r \in Requests : Arrived(r)
  BY DEF Typed
<1>h. ResultHeld /\ StoredHeld /\ NewUnanswered /\ AnswerIsOwn
  BY DEF OwnHeld
<1>1. ASSUME NEW r \in Requests, NEW k \in Keys \cup {NoKey}, NEW b \in Bodies,
             Arrive(r, k, b)
      PROVE  OwnHeld'
  <2>1. r \notin audited /\ answer[r] = "none"
    BY <1>0, <1>1, <1>h DEF Arrive, Arrived, TypeOK, NewUnanswered
  <2>2. /\ \A q \in Requests \ {r} : /\ key'[q] = key[q] /\ body'[q] = body[q]
                                    /\ answer'[q] = answer[q] /\ pc'[q] = pc[q]
        /\ answer'[r] \in {"none", "limited"} /\ pc'[r] # "new"
        /\ UNCHANGED <<held, stored, audited, result>>
    BY <1>0, <1>1, <2>1 DEF Arrive, Reply, Goto, TypeOK, rows, request
  <2>3. ResultHeld' /\ NewUnanswered'
    BY <1>h, <2>2 DEF ResultHeld, NewUnanswered
  <2>4. StoredHeld'
    BY <1>h, <2>1, <2>2 DEF StoredHeld
  <2>5. AnswerIsOwn'
    BY <1>h, <2>1, <2>2, NotEnvelopes DEF AnswerIsOwn
  <2> QED
    BY <2>3, <2>4, <2>5 DEF OwnHeld
<1>2. ASSUME NEW r \in Requests, CheckQuota(r) PROVE OwnHeld'
  <2>1. \/ Reply(r, "quota") \/ Reply(r, "refused")
        \/ Goto(r, "run") \/ Goto(r, "look")
    BY <1>2 DEF CheckQuota
  <2> QED
    BY <1>2, <2>1, WordOwn, GotoOwn, NotEnvelopes DEF CheckQuota, rows, request
<1>3. ASSUME NEW r \in Requests, LookUp(r) PROVE OwnHeld'
  <2>1. CASE held[key[r]] = "none"
    BY <1>3, <2>1, GotoOwn DEF LookUp, rows, request
  <2>2. CASE held[key[r]] # "none"
    <3> DEFINE a == Replay(key[r], body[r])
    <3>1. Reply(r, a) /\ UNCHANGED <<key, body, held, stored, audited, result>>
      BY <1>3, <2>2 DEF LookUp, rows, request
    <3>2. CASE a \notin Requests
      BY <1>3, <3>1, <3>2, WordOwn DEF LookUp
    <3>3. CASE a \in Requests
      <4>1. key[r] \in Keys /\ key[r] # NoKey
        BY <1>0, <1>3, CreationAssumption DEF LookUp, Arrived
      <4>2. stored[key[r]] = a /\ held[key[r]] = body[r]
        BY <3>3, NotEnvelopes DEF Replay
      <4>3. key[a] = key[r] /\ body[a] = body[r] /\ a \in audited
        BY <1>h, <3>3, <4>1, <4>2 DEF StoredHeld
      <4>4. /\ answer'[r] = a /\ pc'[r] = "done"
            /\ \A q \in Requests \ {r} : answer'[q] = answer[q] /\ pc'[q] = pc[q]
        BY <1>0, <3>1 DEF Reply, TypeOK
      <4>5. AnswerIsOwn'
        BY <1>h, <3>1, <4>1, <4>3, <4>4 DEF AnswerIsOwn
      <4> QED
        BY <1>h, <3>1, <4>4, <4>5 DEF OwnHeld, ResultHeld, StoredHeld, NewUnanswered
    <3> QED
      BY <3>2, <3>3
  <2> QED
    BY <2>1, <2>2
<1>4. ASSUME NEW r \in Requests, Claim(r) PROVE OwnHeld'
  <2>1. CASE held[key[r]] # "none"
    BY <1>4, <2>1, WordOwn, NotEnvelopes DEF Claim, rows, request
  <2>2. CASE held[key[r]] = "none"
    <3>1. Goto(r, "run") /\ UNCHANGED <<key, body, audited, result>>
      BY <1>4, <2>2 DEF Claim, request
    <3>2. \A x \in Keys :
            stored'[x] # "pending" => stored'[x] = stored[x] /\ held'[x] = held[x]
      BY <1>0, <1>4, <2>2 DEF Claim, TypeOK
    <3>3. StoredHeld'
      BY <1>h, <3>1, <3>2, NotEnvelopes DEF StoredHeld
    <3>4. NewUnanswered'
      BY <1>0, <1>h, <3>1 DEF Goto, TypeOK, NewUnanswered
    <3> QED
      BY <1>h, <3>1, <3>3, <3>4 DEF OwnHeld, ResultHeld, AnswerIsOwn, Goto
  <2> QED
    BY <2>1, <2>2
<1>5. ASSUME NEW r \in Requests, Refuse(r) \/ RefuseTemplate(r) PROVE OwnHeld'
  <2>1. /\ pc[r] = "run" /\ Respond(r, "refused")
        /\ UNCHANGED <<key, body, held, stored, audited>>
    BY <1>5 DEF Refuse, RefuseTemplate, rows, request
  <2>2. CASE key[r] = NoKey
    BY <2>1, <2>2, WordOwn, NotEnvelopes DEF Respond
  <2>3. CASE key[r] # NoKey
    <3>1. Goto(r, "store") /\ result' = [result EXCEPT ![r] = "refused"]
      BY <2>1, <2>3 DEF Respond
    <3>2. ResultHeld' /\ NewUnanswered'
      BY <1>0, <1>h, <2>1, <3>1, NotEnvelopes
      DEF Goto, TypeOK, ResultHeld, NewUnanswered
    <3> QED
      BY <1>h, <2>1, <3>1, <3>2 DEF Goto, OwnHeld, StoredHeld, AnswerIsOwn
  <2> QED
    BY <2>2, <2>3
<1>6. ASSUME NEW r \in Requests, Create(r) \/ CreateFromTemplate(r) PROVE OwnHeld'
  BY <1>6, GotoOwn DEF Create, CreateFromTemplate, CommitEnvelope, rows, request
<1>7. ASSUME NEW r \in Requests, Audit(r) PROVE OwnHeld'
  <2>1. /\ pc[r] = "audit" /\ Respond(r, r) /\ audited' = audited \cup {r}
        /\ UNCHANGED <<key, body, held, stored>>
    BY <1>7 DEF Audit, rows, request
  <2>2. StoredHeld'
    BY <1>h, <2>1 DEF StoredHeld
  <2>3. CASE key[r] = NoKey
    <3>1. /\ answer'[r] = r /\ pc'[r] = "done" /\ UNCHANGED result
          /\ \A q \in Requests \ {r} : answer'[q] = answer[q] /\ pc'[q] = pc[q]
      BY <1>0, <2>1, <2>3 DEF Respond, Reply, TypeOK
    <3>2. AnswerIsOwn'
      BY <1>h, <2>1, <3>1 DEF AnswerIsOwn
    <3> QED
      BY <1>h, <2>1, <2>2, <3>1, <3>2 DEF OwnHeld, ResultHeld, NewUnanswered
  <2>4. CASE key[r] # NoKey
    <3>1. Goto(r, "store") /\ result' = [result EXCEPT ![r] = r]
      BY <2>1, <2>4 DEF Respond
    <3>2. ResultHeld' /\ NewUnanswered'
      BY <1>0, <1>h, <2>1, <3>1 DEF Goto, TypeOK, ResultHeld, NewUnanswered
    <3> QED
      BY <1>h, <2>1, <2>2, <3>1, <3>2 DEF Goto, OwnHeld, AnswerIsOwn
  <2> QED
    BY <2>3, <2>4
<1>8. ASSUME NEW r \in Requests, Throw(r) \/ Die(r) PROVE OwnHeld'
  BY <1>8, WordOwn, NotEnvelopes DEF Throw, Die, rows, request
<1>9. ASSUME NEW r \in Requests, Store(r) PROVE OwnHeld'
  <2>1. /\ pc[r] = "store" /\ Reply(r, result[r])
        /\ result' = [result EXCEPT ![r] = "none"]
        /\ UNCHANGED <<key, body, held, audited>>
    BY <1>9 DEF Store, request
  <2>2. key[r] \in Keys /\ held[key[r]] = body[r]
    BY <1>0, <2>1 DEF Arrived, KeyHeld, OneHolder, Holds
  <2>3. /\ answer'[r] = result[r] /\ pc'[r] = "done"
        /\ \A q \in Requests \ {r} : answer'[q] = answer[q] /\ pc'[q] = pc[q]
    BY <1>0, <2>1 DEF Reply, TypeOK
  <2>4. \A x \in Keys :
          stored'[x] # stored[x] => x = key[r] /\ stored'[x] = result[r]
    BY <1>0, <1>9 DEF Store, TypeOK
  <2>5. result[r] \in {r, "refused", "none"} /\ (result[r] = r => r \in audited)
    BY <1>h DEF ResultHeld
  <2>6. StoredHeld'
    BY <1>h, <2>1, <2>2, <2>4, <2>5, NotEnvelopes DEF StoredHeld
  <2>7. ResultHeld'
    BY <1>0, <1>h, <2>1, NotEnvelopes DEF TypeOK, ResultHeld
  <2>8. AnswerIsOwn'
    BY <1>h, <2>1, <2>3, <2>5, NotEnvelopes DEF AnswerIsOwn
  <2> QED
    BY <1>h, <2>3, <2>6, <2>7, <2>8 DEF OwnHeld, NewUnanswered
<1>10. ASSUME NEW k \in Keys, Prune(k) PROVE OwnHeld'
  <2>1. \A x \in Keys :
          stored'[x] # "pending" => stored'[x] = stored[x] /\ held'[x] = held[x]
    BY <1>0, <1>10 DEF Prune, TypeOK
  <2>2. StoredHeld'
    BY <1>h, <1>10, <2>1, NotEnvelopes DEF Prune, request, StoredHeld
  <2> QED
    BY <1>h, <1>10, <2>2
    DEF Prune, request, OwnHeld, ResultHeld, NewUnanswered, AnswerIsOwn
<1>11. ASSUME NewMonth PROVE OwnHeld'
  BY <1>h, <1>11
  DEF NewMonth, rows, request, OwnHeld, ResultHeld, StoredHeld, NewUnanswered,
      AnswerIsOwn
<1>12. CASE UNCHANGED vars
  BY <1>h, <1>12
  DEF vars, OwnHeld, ResultHeld, StoredHeld, NewUnanswered, AnswerIsOwn
<1> QED
  BY <1>1, <1>2, <1>3, <1>4, <1>5, <1>6, <1>7, <1>8, <1>9, <1>10, <1>11, <1>12
  DEF Next, Step

\* A request is answered with its own envelope or with the one of its key and
\* body, after the event of that envelope is on record.
THEOREM AnsweredWithOwn == Spec => []AnswerIsOwn
<1>1. Typed /\ KeyHeld /\ OwnHeld /\ [Next]_vars => (Typed /\ KeyHeld /\ OwnHeld)'
  BY NextTyped, NextKeyHeld, NextOwn
<1>2. OwnHeld => AnswerIsOwn
  BY DEF OwnHeld
<1> QED
  BY <1>1, <1>2, InitTyped, InitKeyHeld, InitOwn, PTL DEF Spec

-----------------------------------------------------------------------------
\* How far requests that race through the quota check can exceed it.

\* Those between the check and the commit never outnumber the peak, and with
\* those already counted they stay within the quota and the peak, less one.
Within ==
  /\ Cardinality(Busy) <= peak
  /\ Busy \cup counted # {} => Cardinality(Busy \cup counted) <= Quota + peak - 1

\* All these sets are finite.
LEMMA Size ==
  ASSUME NEW S \in SUBSET Requests
  PROVE  IsFiniteSet(S) /\ Cardinality(S) \in Nat
  BY CreationAssumption, FS_Subset, FS_CardinalityType

LEMMA Sizes ==
  ASSUME TypeOK, TypeOK'
  PROVE  /\ \A S \in {Busy, counted, Busy \cup counted} :
              IsFiniteSet(S) /\ Cardinality(S) \in Nat
         /\ \A S \in {Busy', counted', (Busy \cup counted)'} :
              IsFiniteSet(S) /\ Cardinality(S) \in Nat
         /\ peak \in Nat /\ peak' \in Nat /\ Quota \in Nat
<1>1. /\ Busy \in SUBSET Requests /\ counted \in SUBSET Requests
      /\ Busy' \in SUBSET Requests /\ counted' \in SUBSET Requests
  BY DEF Busy, TypeOK
<1>2. /\ Busy \cup counted \in SUBSET Requests
      /\ (Busy \cup counted)' \in SUBSET Requests
  BY <1>1
<1> QED
  BY <1>1, <1>2, Size, CreationAssumption DEF TypeOK

\* Nobody passes the check, and none is counted that had not passed it.
LEMMA ShrinksWithin ==
  ASSUME TypeOK, TypeOK', Within, Busy' \subseteq Busy,
         (Busy \cup counted)' \subseteq Busy \cup counted, UNCHANGED peak
  PROVE  Within'
<1>1. Cardinality(Busy') <= Cardinality(Busy)
  BY Sizes, FS_Subset
<1>2. Cardinality((Busy \cup counted)') <= Cardinality(Busy \cup counted)
  BY Sizes, FS_Subset
<1>3. /\ Cardinality(Busy') \in Nat /\ Cardinality(Busy) \in Nat
      /\ Cardinality((Busy \cup counted)') \in Nat
      /\ Cardinality(Busy \cup counted) \in Nat
      /\ peak \in Nat /\ Quota \in Nat
  BY Sizes
<1>4. Cardinality(Busy') <= peak'
  BY <1>1, <1>3 DEF Within
<1>5. (Busy \cup counted)' # {} =>
        Cardinality((Busy \cup counted)') <= Quota + peak - 1
  BY <1>2, <1>3 DEF Within
<1> QED
  BY <1>4, <1>5 DEF Within

\* The check itself.
LEMMA CheckWithin ==
  ASSUME TypeOK, TypeOK', Within, NEW r \in Requests, CheckQuota(r)
  PROVE  Within'
<1>1. /\ UNCHANGED counted
      /\ peak' = IF Cardinality(Busy') > peak THEN Cardinality(Busy') ELSE peak
  BY DEF CheckQuota
<1>2. /\ Cardinality(Busy') \in Nat /\ Cardinality(Busy) \in Nat
      /\ Cardinality(counted) \in Nat
      /\ Cardinality((Busy \cup counted)') \in Nat
      /\ peak \in Nat /\ peak' \in Nat /\ Quota \in Nat
  BY Sizes
<1>3. Cardinality(Busy') <= peak'
  BY <1>1, <1>2
<1>4. CASE r \in Live /\ Allowed
  <2>1. Cardinality(counted) <= Quota - 1
    BY <1>2, <1>4 DEF Allowed
  <2>2. Cardinality((Busy \cup counted)') <= Cardinality(Busy') + Cardinality(counted)
    <3>1. (Busy \cup counted)' = Busy' \cup counted
      BY <1>1
    <3>2. Cardinality(Busy' \cup counted)
            = Cardinality(Busy') + Cardinality(counted)
                - Cardinality(Busy' \cap counted)
      BY Sizes, FS_Union
    <3>3. Cardinality(Busy' \cap counted) \in Nat
      BY Sizes, FS_Intersection, FS_CardinalityType
    <3>4. Cardinality((Busy \cup counted)') = Cardinality(Busy' \cup counted)
      BY <3>1, Zenon
    <3>5. Cardinality(Busy' \cup counted) <= Cardinality(Busy') + Cardinality(counted)
      BY <1>2, <3>2, <3>3
    <3> QED
      BY <3>4, <3>5
  <2>3. Cardinality((Busy \cup counted)') <= Quota + peak' - 1
    BY <1>2, <1>3, <2>1, <2>2
  <2> QED
    BY <1>3, <2>3, CreationAssumption DEF Within
<1>5. CASE ~(r \in Live /\ Allowed)
  <2>1. \/ r \notin Live
        \/ pc'[r] = "done"
    BY <1>5 DEF CheckQuota, Reply, TypeOK
  <2>2. Busy' \subseteq Busy
    BY <2>1 DEF CheckQuota, Reply, Goto, Busy, TypeOK
  <2>3. Cardinality(Busy') <= Cardinality(Busy)
    BY <2>2, Sizes, FS_Subset
  <2>4. UNCHANGED peak
    BY <1>1, <1>2, <2>3 DEF Within
  <2> QED
    BY <1>1, <2>2, <2>4, ShrinksWithin
<1> QED
  BY <1>4, <1>5

LEMMA InitWithin == Init => Within
<1> SUFFICES ASSUME Init PROVE Within
  OBVIOUS
<1>1. Busy = {} /\ counted = {} /\ peak = 0
  BY DEF Init, Busy
<1> QED
  BY <1>1, FS_EmptySet DEF Within

LEMMA NextWithin ==
  ASSUME TypeOK, TypeOK', Within, [Next]_vars
  PROVE  Within'
<1>1. ASSUME NEW r \in Requests, CheckQuota(r) PROVE Within'
  BY <1>1, CheckWithin
<1>2. ASSUME NEW r \in Requests, Create(r) \/ CreateFromTemplate(r) PROVE Within'
  <2>1. /\ pc[r] = "run" /\ CommitEnvelope(r)
    BY <1>2 DEF Create, CreateFromTemplate
  <2>2. Busy' = Busy \ {r}
    BY <2>1 DEF CommitEnvelope, Goto, Busy, TypeOK
  <2>3. (Busy \cup counted)' \subseteq Busy \cup counted
    BY <2>1, <2>2 DEF CommitEnvelope, Busy
  <2> QED
    BY <2>1, <2>2, <2>3, ShrinksWithin DEF CommitEnvelope
<1>3. ASSUME NEW r \in Requests,
             UNCHANGED <<counted, peak>>,
             \A q \in Requests \ {r} : pc'[q] = pc[q],
             pc'[r] \in {"look", "claim", "run"} => pc[r] \in {"look", "claim", "run"}
      PROVE  Within'
  <2>1. Busy' \subseteq Busy
    BY <1>3 DEF Busy
  <2> QED
    BY <1>3, <2>1, ShrinksWithin
<1>4. ASSUME NEW r \in Requests, NEW k \in Keys \cup {NoKey}, NEW b \in Bodies,
             Arrive(r, k, b)
      PROVE  Within'
  BY <1>3, <1>4 DEF Arrive, Reply, Goto, TypeOK
<1>5. ASSUME NEW r \in Requests, LookUp(r) PROVE Within'
  BY <1>3, <1>5 DEF LookUp, Reply, Goto, TypeOK
<1>6. ASSUME NEW r \in Requests, Claim(r) PROVE Within'
  BY <1>3, <1>6 DEF Claim, Reply, Goto, TypeOK
<1>7. ASSUME NEW r \in Requests, Refuse(r) \/ RefuseTemplate(r) \/ Audit(r)
      PROVE  Within'
  BY <1>3, <1>7 DEF Refuse, RefuseTemplate, Audit, Respond, Reply, Goto, TypeOK
<1>8. ASSUME NEW r \in Requests, Throw(r) \/ Store(r) \/ Die(r) PROVE Within'
  BY <1>3, <1>8 DEF Throw, Store, Die, Reply, TypeOK
<1>9. ASSUME NEW k \in Keys, Prune(k) PROVE Within'
  BY <1>9, ShrinksWithin DEF Prune, Busy
<1>10. ASSUME NewMonth PROVE Within'
  BY <1>10, ShrinksWithin DEF NewMonth, Busy
<1>11. CASE UNCHANGED vars
  BY <1>11, ShrinksWithin DEF vars, Busy
<1> QED
  BY <1>1, <1>2, <1>4, <1>5, <1>6, <1>7, <1>8, <1>9, <1>10, <1>11 DEF Next, Step

\* The quota can be exceeded only by as many live requests as were ever past the
\* check and not yet committed, less one.
THEOREM QuotaWithin == Spec => []OvershootBounded
<1>1. Typed /\ Within => OvershootBounded
  <2> SUFFICES ASSUME TypeOK, Within, counted # {}
               PROVE  Cardinality(counted) <= Quota + peak - 1
    BY DEF Typed, OvershootBounded
  <2>1. Busy \cup counted \in SUBSET Requests /\ counted \in SUBSET Requests
    BY DEF Busy, TypeOK
  <2>2. Cardinality(counted) <= Cardinality(Busy \cup counted)
    BY <2>1, Size, FS_Subset
  <2>3. Cardinality(Busy \cup counted) <= Quota + peak - 1
    BY DEF Within
  <2>4. /\ Cardinality(counted) \in Nat /\ Cardinality(Busy \cup counted) \in Nat
        /\ Quota + peak - 1 \in Int
    BY <2>1, Size, CreationAssumption DEF TypeOK
  <2> QED
    BY <2>2, <2>3, <2>4
<1>2. Typed /\ Within /\ [Next]_vars => (Typed /\ Within)'
  <2>1. Typed => TypeOK
    BY DEF Typed
  <2>2. Typed' => TypeOK'
    BY DEF Typed
  <2> QED
    BY <2>1, <2>2, NextTyped, NextWithin
<1> QED
  BY <1>1, <1>2, InitTyped, InitWithin, PTL DEF Spec

-----------------------------------------------------------------------------
\* The plan that Stripe is paid for.

\* Events that carry what a subscription is.
Tells(e) == e.type \in {"updated", "deleted"}

TellsOf(s) == \E i \in DOMAIN outbox : Tells(outbox[i]) /\ outbox[i].of.sub = s

ToldLater(i) ==
  \E j \in DOMAIN outbox :
    i < j /\ Tells(outbox[j]) /\ outbox[j].of.sub = outbox[i].of.sub

\* Rows and events, in any order and however often they are sent.
Events == [type : EventTypes, of : [sub : Subs, status : StripeStatuses \ {"none"},
                                    plan : Plans]]

BillingTypes ==
  /\ stripe \in [Subs -> [status : StripeStatuses, plan : Plans]]
  /\ sessions \subseteq Paid
  /\ outbox \in Seq(Events)
  /\ row \in Rows /\ plan \in Plans
  /\ fetched \in Snapshots \cup {Nothing}
  /\ orderly \in BOOLEAN

\* Stripe's subscriptions are known, or will be.
KnownHeld ==
  /\ \A s \in Subs : stripe[s].status # "none" =>
       \/ row.sub = s
       \/ \E i \in DOMAIN outbox : outbox[i].type = "updated" /\ outbox[i].of.sub = s
  /\ \A i \in DOMAIN outbox : stripe[outbox[i].of.sub].status # "none"
  /\ row.sub # NoSub => stripe[row.sub].status # "none"
  /\ fetched # Nothing => stripe[fetched.sub].status # "none" /\ fetched.status # "none"

\* A subscription that has no row yet is first told of as it is made.
FirstHeld ==
  \A i \in DOMAIN outbox : outbox[i].of.sub # row.sub =>
    \E j \in DOMAIN outbox :
      j <= i /\ outbox[j].type = "updated" /\ outbox[j].of.sub = outbox[i].of.sub

\* The last event that tells of a subscription tells what it is; a failed payment
\* and a cancellation are told of later.
Current(i) ==
  /\ outbox[i].of = Snapshot(outbox[i].of.sub)
  /\ outbox[i].type = "deleted" <=> outbox[i].of.status = "canceled"

LastHeld ==
  \A i \in DOMAIN outbox :
    /\ Tells(outbox[i]) => Current(i) \/ ToldLater(i)
    /\ outbox[i].type = "payment_failed" => ToldLater(i)
    /\ outbox[i].type = "checkout" /\ stripe[outbox[i].of.sub].status = "canceled" =>
         ToldLater(i)

Settled ==
  /\ stripe[row.sub].status = "active" =>
       row.status = "ACTIVE" /\ plan = stripe[row.sub].plan
  /\ stripe[row.sub].status = "canceled" => plan = "FREE"

RowHeld == row.sub # NoSub => Settled \/ TellsOf(row.sub)

\* What checkout.session.completed is about to write is so, or is told again.
FetchedHeld ==
  fetched # Nothing =>
    /\ sweep = "idle" /\ outbox # << >> /\ outbox[1].type = "checkout"
    /\ fetched.sub = outbox[1].of.sub /\ fetched.sub = row.sub
    /\ \/ fetched = Snapshot(row.sub) /\ fetched.status # "canceled"
       \/ TellsOf(row.sub)

SweepHeld == sweep = "plan" => row.status # "ACTIVE"

OrderHeld ==
  orderly => /\ FirstHeld /\ LastHeld /\ RowHeld /\ FetchedHeld /\ SweepHeld

BillingInv == BillingTypes /\ KnownHeld /\ OrderHeld

LEMMA InitBilling == BillingInit => BillingInv
<1> SUFFICES ASSUME BillingInit PROVE BillingInv
  OBVIOUS
<1>1. outbox \in Seq(Events) /\ DOMAIN outbox = {}
  BY DEF BillingInit
<1>2. BillingTypes
  BY <1>1 DEF BillingInit, BillingTypes, StripeStatuses, Plans, Paid, Rows, NoRow,
              Nothing
<1>3. row.sub = NoSub /\ fetched = Nothing /\ sweep = "idle"
  BY DEF BillingInit, NoRow
<1>4. KnownHeld
  BY <1>1, <1>3 DEF BillingInit, KnownHeld
<1>5. OrderHeld
  BY <1>1, <1>3 DEF OrderHeld, FirstHeld, LastHeld, RowHeld, FetchedHeld, SweepHeld
<1> QED
  BY <1>2, <1>4, <1>5 DEF BillingInv

\* Where the events are after one of them is answered: Was(i, k) is the earlier
\* place of the k-th, Now(i, j) the later place of the j-th.
Was(i, k) == IF k < i THEN k ELSE k + 1
Now(i, j) == IF j < i THEN j ELSE j - 1

LEMMA Joined ==
  ASSUME NEW S, NEW a \in Seq(S), NEW b \in Seq(S)
  PROVE  /\ a \o b \in Seq(S) /\ Len(a \o b) = Len(a) + Len(b)
         /\ DOMAIN (a \o b) = 1..(Len(a) + Len(b))
         /\ \A k \in 1..Len(a) : (a \o b)[k] = a[k]
         /\ \A k \in (Len(a) + 1)..(Len(a) + Len(b)) : (a \o b)[k] = b[k - Len(a)]
  OBVIOUS

LEMMA Removed ==
  ASSUME outbox \in Seq(Events), NEW i \in DOMAIN outbox,
         outbox' = RemoveAt(outbox, i)
  PROVE  /\ outbox' \in Seq(Events)
         /\ \A k \in DOMAIN outbox' :
              Was(i, k) \in DOMAIN outbox \ {i} /\ outbox'[k] = outbox[Was(i, k)]
         /\ \A j \in DOMAIN outbox \ {i} :
              Now(i, j) \in DOMAIN outbox' /\ outbox'[Now(i, j)] = outbox[j]
<1> DEFINE n == Len(outbox)
           a == SubSeq(outbox, 1, i - 1)
           b == SubSeq(outbox, i + 1, n)
<1>1. n \in Nat /\ i \in 1..n /\ DOMAIN outbox = 1..n
  OBVIOUS
<1>2. /\ a \in Seq(Events) /\ Len(a) = i - 1
      /\ \A k \in 1..(i - 1) : a[k] = outbox[k]
  BY <1>1
<1>3. /\ b \in Seq(Events) /\ Len(b) = n - i
      /\ \A k \in 1..(n - i) : b[k] = outbox[k + i]
  BY <1>1
<1>4. outbox' = a \o b
  BY DEF RemoveAt
<1> HIDE DEF a, b, n
<1>5. /\ outbox' \in Seq(Events) /\ DOMAIN outbox' = 1..((i - 1) + (n - i))
      /\ \A k \in 1..(i - 1) : outbox'[k] = a[k]
      /\ \A k \in ((i - 1) + 1)..((i - 1) + (n - i)) : outbox'[k] = b[k - (i - 1)]
  <2> DEFINE l == Len(a)
             r == Len(b)
             c == a \o b
  <2>1. l = i - 1 /\ r = n - i /\ outbox' = c
    BY <1>2, <1>3, <1>4
  <2>2. a \in Seq(Events) /\ b \in Seq(Events)
    BY <1>2, <1>3
  <2>3. /\ c \in Seq(Events) /\ DOMAIN c = 1..(l + r)
        /\ \A k \in 1..l : c[k] = a[k]
        /\ \A k \in (l + 1)..(l + r) : c[k] = b[k - l]
    BY <2>2, Joined
  <2> HIDE DEF l, r, c
  <2> QED
    BY <2>1, <2>3
<1>6. /\ DOMAIN outbox' = 1..(n - 1)
      /\ \A k \in 1..(n - 1) : outbox'[k] = IF k < i THEN a[k] ELSE b[k - (i - 1)]
  BY <1>1, <1>5
<1>7. \A k \in 1..(n - 1) : outbox'[k] = outbox[Was(i, k)] /\ Was(i, k) \in 1..n \ {i}
  <2> TAKE k \in 1..(n - 1)
  <2>1. CASE k < i
    BY <2>1, <1>1, <1>2, <1>6 DEF Was
  <2>2. CASE ~(k < i)
    <3>1. k - (i - 1) \in 1..(n - i) /\ (k - (i - 1)) + i = k + 1
      BY <2>2, <1>1
    <3>2. outbox'[k] = outbox[k + 1]
      BY <3>1, <2>2, <1>3, <1>6
    <3> QED
      BY <2>2, <3>2, <1>1 DEF Was
  <2> QED
    BY <2>1, <2>2
<1>8. \A j \in 1..n \ {i} : Now(i, j) \in 1..(n - 1) /\ Was(i, Now(i, j)) = j
  BY <1>1 DEF Was, Now
<1> QED
  BY <1>1, <1>5, <1>6, <1>7, <1>8

\* An answered event that is the first, or that does not tell, leaves what was
\* told of first and last.
LEMMA RemovedHeld ==
  ASSUME BillingTypes, FirstHeld, LastHeld, NEW i \in DOMAIN outbox,
         outbox' = RemoveAt(outbox, i), stripe' = stripe,
         i = 1 \/ ~Tells(outbox[i]),
         row.sub \in {NoSub, row'.sub},
         outbox[i].type = "updated" => row'.sub = outbox[i].of.sub
  PROVE  /\ FirstHeld' /\ LastHeld'
         /\ \A s \in Subs :
              TellsOf(s) /\ ~(Tells(outbox[i]) /\ outbox[i].of.sub = s) => TellsOf(s)'
         /\ \A s \in Subs : ToldLater(i) /\ outbox[i].of.sub = s => TellsOf(s)'
<1>0. outbox \in Seq(Events) /\ DOMAIN outbox \subseteq Nat \ {0}
  BY DEF BillingTypes
<1>1. /\ \A k \in DOMAIN outbox' :
           Was(i, k) \in DOMAIN outbox \ {i} /\ outbox'[k] = outbox[Was(i, k)]
      /\ \A j \in DOMAIN outbox \ {i} :
           Now(i, j) \in DOMAIN outbox' /\ outbox'[Now(i, j)] = outbox[j]
      /\ outbox' \in Seq(Events)
  BY <1>0, Removed
<1>2. DOMAIN outbox' \subseteq Nat \ {0} /\ i \in Nat \ {0}
  BY <1>0, <1>1
<1>3. \A k \in DOMAIN outbox', j \in DOMAIN outbox \ {i} :
        /\ j <= Was(i, k) => Now(i, j) <= k
        /\ Was(i, k) < j => k < Now(i, j)
  BY <1>0, <1>2 DEF Was, Now
<1>4. \A j \in DOMAIN outbox : outbox[j].of.sub \in Subs
  <2>1. \A j \in DOMAIN outbox : outbox[j] \in Events
    BY <1>0
  <2> QED
    BY <2>1 DEF Events
<1>5. \A k \in DOMAIN outbox' : ToldLater(Was(i, k)) => ToldLater(k)'
  <2> SUFFICES ASSUME NEW k \in DOMAIN outbox', ToldLater(Was(i, k)) PROVE ToldLater(k)'
    OBVIOUS
  <2>1. PICK j \in DOMAIN outbox : /\ Was(i, k) < j /\ Tells(outbox[j])
                                   /\ outbox[j].of.sub = outbox[Was(i, k)].of.sub
    BY DEF ToldLater
  <2>2. j # i
    BY <2>1, <1>0, <1>2 DEF Was
  <2>3. /\ Now(i, j) \in DOMAIN outbox' /\ k < Now(i, j)
        /\ outbox'[Now(i, j)] = outbox[j] /\ outbox'[k] = outbox[Was(i, k)]
    BY <2>1, <2>2, <1>1, <1>3
  <2> QED
    BY <2>1, <2>3 DEF ToldLater, Tells
<1>6. FirstHeld'
  <2> SUFFICES ASSUME NEW k \in DOMAIN outbox', outbox'[k].of.sub # row'.sub
               PROVE  \E j \in DOMAIN outbox' :
                        /\ j <= k /\ outbox'[j].type = "updated"
                        /\ outbox'[j].of.sub = outbox'[k].of.sub
    BY DEF FirstHeld
  <2>1. /\ Was(i, k) \in DOMAIN outbox /\ outbox'[k] = outbox[Was(i, k)]
        /\ outbox[Was(i, k)].of.sub \in Subs
    BY <1>1, <1>4
  <2>2. outbox[Was(i, k)].of.sub # row.sub
    BY <2>1, BillingAssumption
  <2>3. PICK j \in DOMAIN outbox : /\ j <= Was(i, k) /\ outbox[j].type = "updated"
                                   /\ outbox[j].of.sub = outbox[Was(i, k)].of.sub
    BY <2>1, <2>2 DEF FirstHeld
  <2>4. j # i
    BY <2>1, <2>3
  <2>5. Now(i, j) \in DOMAIN outbox' /\ Now(i, j) <= k /\ outbox'[Now(i, j)] = outbox[j]
    BY <2>3, <2>4, <1>1, <1>3
  <2> QED
    BY <2>1, <2>3, <2>5
<1>7. LastHeld'
  <2> SUFFICES ASSUME NEW k \in DOMAIN outbox'
               PROVE  /\ Tells(outbox'[k]) => Current(k)' \/ ToldLater(k)'
                      /\ outbox'[k].type = "payment_failed" => ToldLater(k)'
                      /\ outbox'[k].type = "checkout"
                           /\ stripe'[outbox'[k].of.sub].status = "canceled" =>
                         ToldLater(k)'
    BY DEF LastHeld, Tells
  <2>1. Was(i, k) \in DOMAIN outbox /\ outbox'[k] = outbox[Was(i, k)]
    BY <1>1
  <2>2. Current(Was(i, k)) => Current(k)'
    BY <2>1 DEF Current, Snapshot
  <2> QED
    BY <2>1, <2>2, <1>5 DEF LastHeld
<1>8. ASSUME NEW s \in Subs, TellsOf(s), ~(Tells(outbox[i]) /\ outbox[i].of.sub = s)
      PROVE  TellsOf(s)'
  <2>1. PICK j \in DOMAIN outbox : Tells(outbox[j]) /\ outbox[j].of.sub = s
    BY <1>8 DEF TellsOf
  <2> QED
    BY <2>1, <1>8, <1>1 DEF TellsOf, Tells
<1>9. ASSUME NEW s \in Subs, ToldLater(i), outbox[i].of.sub = s PROVE TellsOf(s)'
  <2>1. PICK j \in DOMAIN outbox : /\ i < j /\ Tells(outbox[j])
                                   /\ outbox[j].of.sub = outbox[i].of.sub
    BY <1>9 DEF ToldLater
  <2>2. j \in DOMAIN outbox \ {i}
    BY <2>1, <1>0
  <2> QED
    BY <2>1, <2>2, <1>9, <1>1 DEF TellsOf, Tells
<1> QED
  BY <1>6, <1>7, <1>8, <1>9

LEMMA RemovedKnown ==
  ASSUME BillingTypes, KnownHeld, NEW i \in DOMAIN outbox,
         outbox' = RemoveAt(outbox, i), stripe' = stripe,
         row.sub \in {NoSub, row'.sub},
         row'.sub # NoSub => stripe[row'.sub].status # "none",
         outbox[i].type = "updated" => row'.sub = outbox[i].of.sub,
         fetched' \in {fetched, Nothing}
  PROVE  KnownHeld'
<1>0. outbox \in Seq(Events)
  BY DEF BillingTypes
<1>1. /\ \A k \in DOMAIN outbox' : \E j \in DOMAIN outbox : outbox'[k] = outbox[j]
      /\ \A j \in DOMAIN outbox \ {i} : \E k \in DOMAIN outbox' : outbox'[k] = outbox[j]
  BY <1>0, Removed
<1>2. ASSUME NEW s \in Subs, stripe[s].status # "none"
      PROVE  \/ row'.sub = s
             \/ \E k \in DOMAIN outbox' :
                  outbox'[k].type = "updated" /\ outbox'[k].of.sub = s
  BY <1>2, <1>1, BillingAssumption DEF KnownHeld
<1>3. \A k \in DOMAIN outbox' : stripe[outbox'[k].of.sub].status # "none"
  BY <1>1 DEF KnownHeld
<1>4. fetched' # Nothing =>
        stripe[fetched'.sub].status # "none" /\ fetched'.status # "none"
  BY DEF KnownHeld
<1> QED
  BY <1>2, <1>3, <1>4 DEF KnownHeld
\* What Stripe sends with a change: one event that tells of it, after any failed
\* payment; and the first of a subscription that was not there tells of it.
SentWith(s, status, types) ==
  /\ types \in Seq(EventTypes)
  /\ \E m \in DOMAIN types :
       /\ types[m] \in {"updated", "deleted"}
       /\ \A n \in DOMAIN types : types[n] = "payment_failed" => n < m
  /\ \A n \in DOMAIN types :
       /\ types[n] \in {"updated", "deleted"} =>
            (types[n] = "deleted" <=> status = "canceled")
       /\ types[n] = "checkout" => status # "canceled"
  /\ stripe[s].status = "none" => 1 \in DOMAIN types /\ types[1] = "updated"

LEMMA Sent ==
  ASSUME BillingTypes, NEW s \in Subs, NEW status \in StripeStatuses \ {"none"},
         NEW p \in Plans, NEW types \in Seq(EventTypes),
         Change(s, status, p, types)
  PROVE  /\ outbox' \in Seq(Events)
         /\ \A k \in DOMAIN outbox : k \in DOMAIN outbox' /\ outbox'[k] = outbox[k]
         /\ \A k \in DOMAIN outbox' \ DOMAIN outbox :
              \E n \in DOMAIN types :
                /\ k = Len(outbox) + n
                /\ outbox'[k].type = types[n]
                /\ outbox'[k].of = [sub |-> s, status |-> status, plan |-> p]
         /\ \A n \in DOMAIN types : Len(outbox) + n \in DOMAIN outbox' \ DOMAIN outbox
<1> DEFINE snap == [sub |-> s, status |-> status, plan |-> p]
           e == [i \in 1..Len(types) |-> [type |-> types[i], of |-> snap]]
<1>1. outbox \in Seq(Events) /\ DOMAIN outbox = 1..Len(outbox) /\ Len(outbox) \in Nat
  BY DEF BillingTypes
<1>2. Len(types) \in Nat /\ DOMAIN types = 1..Len(types)
  OBVIOUS
<1>3. \A n \in 1..Len(types) : /\ e[n] = [type |-> types[n], of |-> snap]
                               /\ e[n] \in Events
  BY DEF Events
<1>4. e \in Seq(Events) /\ Len(e) = Len(types)
  BY <1>2, <1>3
<1>5. outbox' = outbox \o e
  BY DEF Change
<1>51. \A T : \A a, b \in Seq(T) :
         /\ a \o b \in Seq(T)
         /\ DOMAIN (a \o b) = 1..(Len(a) + Len(b))
         /\ \A k \in 1..Len(a) : (a \o b)[k] = a[k]
         /\ \A k \in (Len(a) + 1)..(Len(a) + Len(b)) : (a \o b)[k] = b[k - Len(a)]
  BY Joined
<1> HIDE DEF e
<1>6. /\ outbox' \in Seq(Events) /\ DOMAIN outbox' = 1..(Len(outbox) + Len(types))
      /\ \A k \in 1..Len(outbox) : outbox'[k] = outbox[k]
      /\ \A k \in (Len(outbox) + 1)..(Len(outbox) + Len(types)) :
           outbox'[k] = e[k - Len(outbox)]
  <2>1. /\ outbox \o e \in Seq(Events)
        /\ DOMAIN (outbox \o e) = 1..(Len(outbox) + Len(e))
        /\ \A k \in 1..Len(outbox) : (outbox \o e)[k] = outbox[k]
        /\ \A k \in (Len(outbox) + 1)..(Len(outbox) + Len(e)) :
             (outbox \o e)[k] = e[k - Len(outbox)]
    BY <1>1, <1>4, <1>51
  <2> QED
    BY <2>1, <1>4, <1>5
<1>7. ASSUME NEW k \in DOMAIN outbox' \ DOMAIN outbox
      PROVE  \E n \in DOMAIN types : /\ k = Len(outbox) + n
                                     /\ outbox'[k].type = types[n]
                                     /\ outbox'[k].of = snap
  <2>1. k - Len(outbox) \in DOMAIN types /\ k = Len(outbox) + (k - Len(outbox))
    BY <1>1, <1>2, <1>6
  <2>2. outbox'[k] = e[k - Len(outbox)]
    BY <1>1, <1>2, <1>6
  <2>3. outbox'[k] = [type |-> types[k - Len(outbox)], of |-> snap]
    BY <2>1, <2>2, <1>2, <1>3
  <2> QED
    BY <2>1, <2>3
<1>8. \A n \in DOMAIN types : Len(outbox) + n \in DOMAIN outbox' \ DOMAIN outbox
  BY <1>1, <1>2, <1>6
<1>9. \A k \in DOMAIN outbox : k \in DOMAIN outbox' /\ outbox'[k] = outbox[k]
  BY <1>1, <1>2, <1>6
<1> QED
  BY <1>6, <1>7, <1>8, <1>9

\* A change on Stripe's side keeps the invariant: it is told of later.
LEMMA ChangeHeld ==
  ASSUME BillingInv, NEW s \in Subs, NEW status \in StripeStatuses \ {"none"},
         NEW p \in Plans, NEW types, SentWith(s, status, types),
         Change(s, status, p, types), sessions' \subseteq Paid,
         UNCHANGED <<fetched, row, plan, sweep, orderly>>
  PROVE  BillingInv'
<1>0. BillingTypes /\ KnownHeld /\ types \in Seq(EventTypes)
  BY DEF BillingInv, SentWith
<1>1. /\ outbox' \in Seq(Events)
      /\ \A k \in DOMAIN outbox : k \in DOMAIN outbox' /\ outbox'[k] = outbox[k]
      /\ \A k \in DOMAIN outbox' \ DOMAIN outbox :
           \E n \in DOMAIN types :
             /\ k = Len(outbox) + n
             /\ outbox'[k].type = types[n]
             /\ outbox'[k].of = [sub |-> s, status |-> status, plan |-> p]
      /\ \A n \in DOMAIN types : Len(outbox) + n \in DOMAIN outbox' \ DOMAIN outbox
  BY <1>0, Sent
<1>2. /\ stripe' \in [Subs -> [status : StripeStatuses, plan : Plans]]
      /\ stripe'[s] = [status |-> status, plan |-> p]
      /\ \A t \in Subs : t # s => stripe'[t] = stripe[t]
  BY <1>0 DEF BillingTypes, Change
<1>3. Len(outbox) \in Nat /\ DOMAIN outbox = 1..Len(outbox) /\ DOMAIN types \subseteq Nat \ {0}
  BY <1>0 DEF BillingTypes
<1>4. BillingTypes'
  BY <1>0, <1>1, <1>2 DEF BillingTypes
<1>5. \A k \in DOMAIN outbox : outbox[k].of.sub \in Subs
  <2>1. \A k \in DOMAIN outbox : outbox[k] \in Events
    BY <1>0 DEF BillingTypes
  <2> QED
    BY <2>1 DEF Events
<1>6. \A t \in Subs : stripe[t].status # "none" => stripe'[t].status # "none"
  BY <1>2
<1>7. row \in Rows /\ fetched \in Snapshots \cup {Nothing}
  BY <1>0 DEF BillingTypes
<1>8. KnownHeld'
  <2>1. ASSUME NEW t \in Subs, stripe'[t].status # "none"
        PROVE  \/ row.sub = t
               \/ \E k \in DOMAIN outbox' :
                    outbox'[k].type = "updated" /\ outbox'[k].of.sub = t
    <3>1. CASE stripe[t].status # "none"
      BY <3>1, <1>0, <1>1 DEF KnownHeld
    <3>2. CASE stripe[t].status = "none"
      <4>1. t = s
        BY <3>2, <2>1, <1>2
      <4>2. 1 \in DOMAIN types /\ types[1] = "updated"
        BY <3>2, <4>1 DEF SentWith
      <4>3. PICK n \in DOMAIN types :
              /\ Len(outbox) + 1 = Len(outbox) + n
              /\ outbox'[Len(outbox) + 1].type = types[n]
              /\ outbox'[Len(outbox) + 1].of = [sub |-> s, status |-> status, plan |-> p]
        BY <4>2, <1>1
      <4>4. n = 1
        BY <4>3, <1>3
      <4> QED
        BY <4>1, <4>2, <4>3, <4>4, <1>1
    <3> QED
      BY <3>1, <3>2
  <2>2. ASSUME NEW k \in DOMAIN outbox'
        PROVE  stripe'[outbox'[k].of.sub].status # "none"
    <3>1. CASE k \in DOMAIN outbox
      BY <3>1, <1>0, <1>1, <1>5, <1>6 DEF KnownHeld
    <3>2. CASE k \notin DOMAIN outbox
      BY <3>2, <1>1, <1>2
    <3> QED
      BY <3>1, <3>2
  <2>3. row.sub # NoSub => stripe'[row.sub].status # "none"
    BY <1>0, <1>6, <1>7 DEF KnownHeld, Rows
  <2>4. fetched # Nothing =>
          stripe'[fetched.sub].status # "none" /\ fetched.status # "none"
    BY <1>0, <1>6, <1>7 DEF KnownHeld, Snapshots
  <2> QED
    BY <2>1, <2>2, <2>3, <2>4 DEF KnownHeld
<1>9. PICK m \in DOMAIN types :
        /\ types[m] \in {"updated", "deleted"}
        /\ \A n \in DOMAIN types : types[n] = "payment_failed" => n < m
  BY DEF SentWith
<1>10. /\ Len(outbox) + m \in DOMAIN outbox' \ DOMAIN outbox
       /\ outbox'[Len(outbox) + m].type \in {"updated", "deleted"}
       /\ outbox'[Len(outbox) + m].of.sub = s
  <2>1. PICK n \in DOMAIN types :
          /\ Len(outbox) + m = Len(outbox) + n
          /\ outbox'[Len(outbox) + m].type = types[n]
          /\ outbox'[Len(outbox) + m].of = [sub |-> s, status |-> status, plan |-> p]
    BY <1>1
  <2>2. n = m
    BY <2>1, <1>3
  <2> QED
    BY <2>1, <2>2, <1>1, <1>9
<1>11. TellsOf(s)'
  <2>1. \E k \in DOMAIN outbox' :
          outbox'[k].type \in {"updated", "deleted"} /\ outbox'[k].of.sub = s
    BY <1>10
  <2> QED
    BY <2>1 DEF TellsOf, Tells
<1>12. \A t \in Subs : TellsOf(t) => TellsOf(t)'
  BY <1>1 DEF TellsOf, Tells
<1>13. ASSUME orderly, OrderHeld PROVE OrderHeld'
  <2>0. FirstHeld /\ LastHeld /\ RowHeld /\ FetchedHeld /\ SweepHeld
    BY <1>13 DEF OrderHeld
  <2>1. FirstHeld'
    <3> SUFFICES ASSUME NEW k \in DOMAIN outbox', outbox'[k].of.sub # row.sub
                 PROVE  \E j \in DOMAIN outbox' :
                          /\ j <= k /\ outbox'[j].type = "updated"
                          /\ outbox'[j].of.sub = outbox'[k].of.sub
      BY DEF FirstHeld
    <3>1. CASE k \in DOMAIN outbox
      <4>1. outbox'[k] = outbox[k] /\ outbox[k].of.sub # row.sub
        BY <3>1, <1>1
      <4>2. PICK j \in DOMAIN outbox : /\ j <= k /\ outbox[j].type = "updated"
                                       /\ outbox[j].of.sub = outbox[k].of.sub
        BY <3>1, <4>1, <2>0 DEF FirstHeld
      <4>3. j \in DOMAIN outbox' /\ outbox'[j] = outbox[j]
        BY <1>1
      <4> QED
        BY <4>1, <4>2, <4>3
    <3>2. CASE k \notin DOMAIN outbox
      <4>1. PICK n \in DOMAIN types :
              /\ k = Len(outbox) + n
              /\ outbox'[k].type = types[n]
              /\ outbox'[k].of = [sub |-> s, status |-> status, plan |-> p]
        BY <3>2, <1>1
      <4>2. PICK j \in DOMAIN outbox' :
              outbox'[j].type = "updated" /\ outbox'[j].of.sub = s /\ j <= k
        <5>1. CASE stripe[s].status # "none"
          <6>1. PICK j \in DOMAIN outbox :
                  outbox[j].type = "updated" /\ outbox[j].of.sub = s
            BY <5>1, <4>1, <1>0 DEF KnownHeld
          <6> QED
            BY <6>1, <4>1, <1>1, <1>3
        <5>2. CASE stripe[s].status = "none"
          <6>1. 1 \in DOMAIN types /\ types[1] = "updated"
            BY <5>2 DEF SentWith
          <6>2. PICK i \in DOMAIN types :
                  /\ Len(outbox) + 1 = Len(outbox) + i
                  /\ outbox'[Len(outbox) + 1].type = types[i]
                  /\ outbox'[Len(outbox) + 1].of =
                       [sub |-> s, status |-> status, plan |-> p]
            BY <6>1, <1>1
          <6>3. i = 1 /\ Len(outbox) + 1 <= k
            BY <6>2, <4>1, <1>3
          <6> QED
            BY <6>1, <6>2, <6>3, <1>1
        <5> QED
          BY <5>1, <5>2
      <4> QED
        BY <4>1, <4>2
    <3> QED
      BY <3>1, <3>2
  <2>2. LastHeld'
    <3> SUFFICES ASSUME NEW k \in DOMAIN outbox'
                 PROVE  /\ Tells(outbox'[k]) => Current(k)' \/ ToldLater(k)'
                        /\ outbox'[k].type = "payment_failed" => ToldLater(k)'
                        /\ outbox'[k].type = "checkout"
                             /\ stripe'[outbox'[k].of.sub].status = "canceled" =>
                           ToldLater(k)'
      BY DEF LastHeld, Tells
    <3>1. ASSUME outbox'[k].of.sub = s, k < Len(outbox) + m PROVE ToldLater(k)'
      <4>1. \E j \in DOMAIN outbox' :
              /\ k < j /\ outbox'[j].type \in {"updated", "deleted"}
              /\ outbox'[j].of.sub = outbox'[k].of.sub
        BY <3>1, <1>10
      <4> QED
        BY <4>1 DEF ToldLater, Tells
    <3>2. CASE k \in DOMAIN outbox /\ outbox'[k].of.sub = s
      <4>1. k < Len(outbox) + m
        BY <3>2, <1>3
      <4> QED
        BY <4>1, <3>1, <3>2
    <3>3. CASE k \in DOMAIN outbox /\ outbox'[k].of.sub # s
      <4>1. outbox'[k] = outbox[k] /\ stripe'[outbox[k].of.sub] = stripe[outbox[k].of.sub]
        BY <3>3, <1>1, <1>2, <1>5
      <4>2. Current(k) => Current(k)'
        BY <4>1 DEF Current, Snapshot
      <4>3. ToldLater(k) => ToldLater(k)'
        BY <3>3, <4>1, <1>1 DEF ToldLater, Tells
      <4> QED
        BY <3>3, <4>1, <4>2, <4>3, <2>0 DEF LastHeld
    <3>4. CASE k \notin DOMAIN outbox
      <4>1. PICK n \in DOMAIN types :
              /\ k = Len(outbox) + n
              /\ outbox'[k].type = types[n]
              /\ outbox'[k].of = [sub |-> s, status |-> status, plan |-> p]
        BY <3>4, <1>1
      <4>2. outbox'[k].of.sub = s /\ outbox'[k].of.status = status
        BY <4>1
      <4>3. outbox'[k].of = Snapshot(s)'
        BY <4>1, <1>2 DEF Snapshot
      <4>4. Tells(outbox'[k]) => Current(k)'
        BY <4>1, <4>2, <4>3 DEF SentWith, Current, Tells
      <4>5. outbox'[k].type = "payment_failed" => ToldLater(k)'
        <5>1. outbox'[k].type = "payment_failed" => k < Len(outbox) + m
          <6> SUFFICES ASSUME outbox'[k].type = "payment_failed"
                       PROVE  k < Len(outbox) + m
            OBVIOUS
          <6>1. n < m
            BY <4>1, <1>9
          <6>2. n \in Nat /\ m \in Nat /\ k = Len(outbox) + n
            BY <4>1, <1>3
          <6> QED
            BY <6>1, <6>2, <1>3
        <5> QED
          BY <5>1, <4>2, <3>1
      <4>6. outbox'[k].type = "checkout" => stripe'[outbox'[k].of.sub].status # "canceled"
        <5>1. types[n] = "checkout" => status # "canceled"
          BY DEF SentWith
        <5>2. stripe'[s].status = status
          BY <1>2
        <5> QED
          BY <4>1, <4>2, <5>1, <5>2
      <4> QED
        BY <4>4, <4>5, <4>6
    <3> QED
      BY <3>2, <3>3, <3>4
  <2>3. RowHeld'
    <3> SUFFICES ASSUME row.sub # NoSub PROVE Settled' \/ TellsOf(row.sub)'
      BY DEF RowHeld
    <3>0. row.sub \in Subs /\ row' = row
      BY <1>7 DEF Rows
    <3>1. CASE row.sub = s
      BY <3>0, <3>1, <1>11 DEF TellsOf
    <3>2. CASE row.sub # s
      <4>1. Settled => Settled'
        BY <3>0, <3>2, <1>2 DEF Settled
      <4>2. TellsOf(row.sub) => TellsOf(row.sub)'
        BY <3>0, <1>12 DEF TellsOf
      <4> QED
        BY <4>1, <4>2, <2>0 DEF RowHeld
    <3> QED
      BY <3>1, <3>2
  <2>4. FetchedHeld'
    <3> SUFFICES ASSUME fetched # Nothing
                 PROVE  /\ sweep = "idle" /\ outbox' # << >>
                        /\ outbox'[1].type = "checkout"
                        /\ fetched.sub = outbox'[1].of.sub /\ fetched.sub = row.sub
                        /\ \/ fetched = Snapshot(row.sub)' /\ fetched.status # "canceled"
                           \/ TellsOf(row.sub)'
      BY DEF FetchedHeld
    <3>0. /\ sweep = "idle" /\ outbox # << >> /\ outbox[1].type = "checkout"
          /\ fetched.sub = outbox[1].of.sub /\ fetched.sub = row.sub
          /\ \/ fetched = Snapshot(row.sub) /\ fetched.status # "canceled"
             \/ TellsOf(row.sub)
      BY <2>0 DEF FetchedHeld
    <3>1. 1 \in DOMAIN outbox
      BY <3>0, <1>0 DEF BillingTypes
    <3>2. row.sub \in Subs /\ row' = row
      BY <3>0, <3>1, <1>5
    <3>3. outbox'[1] = outbox[1] /\ outbox' # << >>
      BY <3>1, <1>1
    <3>4. CASE row.sub = s
      <4>1. TellsOf(row.sub)'
        BY <3>2, <3>4, <1>11 DEF TellsOf
      <4> QED
        BY <4>1, <3>0, <3>3
    <3>5. CASE row.sub # s
      <4>1. Snapshot(row.sub)' = Snapshot(row.sub)
        BY <3>2, <3>5, <1>2 DEF Snapshot
      <4>2. TellsOf(row.sub) => TellsOf(row.sub)'
        BY <3>2, <1>12 DEF TellsOf
      <4> QED
        BY <4>1, <4>2, <3>0, <3>3
    <3> QED
      BY <3>4, <3>5
  <2>5. SweepHeld'
    BY <2>0 DEF SweepHeld
  <2> QED
    BY <2>1, <2>2, <2>3, <2>4, <2>5 DEF OrderHeld
<1>14. OrderHeld'
  <2>1. OrderHeld
    BY DEF BillingInv
  <2>2. orderly' = orderly
    OBVIOUS
  <2>3. ~orderly => OrderHeld'
    BY <2>2 DEF OrderHeld
  <2> QED
    BY <2>1, <2>3, <1>13
<1> QED
  BY <1>4, <1>8, <1>14 DEF BillingInv

\* An event that is answered, whether or not it comes again.
LEMMA AnsweredHeld ==
  ASSUME BillingTypes, FirstHeld, LastHeld, NEW i \in DOMAIN outbox,
         Answered(i), stripe' = stripe,
         i = 1 \/ ~Tells(outbox[i]),
         row.sub \in {NoSub, row'.sub},
         outbox[i].type = "updated" => row'.sub = outbox[i].of.sub
  PROVE  /\ FirstHeld' /\ LastHeld'
         /\ \A s \in Subs :
              TellsOf(s) /\ ~(Tells(outbox[i]) /\ outbox[i].of.sub = s) => TellsOf(s)'
         /\ \A s \in Subs : ToldLater(i) /\ outbox[i].of.sub = s => TellsOf(s)'
<1>0. \A k \in DOMAIN outbox : outbox[k].of.sub \in Subs
  <2>1. \A k \in DOMAIN outbox : outbox[k] \in Events
    BY DEF BillingTypes
  <2> QED
    BY <2>1 DEF Events
<1>1. CASE outbox' = RemoveAt(outbox, i)
  BY <1>1, RemovedHeld
<1>2. CASE outbox' = outbox
  <2>1. FirstHeld'
    BY <1>0, <1>2, BillingAssumption DEF FirstHeld
  <2>2. LastHeld'
    BY <1>2 DEF LastHeld, Current, Snapshot, ToldLater, Tells
  <2>3. \A s \in Subs : TellsOf(s) => TellsOf(s)'
    BY <1>2 DEF TellsOf
  <2>4. \A s \in Subs : ToldLater(i) /\ outbox[i].of.sub = s => TellsOf(s)
    BY DEF ToldLater, TellsOf
  <2> QED
    BY <2>1, <2>2, <2>3, <2>4
<1> QED
  BY <1>1, <1>2 DEF Answered

LEMMA AnsweredKnown ==
  ASSUME BillingTypes, KnownHeld, NEW i \in DOMAIN outbox,
         Answered(i), stripe' = stripe,
         row.sub \in {NoSub, row'.sub},
         row'.sub # NoSub => stripe[row'.sub].status # "none",
         outbox[i].type = "updated" => row'.sub = outbox[i].of.sub,
         fetched' \in {fetched, Nothing}
  PROVE  KnownHeld' /\ outbox' \in Seq(Events)
<1>1. CASE outbox' = RemoveAt(outbox, i)
  <2>1. outbox' \in Seq(Events)
    BY <1>1, Removed DEF BillingTypes
  <2> QED
    BY <1>1, <2>1, RemovedKnown
<1>2. CASE outbox' = outbox
  <2>1. KnownHeld'
    BY <1>2, BillingAssumption DEF KnownHeld
  <2> QED
    BY <1>2, <2>1 DEF BillingTypes
<1> QED
  BY <1>1, <1>2 DEF Answered

\* A handler of event i that leaves the row settled, or told of again.
LEMMA HandledHeld ==
  ASSUME BillingInv, NEW i \in DOMAIN outbox, Answered(i), Handling(i),
         UNCHANGED <<stripe, sessions, fetched, sweep>>,
         row' \in Rows, plan' \in Plans,
         row'.sub = row.sub \/ (row.sub = NoSub /\ row'.sub = outbox[i].of.sub),
         outbox[i].type = "updated" => row'.sub = outbox[i].of.sub,
         orderly' => RowHeld'
  PROVE  BillingInv'
<1>0. BillingTypes /\ KnownHeld /\ OrderHeld
  BY DEF BillingInv
<1>1. row.sub \in {NoSub, row'.sub}
  OBVIOUS
<1>2. row'.sub # NoSub => stripe[row'.sub].status # "none"
  BY <1>0 DEF KnownHeld
<1>3. KnownHeld' /\ outbox' \in Seq(Events)
  BY <1>0, <1>1, <1>2, AnsweredKnown
<1>4. orderly' \in BOOLEAN
  <2>1. (orderly /\ i = 1 /\ fetched = Nothing /\ sweep = "idle") \in BOOLEAN
    OBVIOUS
  <2> QED
    BY <2>1, Zenon DEF Handling
<1>5. BillingTypes'
  BY <1>0, <1>3, <1>4 DEF BillingTypes
<1>6. ASSUME orderly' PROVE OrderHeld'
  <2>1. orderly /\ i = 1 /\ fetched = Nothing /\ sweep = "idle"
    BY <1>6, Zenon DEF Handling
  <2>2. FirstHeld /\ LastHeld
    BY <2>1, <1>0 DEF OrderHeld
  <2>3. FirstHeld' /\ LastHeld'
    BY <2>1, <2>2, <1>0, <1>1, AnsweredHeld
  <2>4. FetchedHeld'
    BY <2>1 DEF FetchedHeld
  <2>5. SweepHeld'
    BY <2>1 DEF SweepHeld
  <2> QED
    BY <2>3, <2>4, <2>5, <1>6 DEF OrderHeld
<1>7. OrderHeld'
  BY <1>6 DEF OrderHeld
<1> QED
  BY <1>3, <1>5, <1>7 DEF BillingInv

LEMMA Mapped ==
  ASSUME NEW status \in StripeStatuses \ {"none"}
  PROVE  /\ MapStatus[status] \in {"ACTIVE", "PAST_DUE", "UNPAID", "CANCELED"}
         /\ status = "active" => MapStatus[status] = "ACTIVE"
<1>1. /\ MapStatus.active = "ACTIVE" /\ MapStatus.past_due = "PAST_DUE"
      /\ MapStatus.unpaid = "UNPAID" /\ MapStatus.canceled = "CANCELED"
  BY DEF MapStatus
<1>2. status \in {"active", "past_due", "unpaid", "canceled"}
  BY DEF StripeStatuses
<1> QED
  BY <1>1, <1>2

\* What holds of the event a handler is given, and of the first of them.
LEMMA Given ==
  ASSUME BillingInv, NEW i \in DOMAIN outbox
  PROVE  /\ outbox[i] \in Events
         /\ outbox[i].of.sub \in Subs /\ outbox[i].of.plan \in Plans
         /\ outbox[i].of.status \in StripeStatuses \ {"none"}
         /\ stripe[outbox[i].of.sub].status # "none"
         /\ orderly /\ i = 1 /\ outbox[i].type # "updated" => outbox[i].of.sub = row.sub
         /\ orderly => /\ Tells(outbox[i]) => Current(i) \/ ToldLater(i)
                       /\ outbox[i].type = "payment_failed" => ToldLater(i)
                       /\ outbox[i].type = "checkout"
                            /\ stripe[outbox[i].of.sub].status = "canceled" =>
                          ToldLater(i)
<1>1. BillingTypes /\ KnownHeld /\ OrderHeld
  BY DEF BillingInv
<1>2. outbox[i] \in Events
  BY <1>1 DEF BillingTypes
<1>3. ASSUME orderly, i = 1, outbox[i].of.sub # row.sub
      PROVE  outbox[i].type = "updated"
  <2>1. PICK j \in DOMAIN outbox : j <= i /\ outbox[j].type = "updated"
    BY <1>1, <1>3 DEF OrderHeld, FirstHeld
  <2>2. j = 1
    BY <2>1, <1>1, <1>3 DEF BillingTypes
  <2> QED
    BY <2>1, <2>2, <1>3
<1>4. stripe[outbox[i].of.sub].status # "none"
  BY <1>1 DEF KnownHeld
<1>5. orderly => /\ Tells(outbox[i]) => Current(i) \/ ToldLater(i)
                 /\ outbox[i].type = "payment_failed" => ToldLater(i)
                 /\ outbox[i].type = "checkout"
                      /\ stripe[outbox[i].of.sub].status = "canceled" =>
                    ToldLater(i)
  BY <1>1 DEF OrderHeld, LastHeld
<1> QED
  BY <1>2, <1>3, <1>4, <1>5 DEF Events

LEMMA UpdatedHeld ==
  ASSUME BillingInv, NEW i \in DOMAIN outbox, SubscriptionUpdated(i)
  PROVE  BillingInv'
<1> DEFINE snap == outbox[i].of
<1>1. /\ outbox[i].type = "updated" /\ row.sub \in {NoSub, snap.sub}
      /\ row' = [sub |-> snap.sub, status |-> MapStatus[snap.status],
                 grace |-> row.grace]
      /\ plan' = snap.plan /\ Answered(i) /\ Handling(i)
      /\ UNCHANGED <<stripe, sessions, fetched, sweep>>
  BY DEF SubscriptionUpdated, Fits, Upsert
<1>2. /\ snap.sub \in Subs /\ snap.plan \in Plans
      /\ snap.status \in StripeStatuses \ {"none"}
      /\ orderly => Current(i) \/ ToldLater(i)
  BY <1>1, Given DEF Tells
<1>3. BillingTypes
  BY DEF BillingInv
<1>4. row' \in Rows
  BY <1>1, <1>2, <1>3, Mapped DEF Rows, BillingTypes
<1>5. ASSUME orderly' PROVE RowHeld'
  <2>1. orderly /\ i = 1
    BY <1>1, <1>5, Zenon DEF Handling
  <2>2. row'.sub = snap.sub /\ row'.status = MapStatus[snap.status]
    BY <1>1
  <2>3. FirstHeld /\ LastHeld
    BY <2>1 DEF BillingInv, OrderHeld
  <2>4. CASE Current(i)
    <3>1. snap = Snapshot(snap.sub) /\ snap.status # "canceled"
      BY <2>4, <1>1 DEF Current
    <3>2. /\ stripe[snap.sub].status = snap.status /\ stripe[snap.sub].plan = snap.plan
      BY <3>1 DEF Snapshot
    <3>3. Settled'
      BY <3>1, <3>2, <2>2, <1>1, <1>2, Mapped DEF Settled
    <3> QED
      BY <3>3 DEF RowHeld
  <2>5. CASE ToldLater(i)
    <3>1. \A s \in Subs : ToldLater(i) /\ outbox[i].of.sub = s => TellsOf(s)'
      BY <2>1, <2>2, <2>3, <1>1, <1>3, AnsweredHeld
    <3>2. \E k \in DOMAIN outbox' : Tells(outbox'[k]) /\ outbox'[k].of.sub = row'.sub
      BY <3>1, <2>5, <2>2, <1>2 DEF TellsOf, Tells
    <3> QED
      BY <3>2 DEF RowHeld, TellsOf, Tells
  <2> QED
    BY <2>1, <2>4, <2>5, <1>2
<1>6. row'.sub = row.sub \/ (row.sub = NoSub /\ row'.sub = outbox[i].of.sub)
  BY <1>1
<1>7. outbox[i].type = "updated" => row'.sub = outbox[i].of.sub
  BY <1>1
<1>8. plan' \in Plans
  BY <1>1, <1>2
<1>9. orderly' => RowHeld'
  BY <1>5
<1> QED
  BY <1>1, <1>4, <1>6, <1>7, <1>8, <1>9, HandledHeld

\* The other handlers keep the row's subscription.
LEMMA DeletedHeld ==
  ASSUME BillingInv, NEW i \in DOMAIN outbox, SubscriptionDeleted(i)
  PROVE  BillingInv'
<1>1. /\ outbox[i].type = "deleted" /\ plan' = "FREE" /\ Answered(i) /\ Handling(i)
      /\ UNCHANGED <<stripe, sessions, fetched, sweep>>
      /\ row' = IF row.sub = outbox[i].of.sub
                THEN [row EXCEPT !.status = "CANCELED"] ELSE row
  BY DEF SubscriptionDeleted
<1>2. BillingTypes /\ row \in Rows
  BY DEF BillingInv, BillingTypes
<1>3. row' \in Rows /\ row'.sub = row.sub
  BY <1>1, <1>2 DEF Rows
<1>4. ASSUME orderly' PROVE RowHeld'
  <2>1. orderly /\ i = 1
    BY <1>1, <1>4, Zenon DEF Handling
  <2>2. outbox[i].of.sub = row.sub /\ (Current(i) \/ ToldLater(i)) /\ row.sub \in Subs
    BY <2>1, <1>1, Given DEF Tells
  <2>3. FirstHeld /\ LastHeld
    BY <2>1 DEF BillingInv, OrderHeld
  <2>4. CASE Current(i)
    <3>1. outbox[i].of.status = "canceled" /\ outbox[i].of = Snapshot(row.sub)
      BY <2>2, <2>4, <1>1 DEF Current
    <3>2. stripe[row.sub].status = "canceled"
      BY <3>1 DEF Snapshot
    <3>3. Settled'
      BY <3>2, <1>1, <1>3 DEF Settled
    <3> QED
      BY <3>3 DEF RowHeld
  <2>5. CASE ToldLater(i)
    <3>1. \A s \in Subs : ToldLater(i) /\ outbox[i].of.sub = s => TellsOf(s)'
      BY <2>1, <2>3, <1>1, <1>2, <1>3, AnsweredHeld
    <3>2. \E k \in DOMAIN outbox' : Tells(outbox'[k]) /\ outbox'[k].of.sub = row'.sub
      BY <3>1, <2>5, <2>2, <1>3 DEF TellsOf, Tells
    <3> QED
      BY <3>2 DEF RowHeld, TellsOf, Tells
  <2> QED
    BY <2>2, <2>4, <2>5
<1>5. orderly' => RowHeld'
  BY <1>4
<1>6. plan' \in Plans
  BY <1>1 DEF Plans
<1> QED
  BY <1>1, <1>3, <1>5, <1>6, HandledHeld

LEMMA FailedHeld ==
  ASSUME BillingInv, NEW i \in DOMAIN outbox, PaymentFailed(i)
  PROVE  BillingInv'
<1>1. /\ outbox[i].type = "payment_failed" /\ plan' = plan /\ Answered(i) /\ Handling(i)
      /\ UNCHANGED <<stripe, sessions, fetched, sweep>>
      /\ row' = IF row.sub = outbox[i].of.sub
                THEN [row EXCEPT !.status = "PAST_DUE", !.grace = "ahead"] ELSE row
  BY DEF PaymentFailed
<1>2. BillingTypes /\ row \in Rows /\ plan' \in Plans
  BY <1>1 DEF BillingInv, BillingTypes
<1>3. row' \in Rows /\ row'.sub = row.sub
  BY <1>1, <1>2 DEF Rows
<1>4. ASSUME orderly' PROVE RowHeld'
  <2>1. orderly /\ i = 1
    BY <1>1, <1>4, Zenon DEF Handling
  <2>2. outbox[i].of.sub = row.sub /\ ToldLater(i) /\ row.sub \in Subs
    BY <2>1, <1>1, Given
  <2>3. FirstHeld /\ LastHeld
    BY <2>1 DEF BillingInv, OrderHeld
  <2>4. \A s \in Subs : ToldLater(i) /\ outbox[i].of.sub = s => TellsOf(s)'
    BY <2>1, <2>3, <1>1, <1>2, <1>3, AnsweredHeld
  <2>5. \E k \in DOMAIN outbox' : Tells(outbox'[k]) /\ outbox'[k].of.sub = row'.sub
    BY <2>4, <2>2, <1>3 DEF TellsOf, Tells
  <2> QED
    BY <2>5 DEF RowHeld, TellsOf, Tells
<1>5. orderly' => RowHeld'
  BY <1>4
<1> QED
  BY <1>1, <1>2, <1>3, <1>5, HandledHeld

\* A row that is settled, or told of, stays so when its status, the plan and
\* Stripe's subscriptions do, and no event that tells is answered.
LEMMA RowKept ==
  ASSUME BillingTypes, RowHeld, row'.sub = row.sub, row'.status = row.status,
         plan' = plan, stripe' = stripe,
         \A s \in Subs : TellsOf(s) => TellsOf(s)'
  PROVE  RowHeld'
<1> SUFFICES ASSUME row.sub # NoSub PROVE Settled' \/ TellsOf(row.sub)'
  BY DEF RowHeld
<1>1. row.sub \in Subs
  BY DEF BillingTypes, Rows
<1>2. Settled => Settled'
  BY DEF Settled
<1>3. ASSUME TellsOf(row.sub) PROVE TellsOf(row.sub)'
  <2>1. \E k \in DOMAIN outbox' : Tells(outbox'[k]) /\ outbox'[k].of.sub = row'.sub
    BY <1>1, <1>3 DEF TellsOf, Tells
  <2> QED
    BY <2>1 DEF TellsOf, Tells
<1> QED
  BY <1>2, <1>3 DEF RowHeld

LEMMA PaidHeld ==
  ASSUME BillingInv, NEW i \in DOMAIN outbox, InvoicePaid(i)
  PROVE  BillingInv'
<1>1. /\ outbox[i].type = "paid" /\ plan' = plan /\ Answered(i) /\ Handling(i)
      /\ UNCHANGED <<stripe, sessions, fetched, sweep>>
      /\ row' = IF row.sub = outbox[i].of.sub
                THEN [row EXCEPT !.grace = "null"] ELSE row
  BY DEF InvoicePaid
<1>2. BillingTypes /\ row \in Rows /\ plan' \in Plans
  BY <1>1 DEF BillingInv, BillingTypes
<1>3. row' \in Rows /\ row'.sub = row.sub /\ row'.status = row.status
  BY <1>1, <1>2 DEF Rows
<1>4. ASSUME orderly' PROVE RowHeld'
  <2>1. orderly /\ i = 1
    BY <1>1, <1>4, Zenon DEF Handling
  <2>2. FirstHeld /\ LastHeld /\ RowHeld
    BY <2>1 DEF BillingInv, OrderHeld
  <2>3. ~Tells(outbox[i])
    BY <1>1 DEF Tells
  <2>4. \A s \in Subs : TellsOf(s) => TellsOf(s)'
    BY <2>1, <2>2, <2>3, <1>1, <1>2, <1>3, AnsweredHeld
  <2> QED
    BY <2>2, <2>4, <1>1, <1>2, <1>3, RowKept
<1>5. orderly' => RowHeld'
  BY <1>4
<1> QED
  BY <1>1, <1>2, <1>3, <1>5, HandledHeld

LEMMA RetrieveHeld ==
  ASSUME BillingInv, NEW i \in DOMAIN outbox, CheckoutRetrieve(i)
  PROVE  BillingInv'
<1>1. /\ outbox[i].type = "checkout" /\ fetched = Nothing
      /\ fetched' = Snapshot(outbox[i].of.sub) /\ Handling(i)
      /\ UNCHANGED <<stripe, sessions, outbox, row, plan, sweep>>
  BY DEF CheckoutRetrieve
<1>2. BillingTypes /\ KnownHeld /\ OrderHeld
  BY DEF BillingInv
<1>3. outbox[i].of.sub \in Subs /\ stripe[outbox[i].of.sub].status # "none"
  BY Given
<1>4. /\ fetched'.sub = outbox[i].of.sub
      /\ fetched'.status = stripe[outbox[i].of.sub].status
      /\ fetched' \in Snapshots
  BY <1>1, <1>2, <1>3 DEF Snapshot, Snapshots, BillingTypes
<1>5. orderly' \in BOOLEAN
  <2>1. (orderly /\ i = 1 /\ fetched = Nothing /\ sweep = "idle") \in BOOLEAN
    OBVIOUS
  <2> QED
    BY <1>1, <2>1, Zenon DEF Handling
<1>6. BillingTypes'
  BY <1>1, <1>2, <1>4, <1>5 DEF BillingTypes
<1>7. KnownHeld'
  BY <1>1, <1>2, <1>3, <1>4 DEF KnownHeld
<1>8. ASSUME orderly' PROVE OrderHeld'
  <2>1. orderly /\ i = 1 /\ sweep = "idle"
    BY <1>1, <1>8, Zenon DEF Handling
  <2>2. FirstHeld /\ LastHeld /\ RowHeld
    BY <2>1, <1>2 DEF OrderHeld
  <2>3. FirstHeld' /\ LastHeld'
    BY <2>2, <1>1 DEF FirstHeld, LastHeld, Current, Snapshot, ToldLater
  <2>4. RowHeld'
    BY <2>2, <1>1 DEF RowHeld, Settled, TellsOf
  <2>5. outbox[i].of.sub = row.sub
    BY <2>1, <1>1, Given
  <2>6. stripe[row.sub].status = "canceled" => TellsOf(row.sub)
    <3>1. stripe[row.sub].status = "canceled" => ToldLater(i)
      BY <2>1, <2>5, <1>1, Given
    <3> QED
      BY <2>5, <3>1 DEF ToldLater, TellsOf
  <2>7. /\ fetched' = Snapshot(row.sub)'
        /\ TellsOf(row.sub) => TellsOf(row.sub)'
        /\ row' = row /\ outbox' = outbox /\ sweep' = "idle"
    BY <2>1, <2>5, <1>1 DEF Snapshot, TellsOf
  <2>8. \/ fetched' = Snapshot(row.sub)' /\ fetched'.status # "canceled"
        \/ TellsOf(row.sub)'
    BY <2>5, <2>6, <2>7, <1>4
  <2>9. outbox' # << >> /\ outbox'[1].type = "checkout" /\ fetched'.sub = outbox'[1].of.sub
    BY <2>1, <1>1, <1>4
  <2>10. FetchedHeld'
    BY <2>5, <2>7, <2>8, <2>9, <1>4 DEF FetchedHeld
  <2>11. SweepHeld'
    BY <2>1, <1>1 DEF SweepHeld
  <2> QED
    BY <2>3, <2>4, <2>10, <2>11 DEF OrderHeld
<1>9. OrderHeld'
  BY <1>8 DEF OrderHeld
<1> QED
  BY <1>6, <1>7, <1>9 DEF BillingInv

\* What was retrieved is written when its event is there to answer, and then it
\* is of the subscription that was retrieved.
LEMMA CheckoutHeld ==
  ASSUME BillingInv, CheckoutUpsert
  PROVE  BillingInv'
<1>1. /\ fetched # Nothing /\ fetched' = Nothing
      /\ UNCHANGED <<stripe, sessions, sweep>>
      /\ orderly' = (orderly /\ sweep = "idle")
  BY DEF CheckoutUpsert
<1>2. BillingTypes /\ KnownHeld /\ OrderHeld
  BY DEF BillingInv
<1>3. orderly' \in BOOLEAN
  <2>1. (orderly /\ sweep = "idle") \in BOOLEAN
    OBVIOUS
  <2> QED
    BY <1>1, <2>1, Zenon
<1>4. /\ fetched.sub \in Subs /\ fetched.plan \in Plans
      /\ fetched.status \in StripeStatuses \ {"none"}
      /\ stripe[fetched.sub].status # "none"
  BY <1>1, <1>2 DEF BillingTypes, KnownHeld, Snapshots
<1>5. FetchedHeld' /\ Nothing \in Snapshots \cup {Nothing}
  BY <1>1 DEF FetchedHeld
<1>6. CASE Fits(fetched)
  <2>1. /\ Upsert(fetched)
        /\ \E i \in DOMAIN outbox :
             /\ outbox[i].type = "checkout" /\ outbox[i].of.sub = fetched.sub
             /\ Answered(i)
    BY <1>6 DEF CheckoutUpsert
  <2>2. PICK i \in DOMAIN outbox :
          outbox[i].type = "checkout" /\ outbox[i].of.sub = fetched.sub /\ Answered(i)
    BY <2>1
  <2>3. /\ row' = [sub |-> fetched.sub, status |-> MapStatus[fetched.status],
                   grace |-> row.grace]
        /\ plan' = fetched.plan /\ row.sub \in {NoSub, fetched.sub}
    BY <2>1, <1>6 DEF Upsert, Fits
  <2>4. /\ row' \in Rows /\ row'.sub = fetched.sub
        /\ row'.status = MapStatus[fetched.status] /\ plan' \in Plans
    BY <2>3, <1>2, <1>4, Mapped DEF Rows, BillingTypes
  <2>5. row.sub \in {NoSub, row'.sub} /\ stripe[row'.sub].status # "none"
    BY <2>3, <2>4, <1>4
  <2>6. outbox[i].type = "updated" => row'.sub = outbox[i].of.sub
    BY <2>2
  <2>7. KnownHeld' /\ outbox' \in Seq(Events)
    BY <2>2, <2>5, <2>6, <1>1, <1>2, AnsweredKnown
  <2>8. BillingTypes'
    BY <2>4, <2>7, <1>1, <1>2, <1>3 DEF BillingTypes
  <2>9. ASSUME orderly' PROVE OrderHeld'
    <3>1. orderly /\ sweep = "idle"
      BY <1>1, <2>9, Zenon
    <3>2. /\ FirstHeld /\ LastHeld /\ fetched.sub = row.sub
          /\ \/ fetched = Snapshot(row.sub) /\ fetched.status # "canceled"
             \/ TellsOf(row.sub)
      BY <3>1, <1>1, <1>2 DEF OrderHeld, FetchedHeld
    <3>3. ~Tells(outbox[i])
      BY <2>2 DEF Tells
    <3>4. /\ FirstHeld' /\ LastHeld'
          /\ \A s \in Subs : TellsOf(s) => TellsOf(s)'
      BY <3>2, <3>3, <2>2, <2>5, <2>6, <1>1, <1>2, AnsweredHeld
    <3>5. RowHeld'
      <4>1. CASE fetched = Snapshot(row.sub) /\ fetched.status # "canceled"
        <5>1. /\ stripe[row.sub].status = fetched.status
              /\ stripe[row.sub].plan = fetched.plan
          BY <4>1 DEF Snapshot
        <5>2. Settled'
          BY <5>1, <4>1, <3>2, <2>3, <2>4, <1>1, <1>4, Mapped DEF Settled
        <5> QED
          BY <5>2 DEF RowHeld
      <4>2. CASE TellsOf(row.sub)
        <5>1. \E k \in DOMAIN outbox' : Tells(outbox'[k]) /\ outbox'[k].of.sub = row'.sub
          BY <4>2, <3>2, <3>4, <2>4, <1>4 DEF TellsOf, Tells
        <5> QED
          BY <5>1 DEF RowHeld, TellsOf, Tells
      <4> QED
        BY <3>2, <4>1, <4>2
    <3>6. SweepHeld'
      BY <3>1, <1>1 DEF SweepHeld
    <3> QED
      BY <3>4, <3>5, <3>6, <1>5 DEF OrderHeld
  <2>10. OrderHeld'
    BY <2>9 DEF OrderHeld
  <2> QED
    BY <2>7, <2>8, <2>10 DEF BillingInv
<1>7. CASE ~Fits(fetched)
  <2>1. row' = row /\ plan' = plan /\ outbox' = outbox
    BY <1>7 DEF CheckoutUpsert
  <2>2. BillingTypes'
    BY <2>1, <1>1, <1>2, <1>3 DEF BillingTypes
  <2>3. KnownHeld'
    BY <2>1, <1>1, <1>2 DEF KnownHeld
  <2>4. ASSUME orderly' PROVE OrderHeld'
    <3>1. orderly /\ sweep = "idle"
      BY <1>1, <2>4, Zenon
    <3>2. FirstHeld /\ LastHeld /\ RowHeld
      BY <3>1, <1>2 DEF OrderHeld
    <3>3. FirstHeld' /\ LastHeld'
      BY <3>2, <2>1, <1>1 DEF FirstHeld, LastHeld, Current, Snapshot, ToldLater
    <3>4. RowHeld'
      BY <3>2, <2>1, <1>1 DEF RowHeld, Settled, TellsOf
    <3>5. SweepHeld'
      BY <3>1, <1>1 DEF SweepHeld
    <3> QED
      BY <3>3, <3>4, <3>5, <1>5 DEF OrderHeld
  <2>5. OrderHeld'
    BY <2>4 DEF OrderHeld
  <2> QED
    BY <2>2, <2>3, <2>5 DEF BillingInv
<1> QED
  BY <1>6, <1>7

\* A step that leaves Stripe, its events and the row's status alone.
LEMMA QuietHeld ==
  ASSUME BillingInv, UNCHANGED <<stripe, outbox, fetched>>,
         sessions' \subseteq Paid, row' \in Rows, plan' \in Plans,
         row'.sub = row.sub, row'.status = row.status,
         orderly' \in BOOLEAN,
         orderly' => /\ orderly
                     /\ plan' = plan \/ (plan' = "FREE" /\ row.status # "ACTIVE")
                     /\ fetched # Nothing => sweep' = "idle"
                     /\ SweepHeld'
  PROVE  BillingInv'
<1>1. BillingTypes /\ KnownHeld /\ OrderHeld
  BY DEF BillingInv
<1>2. BillingTypes'
  BY <1>1 DEF BillingTypes
<1>3. KnownHeld'
  BY <1>1 DEF KnownHeld
<1>4. ASSUME orderly' PROVE OrderHeld'
  <2>1. FirstHeld /\ LastHeld /\ RowHeld /\ FetchedHeld
    BY <1>1, <1>4 DEF OrderHeld
  <2>2. FirstHeld' /\ LastHeld'
    BY <2>1 DEF FirstHeld, LastHeld, Current, Snapshot, ToldLater
  <2>3. Settled => Settled'
    BY <1>4 DEF Settled
  <2>4. RowHeld'
    BY <2>1, <2>3 DEF RowHeld, TellsOf
  <2>5. FetchedHeld'
    BY <2>1, <1>4 DEF FetchedHeld, Snapshot, TellsOf
  <2> QED
    BY <2>2, <2>4, <2>5, <1>4 DEF OrderHeld
<1>5. OrderHeld'
  BY <1>4 DEF OrderHeld
<1> QED
  BY <1>2, <1>3, <1>5 DEF BillingInv

LEMMA SentWithThese ==
  ASSUME NEW s \in Subs, NEW status \in StripeStatuses \ {"none"}
  PROVE  /\ SentWith(s, "active", <<"updated", "checkout", "paid">>)
         /\ stripe[s].status # "none" =>
              /\ SentWith(s, "past_due", <<"payment_failed", "updated">>)
              /\ SentWith(s, "active", <<"paid", "updated">>)
              /\ status # "canceled" => SentWith(s, status, <<"updated">>)
              /\ SentWith(s, "canceled", <<"deleted">>)
<1>1. SentWith(s, "active", <<"updated", "checkout", "paid">>)
  <2> DEFINE types == <<"updated", "checkout", "paid">>
  <2>1. /\ types \in Seq(EventTypes) /\ DOMAIN types = {1, 2, 3}
        /\ types[1] = "updated" /\ types[2] = "checkout" /\ types[3] = "paid"
    BY DEF EventTypes
  <2> HIDE DEF types
  <2> QED
    BY <2>1 DEF SentWith
<1>2. ASSUME stripe[s].status # "none"
      PROVE  SentWith(s, "past_due", <<"payment_failed", "updated">>)
  <2> DEFINE types == <<"payment_failed", "updated">>
  <2>1. /\ types \in Seq(EventTypes) /\ DOMAIN types = {1, 2}
        /\ types[1] = "payment_failed" /\ types[2] = "updated"
    BY DEF EventTypes
  <2> HIDE DEF types
  <2> QED
    BY <2>1, <1>2 DEF SentWith
<1>3. ASSUME stripe[s].status # "none"
      PROVE  SentWith(s, "active", <<"paid", "updated">>)
  <2> DEFINE types == <<"paid", "updated">>
  <2>1. /\ types \in Seq(EventTypes) /\ DOMAIN types = {1, 2}
        /\ types[1] = "paid" /\ types[2] = "updated"
    BY DEF EventTypes
  <2> HIDE DEF types
  <2> QED
    BY <2>1, <1>3 DEF SentWith
<1>4. ASSUME stripe[s].status # "none", status # "canceled"
      PROVE  SentWith(s, status, <<"updated">>)
  <2> DEFINE types == <<"updated">>
  <2>1. types \in Seq(EventTypes) /\ DOMAIN types = {1} /\ types[1] = "updated"
    BY DEF EventTypes
  <2> HIDE DEF types
  <2> QED
    BY <2>1, <1>4 DEF SentWith
<1>5. ASSUME stripe[s].status # "none"
      PROVE  SentWith(s, "canceled", <<"deleted">>)
  <2> DEFINE types == <<"deleted">>
  <2>1. types \in Seq(EventTypes) /\ DOMAIN types = {1} /\ types[1] = "deleted"
    BY DEF EventTypes
  <2> HIDE DEF types
  <2> QED
    BY <2>1, <1>5 DEF SentWith
<1> QED
  BY <1>1, <1>2, <1>3, <1>4, <1>5

LEMMA StripeHeld ==
  ASSUME BillingInv, Stripe
  PROVE  BillingInv'
<1>0. BillingTypes
  BY DEF BillingInv
<1>1. PICK s \in Subs :
        \/ \E p \in Paid : CompleteCheckout(s, p)
        \/ PaymentFails(s) \/ PaymentSucceeds(s) \/ GiveUp(s) \/ Cancel(s)
  BY DEF Stripe
<1>2. stripe[s].plan \in Plans /\ sessions \subseteq Paid /\ Paid \subseteq Plans
  BY <1>0 DEF BillingTypes, Plans
<1>3. {"active", "past_due", "unpaid", "canceled"} = StripeStatuses \ {"none"}
  BY DEF StripeStatuses
<1>4. CASE \E p \in Paid : CompleteCheckout(s, p)
  <2>1. PICK p \in Paid : CompleteCheckout(s, p)
    BY <1>4
  <2>2. /\ Change(s, "active", p, <<"updated", "checkout", "paid">>)
        /\ sessions' \subseteq Paid /\ UNCHANGED <<fetched, row, plan, sweep, orderly>>
    BY <2>1, <1>2 DEF CompleteCheckout
  <2>3. SentWith(s, "active", <<"updated", "checkout", "paid">>)
    BY <1>3, SentWithThese
  <2> QED
    BY <2>2, <2>3, <1>2, <1>3, ChangeHeld
<1>5. CASE PaymentFails(s)
  <2>1. /\ Change(s, "past_due", stripe[s].plan, <<"payment_failed", "updated">>)
        /\ sessions' \subseteq Paid /\ UNCHANGED <<fetched, row, plan, sweep, orderly>>
        /\ stripe[s].status # "none"
    BY <1>5, <1>2 DEF PaymentFails
  <2>2. SentWith(s, "past_due", <<"payment_failed", "updated">>)
    BY <2>1, <1>3, SentWithThese
  <2> QED
    BY <2>1, <2>2, <1>2, <1>3, ChangeHeld
<1>6. CASE PaymentSucceeds(s)
  <2>1. /\ Change(s, "active", stripe[s].plan, <<"paid", "updated">>)
        /\ sessions' \subseteq Paid /\ UNCHANGED <<fetched, row, plan, sweep, orderly>>
        /\ stripe[s].status # "none"
    BY <1>6, <1>2 DEF PaymentSucceeds
  <2>2. SentWith(s, "active", <<"paid", "updated">>)
    BY <2>1, <1>3, SentWithThese
  <2> QED
    BY <2>1, <2>2, <1>2, <1>3, ChangeHeld
<1>7. CASE GiveUp(s)
  <2>1. /\ Change(s, "unpaid", stripe[s].plan, <<"updated">>)
        /\ sessions' \subseteq Paid /\ UNCHANGED <<fetched, row, plan, sweep, orderly>>
        /\ stripe[s].status # "none"
    BY <1>7, <1>2 DEF GiveUp
  <2>2. SentWith(s, "unpaid", <<"updated">>)
    BY <2>1, <1>3, SentWithThese
  <2> QED
    BY <2>1, <2>2, <1>2, <1>3, ChangeHeld
<1>8. CASE Cancel(s)
  <2>1. /\ Change(s, "canceled", stripe[s].plan, <<"deleted">>)
        /\ sessions' \subseteq Paid /\ UNCHANGED <<fetched, row, plan, sweep, orderly>>
        /\ stripe[s].status # "none"
    BY <1>8, <1>2 DEF Cancel
  <2>2. SentWith(s, "canceled", <<"deleted">>)
    BY <2>1, <1>3, SentWithThese
  <2> QED
    BY <2>1, <2>2, <1>2, <1>3, ChangeHeld
<1> QED
  BY <1>1, <1>4, <1>5, <1>6, <1>7, <1>8

LEMMA UpgradeHeld ==
  ASSUME BillingInv, Upgrade
  PROVE  BillingInv'
<1>0. BillingTypes /\ OrderHeld
  BY DEF BillingInv
<1>1. PICK p \in Paid : SwitchPrice(p) \/ OpenCheckout(p)
  BY DEF Upgrade
<1>2. CASE SwitchPrice(p)
  <2> DEFINE status == stripe[row.sub].status
  <2>1. /\ row.sub # NoSub /\ status \in {"active", "past_due", "unpaid"}
        /\ Change(row.sub, status, p, <<"updated">>)
        /\ UNCHANGED <<sessions, fetched, row, plan, sweep, orderly>>
    BY <1>2 DEF SwitchPrice
  <2>2. /\ row.sub \in Subs /\ p \in Plans /\ sessions' \subseteq Paid
        /\ status \in StripeStatuses \ {"none"}
    BY <2>1, <1>0 DEF BillingTypes, Rows, Plans, StripeStatuses
  <2>3. status # "none" /\ status # "canceled"
    BY <2>1
  <2> HIDE DEF status
  <2>4. stripe[row.sub].status # "none"
    BY <2>3 DEF status
  <2>5. SentWith(row.sub, status, <<"updated">>)
    BY <2>2, <2>3, <2>4, SentWithThese
  <2> QED
    BY <2>1, <2>2, <2>5, ChangeHeld
<1>3. CASE OpenCheckout(p)
  <2>1. /\ sessions' \subseteq Paid
        /\ UNCHANGED <<stripe, outbox, fetched, row, plan, sweep, changes, orderly>>
    BY <1>0, <1>3 DEF OpenCheckout, BillingTypes
  <2>2. row' \in Rows /\ plan' \in Plans /\ orderly' \in BOOLEAN
    BY <2>1, <1>0 DEF BillingTypes
  <2>3. orderly' => /\ orderly
                    /\ plan' = plan \/ (plan' = "FREE" /\ row.status # "ACTIVE")
                    /\ fetched # Nothing => sweep' = "idle"
                    /\ SweepHeld'
    BY <2>1, <1>0 DEF OrderHeld, FetchedHeld, SweepHeld
  <2> QED
    BY <2>1, <2>2, <2>3, QuietHeld
<1> QED
  BY <1>1, <1>2, <1>3

\* The sweep takes the plan only of a row that was not active when it looked.
LEMMA SweepStepHeld ==
  ASSUME BillingInv, Sweep \/ SweepDies \/ GraceElapses
  PROVE  BillingInv'
<1>0. BillingTypes /\ OrderHeld /\ row \in Rows
  BY DEF BillingInv, BillingTypes
<1>1. CASE SweepRead
  <2>1. /\ row.status # "ACTIVE" /\ sweep = "idle" /\ sweep' = "plan"
        /\ orderly' = (orderly /\ fetched = Nothing)
        /\ UNCHANGED <<stripe, sessions, outbox, fetched, row, plan>>
    BY <1>1 DEF SweepRead, Lapsed
  <2>2. (orderly /\ fetched = Nothing) \in BOOLEAN
    OBVIOUS
  <2>3. orderly' \in BOOLEAN
    BY <2>1, <2>2, Zenon
  <2>4. orderly' => orderly /\ fetched = Nothing
    BY <2>1, Zenon
  <2>5. SweepHeld'
    BY <2>1 DEF SweepHeld
  <2>6. sessions' \subseteq Paid /\ row' \in Rows /\ plan' \in Plans
    BY <2>1, <1>0 DEF BillingTypes
  <2> QED
    BY <2>1, <2>3, <2>4, <2>5, <2>6, QuietHeld
<1>2. CASE SweepPlan
  <2>1. /\ sweep = "plan" /\ plan' = "FREE" /\ sweep' = "grace"
        /\ UNCHANGED <<stripe, sessions, outbox, fetched, row, orderly>>
    BY <1>2 DEF SweepPlan
  <2>2. orderly => row.status # "ACTIVE" /\ fetched = Nothing
    BY <2>1, <1>0 DEF OrderHeld, SweepHeld, FetchedHeld
  <2>3. SweepHeld'
    BY <2>1 DEF SweepHeld
  <2>4. /\ sessions' \subseteq Paid /\ row' \in Rows /\ plan' \in Plans
        /\ orderly' \in BOOLEAN
    BY <2>1, <1>0 DEF BillingTypes, Plans
  <2> QED
    BY <2>1, <2>2, <2>3, <2>4, QuietHeld
<1>3. CASE SweepGrace
  <2>1. /\ row' = [row EXCEPT !.grace = "null"] /\ sweep' = "idle"
        /\ UNCHANGED <<stripe, sessions, outbox, fetched, plan, orderly>>
    BY <1>3 DEF SweepGrace
  <2>2. row' \in Rows /\ row'.sub = row.sub /\ row'.status = row.status
    BY <2>1, <1>0 DEF Rows
  <2>3. SweepHeld'
    BY <2>1 DEF SweepHeld
  <2>4. sessions' \subseteq Paid /\ plan' \in Plans /\ orderly' \in BOOLEAN
    BY <2>1, <1>0 DEF BillingTypes
  <2> QED
    BY <2>1, <2>2, <2>3, <2>4, QuietHeld
<1>4. CASE SweepDies
  <2>1. /\ sweep' = "idle"
        /\ UNCHANGED <<stripe, sessions, outbox, fetched, row, plan, orderly>>
    BY <1>4 DEF SweepDies
  <2>2. SweepHeld'
    BY <2>1 DEF SweepHeld
  <2>3. /\ sessions' \subseteq Paid /\ row' \in Rows /\ plan' \in Plans
        /\ orderly' \in BOOLEAN
    BY <2>1, <1>0 DEF BillingTypes
  <2> QED
    BY <2>1, <2>2, <2>3, QuietHeld
<1>5. CASE GraceElapses
  <2>1. /\ row' = [row EXCEPT !.grace = "past"]
        /\ UNCHANGED <<stripe, sessions, outbox, fetched, plan, sweep, orderly>>
    BY <1>5 DEF GraceElapses
  <2>2. row' \in Rows /\ row'.sub = row.sub /\ row'.status = row.status
    BY <2>1, <1>0 DEF Rows
  <2>3. orderly => SweepHeld' /\ (fetched # Nothing => sweep' = "idle")
    BY <2>1, <2>2, <1>0 DEF OrderHeld, SweepHeld, FetchedHeld
  <2>4. sessions' \subseteq Paid /\ plan' \in Plans /\ orderly' \in BOOLEAN
    BY <2>1, <1>0 DEF BillingTypes
  <2> QED
    BY <2>1, <2>2, <2>3, <2>4, QuietHeld
<1> QED
  BY <1>1, <1>2, <1>3, <1>4, <1>5 DEF Sweep

LEMMA NextBilling == BillingInv /\ [BillingNext]_billingVars => BillingInv'
<1> SUFFICES ASSUME BillingInv, [BillingNext]_billingVars PROVE BillingInv'
  OBVIOUS
<1>1. CASE Stripe
  BY <1>1, StripeHeld
<1>2. CASE Upgrade
  BY <1>2, UpgradeHeld
<1>3. ASSUME NEW i \in DOMAIN outbox, Webhook(i) PROVE BillingInv'
  BY <1>3, UpdatedHeld, DeletedHeld, FailedHeld, PaidHeld, RetrieveHeld DEF Webhook
<1>4. CASE CheckoutUpsert
  BY <1>4, CheckoutHeld
<1>5. CASE Sweep \/ SweepDies \/ GraceElapses
  BY <1>5, SweepStepHeld
<1>6. CASE UNCHANGED billingVars
  <2>1. /\ UNCHANGED <<stripe, sessions, outbox, fetched, row, plan, sweep, orderly>>
        /\ BillingTypes /\ OrderHeld
    BY <1>6 DEF billingVars, BillingInv
  <2>2. orderly => SweepHeld' /\ (fetched # Nothing => sweep' = "idle")
    BY <2>1 DEF OrderHeld, SweepHeld, FetchedHeld
  <2>3. /\ sessions' \subseteq Paid /\ row' \in Rows /\ plan' \in Plans
        /\ orderly' \in BOOLEAN
    BY <2>1 DEF BillingTypes
  <2> QED
    BY <2>1, <2>2, <2>3, QuietHeld
<1> QED
  BY <1>1, <1>2, <1>3, <1>4, <1>5, <1>6 DEF BillingNext

\* The invariant of the plan: whatever Stripe sells, however often its events
\* come again, every subscription is known or will be, and while events are
\* handled in order the last that tells of the row's subscription tells the truth
\* (upsertSubscription, the webhook and the billing sweep).
THEOREM PlanHolds == BillingSpec => []BillingInv
  BY InitBilling, NextBilling, PTL DEF BillingSpec

\* Once every event was handled in order, one at a time, the user has exactly the
\* plan Stripe is paid for (checkQuota's effective plan).
THEOREM PlanIsPaid == BillingSpec => []PaysForPlan
<1>1. BillingInv => PaysForPlan
  <2> SUFFICES ASSUME BillingInv, orderly, outbox = << >>, fetched = Nothing
               PROVE  /\ \A s \in Subs :
                           stripe[s].status = "active" => EffectivePlan = stripe[s].plan
                      /\ (\A s \in Subs : stripe[s].status \in {"none", "canceled"}) =>
                           EffectivePlan = "FREE"
    BY DEF PaysForPlan
  <2>1. BillingTypes /\ KnownHeld /\ RowHeld
    BY DEF BillingInv, OrderHeld
  <2>2. DOMAIN outbox = {}
    OBVIOUS
  <2>3. \A s \in Subs : stripe[s].status # "none" => row.sub = s
    BY <2>1, <2>2 DEF KnownHeld
  <2>4. row.sub # NoSub => Settled /\ row.sub \in Subs /\ stripe[row.sub].status # "none"
    BY <2>1, <2>2 DEF RowHeld, TellsOf, BillingTypes, Rows, KnownHeld
  <2>5. ASSUME NEW s \in Subs, stripe[s].status = "active"
        PROVE  EffectivePlan = stripe[s].plan
    <3>1. row.sub = s /\ row.sub # NoSub
      BY <2>3, <2>5, BillingAssumption
    <3> QED
      BY <3>1, <2>4, <2>5 DEF Settled, EffectivePlan
  <2>6. ASSUME \A s \in Subs : stripe[s].status \in {"none", "canceled"}
        PROVE  EffectivePlan = "FREE"
    BY <2>4, <2>6 DEF Settled, EffectivePlan
  <2> QED
    BY <2>5, <2>6
<1> QED
  BY <1>1, PlanHolds, PTL

\* Type correctness of Stripe's side, the rows and the sweep.
THEOREM PlanTypes == BillingSpec => []BillingTypeOK
<1> DEFINE Counts == sweep \in {"idle", "plan", "grace"} /\ changes \in 0..MaxChanges
<1>1. BillingInit => Counts
  BY BillingAssumption DEF BillingInit
<1>2. Counts /\ [BillingNext]_billingVars => Counts'
  <2> SUFFICES ASSUME Counts, [BillingNext]_billingVars PROVE Counts'
    OBVIOUS
  <2>1. \A s, status, p, types : Change(s, status, p, types) => changes' \in 0..MaxChanges
    BY BillingAssumption DEF Change
  <2>2. CASE Stripe
    BY <2>1, <2>2 DEF Stripe, CompleteCheckout, PaymentFails, PaymentSucceeds, GiveUp,
                      Cancel
  <2>3. CASE Upgrade
    BY <2>1, <2>3 DEF Upgrade, SwitchPrice, OpenCheckout
  <2>4. CASE (\E i \in DOMAIN outbox : Webhook(i)) \/ CheckoutUpsert
    BY <2>4 DEF Webhook, SubscriptionUpdated, SubscriptionDeleted, PaymentFailed,
                InvoicePaid, CheckoutRetrieve, CheckoutUpsert
  <2>5. CASE Sweep \/ SweepDies \/ GraceElapses \/ UNCHANGED billingVars
    BY <2>5 DEF Sweep, SweepRead, SweepPlan, SweepGrace, SweepDies, GraceElapses,
                billingVars
  <2> QED
    BY <2>2, <2>3, <2>4, <2>5 DEF BillingNext
<1>3. BillingInv /\ Counts => BillingTypeOK
  <2> SUFFICES ASSUME BillingTypes, Counts PROVE BillingTypeOK
    BY DEF BillingInv
  <2>1. \A i \in DOMAIN outbox : outbox[i] \in [type : EventTypes, of : Snapshots]
    <3>1. \A i \in DOMAIN outbox : outbox[i] \in Events
      BY DEF BillingTypes
    <3> QED
      BY <3>1 DEF Events, Snapshots
  <2> QED
    BY <2>1 DEF BillingTypes, BillingTypeOK
<1> HIDE DEF Counts
<1> QED
  BY <1>1, <1>2, <1>3, PlanHolds, PTL DEF BillingSpec

-----------------------------------------------------------------------------
\* The rate limiter's fallback.

LimitTypes ==
  /\ now \in Nat /\ restarted \in Int /\ restarted <= now
  /\ DOMAIN buckets \subseteq BucketKeys
  /\ \A x \in DOMAIN buckets :
       buckets[x].tokens \in 0..Full(x) /\ buckets[x].at \in 0..now
  /\ passed \in [BucketKeys -> Seq(Nat)]
  /\ \A k \in BucketKeys : \A i \in DOMAIN passed[k] : passed[k][i] <= now
  /\ forgotten \in [BucketKeys -> Int]

\* What was let through, and what could be now.
BudgetHeld ==
  \A k \in BucketKeys : \A time \in 0..now :
    time > restarted /\ (Slow(k) => time > forgotten[k]) =>
      Cardinality(Since(k, time)) * Part + Level(k) <= Full(k) + (now - time) * Refill[k]

\* A bucket that nothing was taken from has filled up meanwhile.
FilledUp ==
  \A k \in BucketKeys : \A time \in 0..now :
    Since(k, time) = {} => Level(k) = Full(k) \/ Level(k) >= (now - time) * Refill[k]

LimitInv == LimitTypes /\ BudgetHeld /\ FilledUp

LEMMA Times ==
  ASSUME NEW a \in Nat, NEW b \in Nat
  PROVE  a * b \in Nat /\ (a + 1) * b = a * b + b
  OBVIOUS

LEMMA TimesMore ==
  ASSUME NEW a \in Nat, NEW b \in Nat, NEW c \in Nat, a <= b
  PROVE  a * c <= b * c
  OBVIOUS

LEMMA RatesAre ==
  ASSUME NEW k \in BucketKeys
  PROVE  /\ Capacity[k] \in Nat /\ Refill[k] \in Nat /\ Part \in Nat \ {0}
         /\ Full(k) \in Nat /\ Full(k) >= Part
  <1>1. /\ Capacity[k] \in Nat /\ Capacity[k] >= 1 /\ Refill[k] \in Nat
        /\ Part \in Nat /\ Part >= 1
    BY LimitAssumption
  <1> DEFINE c == Capacity[k]
             p == Part
  <1>2. c \in Nat /\ c >= 1 /\ p \in Nat /\ p >= 1
    BY <1>1
  <1> HIDE DEF c, p
  <1>3. c * p \in Nat /\ c * p >= p
    BY <1>2
  <1> QED
    BY <1>1, <1>3 DEF Full, c, p

\* The level of a bucket, some time after it was looked at.
LEMMA RefilledIs ==
  ASSUME LimitTypes, NEW x \in DOMAIN buckets
  PROVE  /\ x \in BucketKeys /\ Refilled(x, buckets[x]) \in 0..Full(x)
         /\ Refilled(x, buckets[x]) >= buckets[x].tokens
  <1> DEFINE t == buckets[x].tokens
             d == now - buckets[x].at
             r == Refill[x]
             f == Full(x)
  <1>1. x \in BucketKeys /\ t \in 0..f /\ d \in Nat
    BY DEF LimitTypes
  <1>2. r \in Nat /\ f \in Nat
    BY <1>1, RatesAre
  <1>3. Refilled(x, buckets[x]) = IF t + d * r > f THEN f ELSE t + d * r
    BY DEF Refilled
  <1> HIDE DEF t, d, r, f
  <1>4. d * r \in Nat
    BY <1>1, <1>2, Times
  <1> DEFINE m == d * r
  <1>5. m \in Nat /\ Refilled(x, buckets[x]) = IF t + m > f THEN f ELSE t + m
    BY <1>3, <1>4
  <1> HIDE DEF m
  <1>6. Refilled(x, buckets[x]) \in 0..f /\ Refilled(x, buckets[x]) >= t
    BY <1>1, <1>2, <1>5
  <1> QED
    BY <1>1, <1>6 DEF f, t

LEMMA LevelIs ==
  ASSUME LimitTypes, NEW k \in BucketKeys
  PROVE  Level(k) \in 0..Full(k)
  <1>1. CASE k \in DOMAIN buckets
    BY <1>1, RefilledIs DEF Level
  <1>2. CASE k \notin DOMAIN buckets
    BY <1>2, RatesAre DEF Level
  <1> QED
    BY <1>1, <1>2

\* While time stands still a bucket that is not touched has the level it had, and
\* the one that is put has that level.
LEMMA PutIs ==
  ASSUME LimitTypes, NEW k \in BucketKeys, NEW l \in 0..Full(k), NEW old,
         UNCHANGED now, NEW map, map = Put(k, l), k \notin old,
         buckets' = [x \in DOMAIN map \ old |-> map[x]]
  PROVE  /\ Level(k)' = l
         /\ \A x \in BucketKeys \ {k} : Level(x)' = IF x \in old THEN Full(x) ELSE Level(x)
         /\ DOMAIN buckets' \subseteq BucketKeys
         /\ \A x \in DOMAIN buckets' :
              buckets'[x].tokens \in 0..Full(x) /\ buckets'[x].at \in 0..now
  <1>1. /\ now \in Nat /\ DOMAIN buckets \subseteq BucketKeys
        /\ \A x \in DOMAIN buckets :
             buckets[x].tokens \in 0..Full(x) /\ buckets[x].at \in 0..now
    BY DEF LimitTypes
  <1>2. map = [x \in DOMAIN buckets \cup {k} |->
                 IF x = k THEN [tokens |-> l, at |-> now] ELSE buckets[x]]
    BY DEF Put
  <1>3. /\ DOMAIN map = DOMAIN buckets \cup {k} /\ map[k] = [tokens |-> l, at |-> now]
        /\ \A x \in DOMAIN buckets \ {k} : map[x] = buckets[x]
    BY <1>2
  <1>4. /\ DOMAIN buckets' = DOMAIN map \ old /\ k \in DOMAIN buckets'
        /\ buckets'[k] = [tokens |-> l, at |-> now]
        /\ \A x \in DOMAIN buckets' \ {k} : x \in DOMAIN buckets /\ buckets'[x] = buckets[x]
    BY <1>3
  <1>5. buckets'[k].tokens = l /\ buckets'[k].at = now
    BY <1>4
  <1>6. Level(k)' = l
    <2> DEFINE f == Full(k)
               r == Refill[k]
    <2>1. Level(k)' = IF l + (now - now) * r > f THEN f ELSE l + (now - now) * r
      BY <1>4, <1>5 DEF Level, Refilled, Full
    <2>2. r \in Nat /\ f \in Nat
      BY RatesAre
    <2>3. (now - now) * r = 0
      <3>1. now - now = 0
        BY <1>1
      <3> HIDE DEF r
      <3> QED
        BY <2>2, <3>1
    <2> HIDE DEF r, f
    <2>4. l \in 0..f
      BY DEF f
    <2> QED
      BY <2>1, <2>2, <2>3, <2>4
  <1>7. ASSUME NEW x \in BucketKeys \ {k}
        PROVE  Level(x)' = IF x \in old THEN Full(x) ELSE Level(x)
    <2>1. CASE x \in DOMAIN buckets'
      <3>1. x \in DOMAIN buckets /\ x \notin old /\ buckets'[x] = buckets[x]
        BY <1>4, <2>1
      <3> QED
        BY <2>1, <3>1 DEF Level, Refilled, Full
    <2>2. CASE x \notin DOMAIN buckets'
      <3>1. x \in old \/ x \notin DOMAIN buckets
        BY <1>3, <1>4, <2>2
      <3>2. Level(x)' = Full(x)
        BY <2>2 DEF Level, Full
      <3> QED
        BY <3>1, <3>2 DEF Level
    <2> QED
      BY <2>1, <2>2
  <1>8. ASSUME NEW x \in DOMAIN buckets'
        PROVE  buckets'[x].tokens \in 0..Full(x) /\ buckets'[x].at \in 0..now
    BY <1>1, <1>4, <1>5, <1>8
  <1> QED
    BY <1>1, <1>4, <1>6, <1>7, <1>8

\* The requests since a time are finitely many, and one more when one passes.
LEMMA SinceIs ==
  ASSUME LimitTypes, NEW k \in BucketKeys, NEW time \in Nat
  PROVE  IsFiniteSet(Since(k, time)) /\ Cardinality(Since(k, time)) \in Nat
  <1> DEFINE n == Len(passed[k])
  <1>1. n \in Nat /\ DOMAIN passed[k] = 1..n
    BY DEF LimitTypes
  <1> HIDE DEF n
  <1>2. IsFiniteSet(1..n)
    <2>1. 1 \in Int /\ n \in Int
      BY <1>1
    <2> QED
      BY <2>1, FS_Interval, Zenon
  <1>3. Since(k, time) \subseteq 1..n
    BY <1>1 DEF Since
  <1>4. IsFiniteSet(Since(k, time))
    BY <1>2, <1>3, FS_Subset
  <1> QED
    BY <1>4, FS_CardinalityType

LEMMA SinceGrows ==
  ASSUME LimitTypes, NEW k \in BucketKeys, NEW time \in 0..now,
         passed' = [passed EXCEPT ![k] = Append(@, now)]
  PROVE  /\ Cardinality(Since(k, time)') = Cardinality(Since(k, time)) + 1
         /\ Since(k, time)' # {}
  <1> DEFINE s == passed[k]
             n == Len(s)
             S == Since(k, time)
  <1>1. s \in Seq(Nat) /\ n \in Nat /\ DOMAIN s = 1..n /\ now \in Nat
        /\ passed'[k] = Append(s, now)
    BY DEF LimitTypes
  <1>2. S = {i \in 1..n : s[i] >= time}
    BY <1>1 DEF Since
  <1>3. Since(k, time)' = {i \in DOMAIN Append(s, now) : Append(s, now)[i] >= time}
    BY <1>1 DEF Since
  <1> DEFINE a == Append(s, now)
  <1>4. DOMAIN a = 1..(n + 1) /\ a[n + 1] = now /\ \A i \in 1..n : a[i] = s[i]
    BY <1>1
  <1>5. IsFiniteSet(S)
    BY SinceIs
  <1> HIDE DEF s, n, a
  <1>6. {i \in 1..(n + 1) : a[i] >= time} = {i \in 1..n : s[i] >= time} \cup {n + 1}
    BY <1>1, <1>4
  <1>7. Since(k, time)' = S \cup {n + 1}
    BY <1>2, <1>3, <1>4, <1>6 DEF a
  <1>8. n + 1 \notin S
    BY <1>1, <1>2
  <1> HIDE DEF S
  <1>9. Cardinality(S \cup {n + 1}) = Cardinality(S) + 1
    BY <1>5, <1>8, FS_AddElement
  <1> QED
    BY <1>7, <1>9 DEF S

LEMMA LimitAtFirst ==
  ASSUME LimitInit
  PROVE  LimitInv
  <1>1. /\ now = 0 /\ DOMAIN buckets = {} /\ restarted = -1
        /\ passed = [k \in BucketKeys |-> <<>>] /\ forgotten = [k \in BucketKeys |-> -1]
    BY DEF LimitInit
  <1>2. LimitTypes
    BY <1>1 DEF LimitTypes
  <1>3. \A k \in BucketKeys : Level(k) = Full(k) /\ DOMAIN passed[k] = {}
    BY <1>1 DEF Level
  <1>4. \A k \in BucketKeys : \A time \in 0..now : Since(k, time) = {} /\ time = 0
    BY <1>1, <1>3 DEF Since
  <1>5. FilledUp
    BY <1>3 DEF FilledUp
  <1>6. BudgetHeld
    <2>1. SUFFICES ASSUME NEW k \in BucketKeys, NEW time \in 0..now
                   PROVE  Cardinality(Since(k, time)) * Part + Level(k)
                            <= Full(k) + (now - time) * Refill[k]
      BY DEF BudgetHeld
    <2>a. Since(k, time) = {} /\ time = 0
      BY <1>4
    <2>b. Cardinality(Since(k, time)) = 0
      BY <2>a, FS_EmptySet, Zenon
    <2>2. Cardinality(Since(k, time)) = 0 /\ now - time = 0
      BY <1>1, <2>a, <2>b
    <2> DEFINE p == Part
               f == Full(k)
               r == Refill[k]
               l == Level(k)
    <2>3. p \in Nat /\ f \in Nat /\ r \in Nat /\ l = f
      BY <1>3, RatesAre
    <2> HIDE DEF p, f, r, l
    <2>4. 0 * p + l <= f + 0 * r
      BY <2>3
    <2> QED
      BY <2>2, <2>4 DEF p, f, r, l
  <1> QED
    BY <1>2, <1>5, <1>6 DEF LimitInv

LEMMA AllowKeeps ==
  ASSUME LimitInv, NEW k \in BucketKeys, Allow(k)
  PROVE  LimitInv'
  <1> DEFINE l == Level(k) - Part
  <1>1. LimitTypes /\ BudgetHeld /\ FilledUp
    BY DEF LimitInv
  <1>2. /\ Level(k) >= Part /\ buckets' = Put(k, l)
        /\ passed' = [passed EXCEPT ![k] = Append(@, now)]
        /\ UNCHANGED <<now, forgotten, restarted>>
    BY DEF Allow
  <1>3. l \in 0..Full(k)
    BY <1>1, <1>2, LevelIs, RatesAre
  <1>4. Put(k, l) = [x \in DOMAIN Put(k, l) \ {} |-> Put(k, l)[x]]
    BY DEF Put
  <1> HIDE DEF l
  <1>5. /\ Level(k)' = l /\ \A x \in BucketKeys \ {k} : Level(x)' = Level(x)
        /\ DOMAIN buckets' \subseteq BucketKeys
        /\ \A x \in DOMAIN buckets' :
             buckets'[x].tokens \in 0..Full(x) /\ buckets'[x].at \in 0..now
    <2> DEFINE map == Put(k, l)
               old == {}
    <2>1. map = Put(k, l) /\ k \notin old /\ UNCHANGED now
          /\ buckets' = [x \in DOMAIN map \ old |-> map[x]]
      BY <1>2, <1>4
    <2> HIDE DEF map, old
    <2>2. /\ Level(k)' = l
          /\ \A x \in BucketKeys \ {k} :
               Level(x)' = IF x \in old THEN Full(x) ELSE Level(x)
          /\ DOMAIN buckets' \subseteq BucketKeys
          /\ \A x \in DOMAIN buckets' :
               buckets'[x].tokens \in 0..Full(x) /\ buckets'[x].at \in 0..now
      BY <1>1, <1>3, <2>1, PutIs
    <2> QED
      BY <2>2 DEF old
  <1>6. LimitTypes'
    <2>1. /\ now \in Nat /\ passed \in [BucketKeys -> Seq(Nat)]
          /\ \A x \in BucketKeys : \A i \in DOMAIN passed[x] : passed[x][i] <= now
      BY <1>1 DEF LimitTypes
    <2> DEFINE s == passed[k]
    <2>2. /\ s \in Seq(Nat) /\ Append(s, now) \in Seq(Nat)
          /\ \A i \in DOMAIN Append(s, now) : Append(s, now)[i] <= now
      BY <2>1
    <2>3. passed' \in [BucketKeys -> Seq(Nat)]
      BY <1>2, <2>1, <2>2
    <2>4. \A x \in BucketKeys : \A i \in DOMAIN passed'[x] : passed'[x][i] <= now
      BY <1>2, <2>1, <2>2
    <2> QED
      BY <1>1, <1>2, <1>5, <2>3, <2>4 DEF LimitTypes, Full
  <1>7. \A x \in BucketKeys \ {k} : \A time \in 0..now : Since(x, time)' = Since(x, time)
    BY <1>1, <1>2 DEF Since, LimitTypes
  <1>8. \A time \in 0..now : /\ Cardinality(Since(k, time)') = Cardinality(Since(k, time)) + 1
                             /\ Since(k, time)' # {}
    BY <1>1, <1>2, SinceGrows
  <1>9. FilledUp'
    <2>1. SUFFICES ASSUME NEW x \in BucketKeys, NEW time \in 0..now, Since(x, time)' = {}
                   PROVE  Level(x)' = Full(x) \/ Level(x)' >= (now - time) * Refill[x]
      BY <1>2 DEF FilledUp, Full
    <2>2. x # k
      BY <1>8, <2>1
    <2> QED
      BY <1>1, <1>5, <1>7, <2>1, <2>2 DEF FilledUp
  <1>10. BudgetHeld'
    <2>1. SUFFICES ASSUME NEW x \in BucketKeys, NEW time \in 0..now,
                          time > restarted, Slow(x) => time > forgotten[x]
                   PROVE  Cardinality(Since(x, time)') * Part + Level(x)'
                            <= Full(x) + (now - time) * Refill[x]
      BY <1>2 DEF BudgetHeld, Full, Slow
    <2>2. Cardinality(Since(x, time)) * Part + Level(x)
            <= Full(x) + (now - time) * Refill[x]
      BY <1>1, <2>1 DEF BudgetHeld
    <2>3. CASE x # k
      BY <1>5, <1>7, <2>2, <2>3
    <2>4. CASE x = k
      <3> DEFINE c == Cardinality(Since(k, time))
                 b == Full(k) + (now - time) * Refill[k]
                 p == Part
                 v == Level(k)
      <3>1. c \in Nat /\ p \in Nat /\ v \in Nat
        <4>1. time \in Nat
          BY <1>1 DEF LimitTypes
        <4> QED
          BY <1>1, <4>1, SinceIs, LevelIs, RatesAre
      <3>2. c * p + v <= b
        BY <2>2, <2>4
      <3>3. Cardinality(Since(k, time)') = c + 1 /\ Level(k)' = v - p
        BY <1>5, <1>8 DEF l
      <3>b. b \in Int
        <4> DEFINE d == now - time
                   r == Refill[k]
                   f == Full(k)
        <4>1. d \in Nat /\ r \in Nat /\ f \in Nat
          BY <1>1, RatesAre DEF LimitTypes
        <4> HIDE DEF d, r, f
        <4>2. f + d * r \in Int
          BY <4>1, Times
        <4> QED
          BY <4>2 DEF d, r, f
      <3> HIDE DEF c, b, p, v
      <3>4. (c + 1) * p = c * p + p /\ c * p \in Nat
        BY <3>1, Times
      <3>5. (c + 1) * p + (v - p) <= b
        <4> DEFINE m == c * p
        <4>1. m \in Nat /\ m + v <= b /\ (c + 1) * p = m + p
          BY <3>2, <3>4
        <4> HIDE DEF m
        <4> QED
          BY <3>1, <3>b, <4>1
      <3> QED
        BY <2>4, <3>3, <3>5 DEF b, p
    <2> QED
      BY <2>3, <2>4
  <1> QED
    BY <1>6, <1>9, <1>10 DEF LimitInv

\* A bucket older than MaxAge is full again, unless its limiter is a slow one.
LEMMA OldIsFull ==
  ASSUME LimitTypes, NEW x \in DOMAIN buckets, buckets[x].at < now - MaxAge,
         ~ Slow(x)
  PROVE  Level(x) = Full(x)
  <1> DEFINE t == buckets[x].tokens
             d == now - buckets[x].at
             r == Refill[x]
             f == Full(x)
             a == MaxAge
  <1>1. x \in BucketKeys /\ t \in 0..f /\ d \in Nat /\ a \in Nat /\ a <= d
    BY LimitAssumption DEF LimitTypes
  <1>2. r \in Nat /\ f \in Nat
    BY <1>1, RatesAre
  <1>3. Level(x) = IF t + d * r > f THEN f ELSE t + d * r
    BY DEF Level, Refilled
  <1>4. ~ (f > a * r)
    BY DEF Slow
  <1> HIDE DEF t, d, r, f, a
  <1>5. d * r \in Nat /\ a * r \in Nat /\ a * r <= d * r
    BY <1>1, <1>2, Times, TimesMore
  <1> DEFINE m == d * r
             o == a * r
  <1>6. m \in Nat /\ o \in Nat /\ o <= m /\ ~ (f > o)
        /\ Level(x) = IF t + m > f THEN f ELSE t + m
    BY <1>3, <1>4, <1>5
  <1> HIDE DEF m, o
  <1>7. Level(x) = f
    BY <1>1, <1>2, <1>6
  <1> QED
    BY <1>7 DEF f

LEMMA ThrottleKeeps ==
  ASSUME LimitInv, NEW k \in BucketKeys, Throttle(k)
  PROVE  LimitInv'
  <1> DEFINE map == Put(k, Level(k))
             old == IF Cardinality(DOMAIN map) > PruneAbove THEN Old(map) ELSE {}
  <1>1. LimitTypes /\ BudgetHeld /\ FilledUp
    BY DEF LimitInv
  <1>2. /\ buckets' = [x \in DOMAIN map \ old |-> map[x]]
        /\ forgotten' = [x \in BucketKeys |->
                           IF x \in old /\ Level(x) < Full(x) THEN now ELSE forgotten[x]]
        /\ UNCHANGED <<now, passed, restarted>>
    BY DEF Throttle
  <1>3. Level(k) \in 0..Full(k)
    BY <1>1, LevelIs
  <1>t. now \in Nat /\ MaxAge \in Nat /\ DOMAIN buckets \subseteq BucketKeys
    BY <1>1, LimitAssumption DEF LimitTypes
  <1>m. /\ DOMAIN map = DOMAIN buckets \cup {k} /\ map[k].at = now
        /\ \A x \in DOMAIN buckets \ {k} : map[x] = buckets[x]
    BY DEF Put
  <1>o. \A x \in old : x \in DOMAIN map /\ map[x].at < now - MaxAge
    BY DEF Old
  <1>4. k \notin old
    BY <1>t, <1>m, <1>o
  <1>5. \A x \in old : /\ x \in DOMAIN buckets /\ x \in BucketKeys
                       /\ buckets[x].at < now - MaxAge
    BY <1>t, <1>m, <1>o, <1>4
  <1>p. map = Put(k, Level(k))
    OBVIOUS
  <1> HIDE DEF map, old
  <1>6. /\ \A x \in BucketKeys : Level(x)' = IF x \in old THEN Full(x) ELSE Level(x)
        /\ DOMAIN buckets' \subseteq BucketKeys
        /\ \A x \in DOMAIN buckets' :
             buckets'[x].tokens \in 0..Full(x) /\ buckets'[x].at \in 0..now
    <2> DEFINE l == Level(k)
    <2>1. l \in 0..Full(k) /\ map = Put(k, l) /\ UNCHANGED now
      BY <1>2, <1>3, <1>p
    <2> HIDE DEF l
    <2>2. /\ Level(k)' = l
          /\ \A x \in BucketKeys \ {k} :
               Level(x)' = IF x \in old THEN Full(x) ELSE Level(x)
          /\ DOMAIN buckets' \subseteq BucketKeys
          /\ \A x \in DOMAIN buckets' :
               buckets'[x].tokens \in 0..Full(x) /\ buckets'[x].at \in 0..now
      BY <1>1, <1>2, <1>4, <2>1, PutIs
    <2> QED
      BY <1>4, <2>2 DEF l
  <1>7. LimitTypes'
    <2>1. forgotten' \in [BucketKeys -> Int]
      BY <1>1, <1>2 DEF LimitTypes
    <2>2. /\ now' = now /\ passed' = passed /\ restarted' = restarted
          /\ now \in Nat /\ restarted \in Int /\ restarted <= now
          /\ passed \in [BucketKeys -> Seq(Nat)]
          /\ \A x \in BucketKeys : \A i \in DOMAIN passed[x] : passed[x][i] <= now
      BY <1>1, <1>2 DEF LimitTypes
    <2> QED
      BY <1>6, <2>1, <2>2 DEF LimitTypes, Full
  <1>8. \A x \in BucketKeys : \A time \in 0..now : Since(x, time)' = Since(x, time)
    BY <1>2 DEF Since
  <1>9. FilledUp'
    <2>1. SUFFICES ASSUME NEW x \in BucketKeys, NEW time \in 0..now, Since(x, time)' = {}
                   PROVE  Level(x)' = Full(x) \/ Level(x)' >= (now - time) * Refill[x]
      BY <1>2 DEF FilledUp, Full
    <2>2. Level(x) = Full(x) \/ Level(x) >= (now - time) * Refill[x]
      BY <1>1, <1>8, <2>1 DEF FilledUp
    <2> QED
      BY <1>6, <2>2
  <1>10. BudgetHeld'
    <2>1. SUFFICES ASSUME NEW x \in BucketKeys, NEW time \in 0..now,
                          time > restarted, Slow(x) => time > forgotten'[x]
                   PROVE  Cardinality(Since(x, time)) * Part + Level(x)'
                            <= Full(x) + (now - time) * Refill[x]
      BY <1>2, <1>8 DEF BudgetHeld, Full, Slow
    <2>2. Level(x)' = Level(x)
      <3>1. CASE x \notin old
        BY <1>6, <3>1
      <3>2. CASE x \in old /\ Level(x) = Full(x)
        BY <1>6, <3>2
      <3>3. CASE x \in old /\ Level(x) # Full(x)
        <4>1. Level(x) < Full(x)
          BY <1>1, <3>3, LevelIs, RatesAre
        <4>2. forgotten'[x] = now
          BY <1>2, <3>3, <4>1
        <4>3. ~ Slow(x)
          BY <1>t, <2>1, <4>2
        <4> QED
          BY <1>1, <1>5, <3>3, <4>3, OldIsFull
      <3> QED
        BY <3>1, <3>2, <3>3
    <2>3. Slow(x) => time > forgotten[x]
      <3>1. forgotten'[x] = now \/ forgotten'[x] = forgotten[x]
        BY <1>2
      <3>2. now \in Nat /\ time <= now
        BY <1>t
      <3> QED
        BY <2>1, <3>1, <3>2
    <2>4. Cardinality(Since(x, time)) * Part + Level(x)
            <= Full(x) + (now - time) * Refill[x]
      BY <1>1, <2>1, <2>3 DEF BudgetHeld
    <2> QED
      BY <2>2, <2>4
  <1> QED
    BY <1>7, <1>9, <1>10 DEF LimitInv

\* A tick adds the refill to a bucket, or fills it.
LEMMA TickFills ==
  ASSUME LimitTypes, NEW k \in BucketKeys, now' = now + 1, UNCHANGED buckets
  PROVE  /\ Level(k)' \in 0..Full(k) /\ Level(k)' <= Level(k) + Refill[k]
         /\ Level(k)' = Full(k) \/ Level(k)' = Level(k) + Refill[k]
  <1>1. CASE k \notin DOMAIN buckets
    <2>1. Level(k)' = Full(k) /\ Level(k) = Full(k)
      BY <1>1 DEF Level, Full
    <2> QED
      BY <2>1, RatesAre
  <1>2. CASE k \in DOMAIN buckets
    <2> DEFINE t == buckets[k].tokens
               d == now - buckets[k].at
               e == (now + 1) - buckets[k].at
               r == Refill[k]
               f == Full(k)
    <2>1. t \in 0..f /\ d \in Nat /\ e = d + 1
      BY <1>2 DEF LimitTypes
    <2>2. r \in Nat /\ f \in Nat
      BY RatesAre
    <2>3. /\ Level(k) = IF t + d * r > f THEN f ELSE t + d * r
          /\ Level(k)' = IF t + e * r > f THEN f ELSE t + e * r
      BY <1>2 DEF Level, Refilled, Full
    <2> HIDE DEF t, d, e, r, f
    <2>4. d * r \in Nat /\ e * r = d * r + r
      BY <2>1, <2>2, Times
    <2> DEFINE m == d * r
               o == e * r
    <2>5. /\ m \in Nat /\ o = m + r
          /\ Level(k) = IF t + m > f THEN f ELSE t + m
          /\ Level(k)' = IF t + o > f THEN f ELSE t + o
      BY <2>3, <2>4
    <2> HIDE DEF m, o
    <2>6. /\ Level(k)' \in 0..f /\ Level(k)' <= Level(k) + r
          /\ Level(k)' = f \/ Level(k)' = Level(k) + r
      BY <2>1, <2>2, <2>5
    <2> QED
      BY <2>6 DEF r, f
  <1> QED
    BY <1>1, <1>2

\* A span that is one tick longer has one refill more.
LEMMA LongerSpan ==
  ASSUME NEW k \in BucketKeys, NEW n \in Nat, NEW time \in 0..n
  PROVE  /\ (n - time) * Refill[k] \in Nat
         /\ ((n + 1) - time) * Refill[k] = (n - time) * Refill[k] + Refill[k]
  <1> DEFINE d == n - time
             e == (n + 1) - time
             r == Refill[k]
  <1>1. d \in Nat /\ e = d + 1 /\ r \in Nat
    BY RatesAre
  <1> HIDE DEF d, e, r
  <1>2. d * r \in Nat /\ e * r = d * r + r
    BY <1>1, Times
  <1> QED
    BY <1>2 DEF d, e, r

\* In no time there is no refill, and what holds is that the bucket is not over-full.
LEMMA EmptySpan ==
  ASSUME NEW k \in BucketKeys, NEW n \in Int, NEW l \in 0..Full(k), NEW S, S = {}
  PROVE  /\ (n - n) * Refill[k] = 0
         /\ Cardinality(S) * Part + l <= Full(k) + (n - n) * Refill[k]
  <1> DEFINE r == Refill[k]
             f == Full(k)
             p == Part
             c == Cardinality(S)
             d == n - n
  <1>1. d = 0 /\ r \in Nat /\ f \in Nat /\ p \in Nat /\ l \in 0..f
    BY RatesAre
  <1>2. c = 0
    BY FS_EmptySet, Zenon
  <1> HIDE DEF r, f, p, c, d
  <1>3. d * r = 0 /\ c * p = 0
    BY <1>1, <1>2
  <1>4. c * p + l <= f + d * r
    BY <1>1, <1>3
  <1> QED
    BY <1>3, <1>4 DEF r, f, p, c, d

LEMMA TickKeeps ==
  ASSUME LimitInv, Tick
  PROVE  LimitInv'
  <1>1. LimitTypes /\ BudgetHeld /\ FilledUp
    BY DEF LimitInv
  <1>2. now' = now + 1 /\ UNCHANGED <<buckets, passed, forgotten, restarted>>
    BY DEF Tick
  <1>3. /\ now \in Nat /\ restarted \in Int /\ restarted <= now
        /\ DOMAIN buckets \subseteq BucketKeys
        /\ \A x \in DOMAIN buckets :
             buckets[x].tokens \in 0..Full(x) /\ buckets[x].at \in 0..now
        /\ passed \in [BucketKeys -> Seq(Nat)]
        /\ \A x \in BucketKeys : \A i \in DOMAIN passed[x] : passed[x][i] <= now
        /\ forgotten \in [BucketKeys -> Int]
    BY <1>1 DEF LimitTypes
  <1>4. LimitTypes'
    <2>1. \A x \in DOMAIN buckets :
            buckets[x].tokens \in 0..Full(x) /\ buckets[x].at \in 0..(now + 1)
      BY <1>3
    <2>2. \A x \in BucketKeys : \A i \in DOMAIN passed[x] : passed[x][i] <= now + 1
      BY <1>3
    <2>3. now + 1 \in Nat /\ restarted <= now + 1
      BY <1>3
    <2> QED
      BY <1>2, <1>3, <2>1, <2>2, <2>3 DEF LimitTypes, Full
  <1>5. \A x \in BucketKeys : \A time \in 0..(now + 1) : Since(x, time)' = Since(x, time)
    BY <1>2 DEF Since
  <1>6. \A x \in BucketKeys : Since(x, now + 1) = {}
    BY <1>3 DEF Since
  <1>7. \A x \in BucketKeys :
          /\ Level(x)' \in 0..Full(x) /\ Level(x) \in 0..Full(x)
          /\ Level(x)' <= Level(x) + Refill[x]
          /\ Level(x)' = Full(x) \/ Level(x)' = Level(x) + Refill[x]
    BY <1>1, <1>2, LevelIs, TickFills
  <1>8. \A time \in 0..now' : time \in 0..now \/ time = now + 1
    BY <1>2, <1>3
  <1>9. FilledUp'
    <2>1. SUFFICES ASSUME NEW x \in BucketKeys, NEW time \in 0..now', Since(x, time) = {}
                   PROVE  \/ Level(x)' = Full(x)
                          \/ Level(x)' >= ((now + 1) - time) * Refill[x]
      BY <1>2, <1>5 DEF FilledUp, Full
    <2>2. CASE time = now + 1
      <3> DEFINE S == Since(x, time)
                 n == now + 1
                 l == Level(x)'
      <3>0. S = {} /\ n \in Int /\ l \in 0..Full(x)
        BY <1>3, <1>6, <1>7, <2>2
      <3> HIDE DEF S, n, l
      <3>z. (n - n) * Refill[x] = 0
        BY <3>0, EmptySpan
      <3>1. ((now + 1) - (now + 1)) * Refill[x] = 0
        BY <3>z DEF n
      <3> QED
        BY <1>7, <2>2, <3>1
    <2>3. CASE time \in 0..now
      <3> DEFINE m == (now - time) * Refill[x]
                 o == ((now + 1) - time) * Refill[x]
                 r == Refill[x]
      <3>1. Level(x) = Full(x) \/ Level(x) >= m
        BY <1>1, <2>1, <2>3 DEF FilledUp
      <3>2. m \in Nat /\ o = m + r
        BY <1>3, <2>3, LongerSpan
      <3>3. r \in Nat /\ Full(x) \in Nat
        BY RatesAre
      <3>4. Level(x)' = Full(x) \/ Level(x)' = Level(x) + r
        BY <1>7
      <3>5. Level(x)' \in 0..Full(x) /\ Level(x) \in 0..Full(x)
        BY <1>7
      <3> HIDE DEF m, o, r
      <3>6. Level(x)' = Full(x) \/ Level(x)' >= o
        BY <3>1, <3>2, <3>3, <3>4, <3>5
      <3> QED
        BY <3>6 DEF o
    <2> QED
      BY <1>8, <2>2, <2>3
  <1>10. BudgetHeld'
    <2>1. SUFFICES ASSUME NEW x \in BucketKeys, NEW time \in 0..now',
                          time > restarted, Slow(x) => time > forgotten[x]
                   PROVE  Cardinality(Since(x, time)) * Part + Level(x)'
                            <= Full(x) + ((now + 1) - time) * Refill[x]
      BY <1>2, <1>5 DEF BudgetHeld, Full, Slow
    <2>2. CASE time = now + 1
      <3>1. Since(x, time) = {} /\ now + 1 \in Int /\ Level(x)' \in 0..Full(x)
        BY <1>3, <1>6, <1>7, <2>2
      <3> QED
        BY <2>2, <3>1, EmptySpan
    <2>3. CASE time \in 0..now
      <3> DEFINE m == (now - time) * Refill[x]
                 o == ((now + 1) - time) * Refill[x]
                 r == Refill[x]
                 c == Cardinality(Since(x, time)) * Part
                 f == Full(x)
      <3>1. c + Level(x) <= f + m
        BY <1>1, <2>1, <2>3 DEF BudgetHeld
      <3>2. m \in Nat /\ o = m + r
        BY <1>3, <2>3, LongerSpan
      <3>3. r \in Nat /\ f \in Nat
        BY RatesAre
      <3>4. Level(x)' <= Level(x) + r
        BY <1>7
      <3>5. Level(x)' \in 0..f /\ Level(x) \in 0..f
        BY <1>7
      <3>6. c \in Nat
        <4>1. time \in Nat
          BY <1>3, <2>3
        <4>2. Cardinality(Since(x, time)) \in Nat /\ Part \in Nat
          BY <1>1, <4>1, SinceIs, RatesAre
        <4> QED
          BY <4>2, Times
      <3> HIDE DEF m, o, r, c, f
      <3>7. c + Level(x)' <= f + o
        BY <3>1, <3>2, <3>3, <3>4, <3>5, <3>6
      <3> QED
        BY <3>7 DEF c, f, o
    <2> QED
      BY <1>8, <2>2, <2>3
  <1> QED
    BY <1>4, <1>9, <1>10 DEF LimitInv

LEMMA RestartKeeps ==
  ASSUME LimitInv, Restart
  PROVE  LimitInv'
  <1>1. LimitTypes
    BY DEF LimitInv
  <1>2. /\ restarted' = now /\ DOMAIN buckets' = {}
        /\ UNCHANGED <<now, passed, forgotten>> /\ now \in Nat
    BY <1>1 DEF Restart, LimitTypes
  <1>3. LimitTypes'
    BY <1>1, <1>2 DEF LimitTypes, Full
  <1>4. \A x \in BucketKeys : Level(x)' = Full(x)
    BY <1>2 DEF Level, Full
  <1>5. FilledUp'
    BY <1>4 DEF FilledUp, Full
  <1>6. BudgetHeld'
    <2>1. \A time \in 0..now' : ~ (time > restarted')
      BY <1>2
    <2> QED
      BY <2>1 DEF BudgetHeld
  <1> QED
    BY <1>3, <1>5, <1>6 DEF LimitInv

\* What is known of the buckets and of what they let through holds of every run, for
\* all limiters.
THEOREM LimitHolds == LimitSpec => []LimitInv
  <1>1. LimitInit => LimitInv
    BY LimitAtFirst
  <1>2. LimitInv /\ [LimitNext]_limitVars => LimitInv'
    <2>1. SUFFICES ASSUME LimitInv, [LimitNext]_limitVars
                   PROVE  LimitInv'
      OBVIOUS
    <2>2. ASSUME NEW k \in BucketKeys, Allow(k) \/ Throttle(k)
          PROVE  LimitInv'
      BY <2>1, <2>2, AllowKeeps, ThrottleKeeps
    <2>3. CASE Tick \/ Restart
      BY <2>1, <2>3, TickKeeps, RestartKeeps
    <2>4. CASE UNCHANGED limitVars
      BY <2>1, <2>4 DEF limitVars, LimitInv, LimitTypes, BudgetHeld, FilledUp, Since,
                        Level, Refilled, Full, Slow
    <2> QED
      BY <2>1, <2>2, <2>3, <2>4 DEF LimitNext
  <1> QED
    BY <1>1, <1>2, PTL DEF LimitSpec

\* No more is let through than is due.
LEMMA BudgetNow ==
  ASSUME LimitInv
  PROVE  WithinBudget
  <1>1. SUFFICES ASSUME NEW k \in BucketKeys, NEW time \in 0..now,
                        time > restarted, Slow(k) => time > forgotten[k]
                 PROVE  Cardinality(Since(k, time)) * Part
                          <= Full(k) + (now - time) * Refill[k]
    BY DEF WithinBudget
  <1> DEFINE c == Cardinality(Since(k, time)) * Part
             b == Full(k) + (now - time) * Refill[k]
             l == Level(k)
  <1>2. c + l <= b
    BY <1>1 DEF LimitInv, BudgetHeld
  <1>3. now \in Nat /\ time \in Nat
    BY <1>1 DEF LimitInv, LimitTypes
  <1>4. l \in Nat
    BY <1>1, LevelIs, RatesAre DEF LimitInv
  <1>5. c \in Nat
    <2>1. Cardinality(Since(k, time)) \in Nat /\ Part \in Nat
      BY <1>1, <1>3, SinceIs, RatesAre DEF LimitInv
    <2> QED
      BY <2>1, Times
  <1>6. b \in Int
    <2> DEFINE m == (now - time) * Refill[k]
    <2>1. m \in Nat /\ Full(k) \in Nat
      BY <1>1, <1>3, LongerSpan, RatesAre
    <2> HIDE DEF m
    <2>2. Full(k) + m \in Int
      BY <2>1
    <2> QED
      BY <2>2 DEF m
  <1> HIDE DEF c, b, l
  <1>7. c <= b
    BY <1>2, <1>4, <1>5, <1>6
  <1> QED
    BY <1>7 DEF c, b

\* And no less.
LEMMA NotShutNow ==
  ASSUME LimitInv
  PROVE  NotShutOut
  <1>1. SUFFICES ASSUME NEW k \in BucketKeys, NEW time \in 0..now,
                        (now - time) * Refill[k] >= Part, Since(k, time) = {}
                 PROVE  Level(k) >= Part
    BY DEF NotShutOut
  <1> DEFINE m == (now - time) * Refill[k]
  <1>2. Level(k) = Full(k) \/ Level(k) >= m
    BY <1>1 DEF LimitInv, FilledUp
  <1>3. now \in Nat
    BY <1>1 DEF LimitInv, LimitTypes
  <1>4. m \in Nat /\ m >= Part /\ Part \in Nat /\ Full(k) \in Nat /\ Full(k) >= Part
        /\ Level(k) \in 0..Full(k)
    BY <1>1, <1>3, LongerSpan, RatesAre, LevelIs DEF LimitInv
  <1> HIDE DEF m
  <1> QED
    BY <1>2, <1>4

\* While Redis is away a limiter keeps its rate (takeToken): in every span of time it lets
\* through what a full bucket and the refill allow, and a request that comes when a token
\* has had the time to fill up, and none was let through since, is let through.  For all
\* limiters, however often buckets are pruned and the process is started again.
THEOREM RateKept == LimitSpec => []RateIsKept
  <1>1. LimitInv => RateIsKept
    BY BudgetNow, NotShutNow DEF RateIsKept
  <1> QED
    BY <1>1, LimitHolds, PTL
=============================================================================
