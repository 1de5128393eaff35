------------------------------- MODULE Creation -------------------------------
(***************************************************************************)
(* POST /api/v1/envelopes of one user: rate limit, monthly quota, the      *)
(* Idempotency-Key wrapper and the creation it protects.  A request runs   *)
(* one await at a time; requests interleave, throw, and die; the billing   *)
(* sweep prunes keys whose day is over.                                    *)
(***************************************************************************)
EXTENDS Naturals, FiniteSets

CONSTANTS
  Requests,  \* also the name of the envelope that a request creates
  Live,      \* the requests that are sent with a live API key
  Keys,      \* values of the Idempotency-Key header
  NoKey,     \* no such header
  Quota,     \* monthlyEnvelopeQuota of the user's plan
  MayDie     \* whether a process dies in the middle of a request

ASSUME CreationAssumption ==
  /\ NoKey \notin Keys
  /\ Live \subseteq Requests
  /\ Quota \in Nat \ {0}
  /\ IsFiniteSet(Requests)
  /\ Requests \cap {"none", "pending", "refused", "error", "conflict",
                    "reused", "quota", "limited"} = {}

VARIABLES
  pc,        \* the next step of a request
  key, body, \* its header and its body
  result,    \* the handler's response, before it is stored
  answer,    \* the response the client is sent
  held,      \* IdempotencyKey: the body whose hash a key is bound to, or "none"
  stored,    \* IdempotencyKey: the stored response, "pending" while null
  env,       \* the requests whose envelope exists
  counted,   \* those whose envelope is live and of this month
  audited,   \* those whose envelope has its ENVELOPE_CREATED event
  under,     \* history: the envelopes made under the present row of a key
  peak       \* history: most live requests ever between quota check and commit

request == <<key, body>>
rows    == <<held, stored>>
vars == <<pc, key, body, result, answer, held, stored, env,
          counted, audited, under, peak>>

\* "inline" is any body that creates, "invalid" any that its handler refuses:
\* schema, references, anchors, sizes, rendering, coordinates.  A "template"
\* body creates as long as its template exists, which may be deleted any time.
Bodies == {"inline", "template", "invalid", "not_json"}

Responses == Requests \cup {"refused"}

TypeOK ==
  /\ pc \in [Requests -> {"new", "quota", "look", "claim", "run", "audit",
                          "store", "done"}]
  /\ key \in [Requests -> Keys \cup {NoKey}]
  /\ body \in [Requests -> Bodies]
  /\ result \in [Requests -> Responses \cup {"none"}]
  /\ answer \in [Requests -> Responses \cup
       {"none", "error", "conflict", "reused", "quota", "limited"}]
  /\ held \in [Keys -> Bodies \cup {"none"}]
  /\ stored \in [Keys -> Responses \cup {"pending"}]
  /\ counted \subseteq env /\ audited \subseteq env /\ env \subseteq Requests
  /\ under \in [Keys -> SUBSET env]
  /\ peak \in Nat

Init ==
  /\ pc = [r \in Requests |-> "new"]
  /\ key = [r \in Requests |-> NoKey]
  /\ body = [r \in Requests |-> "inline"]
  /\ result = [r \in Requests |-> "none"]
  /\ answer = [r \in Requests |-> "none"]
  /\ held = [k \in Keys |-> "none"]
  /\ stored = [k \in Keys |-> "pending"]
  /\ env = {} /\ counted = {} /\ audited = {}
  /\ under = [k \in Keys |-> {}]
  /\ peak = 0

-----------------------------------------------------------------------------
Goto(r, step) ==
  /\ pc' = [pc EXCEPT ![r] = step]
  /\ UNCHANGED answer

Reply(r, a) ==
  /\ pc' = [pc EXCEPT ![r] = "done"]
  /\ answer' = [answer EXCEPT ![r] = a]

\* Past the quota check, before the commit.
Busy == {r \in Requests : r \in Live /\ pc[r] \in {"look", "claim", "run"}}

\* A request with an API key of this user passes the rate limit, or not.
Arrive(r, k, b) ==
  /\ pc[r] = "new"
  /\ \/ /\ key' = [key EXCEPT ![r] = k]
        /\ body' = [body EXCEPT ![r] = b]
        /\ Goto(r, "quota")
     \/ /\ Reply(r, "limited")
        /\ UNCHANGED request
  /\ UNCHANGED <<result, rows, env, counted, audited, under, peak>>

\* Mutation: the quota itself is still allowed.
OffByOne == Cardinality(counted) <= Quota

Allowed == Cardinality(counted) < Quota

\* checkQuota, for live keys only, and then the parse of the body.
CheckQuota(r) ==
  /\ pc[r] = "quota"
  /\ IF r \in Live /\ ~Allowed THEN Reply(r, "quota")
     ELSE IF body[r] = "not_json" THEN Reply(r, "refused")
     ELSE Goto(r, IF key[r] = NoKey THEN "run" ELSE "look")
  /\ UNCHANGED <<request, result, rows, env, counted, audited, under>>
  /\ LET n == Cardinality(Busy')
     IN  peak' = IF n > peak THEN n ELSE peak

\* Mutation: a key that is found is answered for whatever body.
ReplayAny(k, b) == IF stored[k] = "pending" THEN "conflict" ELSE stored[k]

\* What a found row answers.
Replay(k, b) ==
  IF held[k] # b THEN "reused"
  ELSE IF stored[k] = "pending" THEN "conflict"
  ELSE stored[k]

LookUp(r) ==
  /\ pc[r] = "look"
  /\ IF held[key[r]] = "none" THEN Goto(r, "claim")
     ELSE Reply(r, Replay(key[r], body[r]))
  /\ UNCHANGED <<request, result, rows, env, counted, audited, under,
                 peak>>

\* Mutation: upsert instead of create, so that nobody loses the race.
ClaimAnyway(r) ==
  /\ pc[r] = "claim"
  /\ held' = [held EXCEPT ![key[r]] = body[r]]
  /\ stored' = [stored EXCEPT ![key[r]] = "pending"]
  /\ Goto(r, "run")
  /\ UNCHANGED <<request, result, env, counted, audited, under, peak>>

\* The pending row, or the lost race for it.
Claim(r) ==
  /\ pc[r] = "claim"
  /\ IF held[key[r]] = "none"
     THEN /\ held' = [held EXCEPT ![key[r]] = body[r]]
          /\ stored' = [stored EXCEPT ![key[r]] = "pending"]
          /\ Goto(r, "run")
     ELSE /\ Reply(r, "conflict")
          /\ UNCHANGED rows
  /\ UNCHANGED <<request, result, env, counted, audited, under, peak>>

\* The answer is stored first if there is a key.
Respond(r, a) ==
  IF key[r] = NoKey
  THEN Reply(r, a) /\ UNCHANGED result
  ELSE Goto(r, "store") /\ result' = [result EXCEPT ![r] = a]

\* The handler up to its commit, if it refuses: the body by itself, or a template
\* that is gone or whose roles are not all assigned.
Refuse(r) ==
  /\ pc[r] = "run"
  /\ body[r] = "invalid"
  /\ Respond(r, "refused")
  /\ UNCHANGED <<request, rows, env, counted, audited, under, peak>>

RefuseTemplate(r) ==
  /\ pc[r] = "run"
  /\ body[r] = "template"
  /\ Respond(r, "refused")
  /\ UNCHANGED <<request, rows, env, counted, audited, under, peak>>

\* The transaction commits.
CommitEnvelope(r) ==
  /\ env' = env \cup {r}
  /\ counted' = IF r \in Live THEN counted \cup {r} ELSE counted
  /\ under' = [k \in Keys |->
                 IF k = key[r] THEN under[k] \cup {r} ELSE under[k]]
  /\ Goto(r, "audit")
  /\ UNCHANGED <<request, result, rows, audited, peak>>

Create(r) ==
  /\ pc[r] = "run"
  /\ body[r] = "inline"
  /\ CommitEnvelope(r)

\* The envelope reuses the documents of the template.
CreateFromTemplate(r) ==
  /\ pc[r] = "run"
  /\ body[r] = "template"
  /\ CommitEnvelope(r)

\* logAudit, after the commit.
Audit(r) ==
  /\ pc[r] = "audit"
  /\ audited' = audited \cup {r}
  /\ Respond(r, r)
  /\ UNCHANGED <<request, rows, env, counted, under, peak>>

\* Storage or database fail: 500, and the key stays pending.  After the commit
\* the envelope stays too.
Throw(r) ==
  /\ pc[r] \in {"run", "audit"}
  /\ Reply(r, "error")
  /\ UNCHANGED <<request, result, rows, env, counted, audited, under,
                 peak>>

\* The answer goes out even if the row cannot be updated.
Store(r) ==
  /\ pc[r] = "store"
  /\ \/ stored' = [stored EXCEPT ![key[r]] = result[r]]
     \/ UNCHANGED stored
  /\ Reply(r, result[r])
  /\ result' = [result EXCEPT ![r] = "none"]
  /\ UNCHANGED <<request, held, env, counted, audited, under,
                 peak>>

Die(r) ==
  /\ MayDie
  /\ pc[r] \notin {"new", "done"}
  /\ Reply(r, "none")
  /\ result' = [result EXCEPT ![r] = "none"]
  /\ UNCHANGED <<request, rows, env, counted, audited, under,
                 peak>>

-----------------------------------------------------------------------------
\* A request holds a key from its claim on.  A key lives 24 hours and a request
\* at most 60 seconds, so no key is pruned while it is held.
Held(k) ==
  \E r \in Requests : key[r] = k /\ pc[r] \in {"run", "audit", "store"}

\* Mutation: only answered keys are pruned.
PruneAnswered(k) ==
  /\ held[k] # "none"
  /\ stored[k] # "pending"
  /\ held' = [held EXCEPT ![k] = "none"]
  /\ stored' = [stored EXCEPT ![k] = "pending"]
  /\ under' = [under EXCEPT ![k] = {}]
  /\ UNCHANGED <<pc, request, result, answer, env, counted, audited,
                 peak>>

\* The billing sweep, a day after the claim.
Prune(k) ==
  /\ held[k] # "none"
  /\ ~Held(k)
  /\ held' = [held EXCEPT ![k] = "none"]
  /\ stored' = [stored EXCEPT ![k] = "pending"]
  /\ under' = [under EXCEPT ![k] = {}]
  /\ UNCHANGED <<pc, request, result, answer, env, counted, audited,
                 peak>>

\* used counts envelopes created since the first of the month.
NewMonth ==
  /\ counted # {}
  /\ counted' = {}
  /\ UNCHANGED <<pc, request, result, answer, rows, env, audited,
                 under, peak>>

-----------------------------------------------------------------------------
Step(r) ==
  \/ CheckQuota(r) \/ LookUp(r) \/ Claim(r)
  \/ Refuse(r) \/ RefuseTemplate(r) \/ Create(r) \/ CreateFromTemplate(r)
  \/ Audit(r) \/ Throw(r) \/ Store(r)

Next ==
  \/ \E r \in Requests, k \in Keys \cup {NoKey}, b \in Bodies :
       Arrive(r, k, b)
  \/ \E r \in Requests : Step(r) \/ Die(r)
  \/ \E k \in Keys : Prune(k)
  \/ NewMonth

Spec == Init /\ [][Next]_vars

\* A request that has arrived goes on, and the sweep runs every day.
FairSpec ==
  /\ Spec
  /\ \A r \in Requests : WF_vars(Step(r))
  /\ \A k \in Keys : WF_vars(Prune(k))

-----------------------------------------------------------------------------
\* As long as its row lives, a key creates at most one envelope, however many
\* requests carry it and wherever they throw or die.
OncePerKey == \A k \in Keys : Cardinality(under[k]) <= 1

\* A request that is answered with an envelope is answered with its own, or with
\* the one made for the same key and the same body; it exists and has its event.
AnswerIsOwn ==
  \A r, e \in Requests :
    answer[r] = e =>
      /\ e \in audited
      /\ e = r \/ (key[r] # NoKey /\ key[e] = key[r] /\ body[e] = body[r])

\* Requests that race through the check can exceed the quota, but only by as
\* many as were ever in between at a time, less one: alone, none does.
OvershootBounded ==
  counted # {} => Cardinality(counted) <= Quota + peak - 1

\* No key answers "still being processed" for ever, although a handler that
\* throws or dies leaves it so.
NoKeyStuck ==
  \A k \in Keys :
    held[k] # "none" /\ stored[k] = "pending"
      ~> held[k] = "none" \/ stored[k] # "pending"
===============================================================================
