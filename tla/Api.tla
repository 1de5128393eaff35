---------------------------------- MODULE Api ----------------------------------
(***************************************************************************)
(* The HTTP API as its clients meet it: one account's envelopes and        *)
(* templates, the requests that travel to them, and lists read page by     *)
(* page with a cursor.  A handler is one step here; Creation and the core  *)
(* modules say what happens inside.                                        *)
(***************************************************************************)
EXTENDS Naturals, FiniteSets

CONSTANTS
  Ids,           \* ids of rows: random UUIDs, compared as strings
  Times,         \* values of createdAt
  IdemKeys,      \* Idempotency-Keys that a caller chooses
  Fresh,         \* a key that no other request carries, or none
  DefaultLimit,  \* DEFAULT_LIMIT
  MaxLimit,      \* MAX_LIMIT
  MaxLate        \* bound on writes that travel on, unawaited

ASSUME ApiAssumption ==
  /\ Ids \subseteq Nat \ {0} /\ IsFiniteSet(Ids) /\ Times \subseteq Nat
  /\ Fresh \notin IdemKeys
  /\ MaxLimit \in Nat /\ DefaultLimit \in 1..MaxLimit

VARIABLES
  state,    \* "none", an envelope's status, "TEMPLATE" or "DELETED"
  mode,     \* livemode of an envelope
  at,       \* createdAt
  bound,    \* IdempotencyKey: <<row answered, body>>, or <<>>
  req,      \* the request its caller awaits, or NoReq
  reply,    \* what has come back for it
  late,     \* writes whose caller has given up but that may still arrive
  under,    \* history: the rows made by requests meant for one key, since the
            \* key was last forgotten
  walk,     \* a list being read: its query, cursor and progress
  due       \* history: rows it owes: there since its start, matching always

rows == <<state, mode, at, bound, under>>
net  == <<req, reply, late>>

Secrets == {"sk_test_", "sk_live_", "sk_oat_"}

\* record.mode of the key; OAuth tokens are minted LIVE.
ModeOf(secret) == IF secret = "sk_test_" THEN "TEST" ELSE "LIVE"

\* A request to create: idem is its header, meant the key that the caller asked
\* for, id its template.  Any other request is about a row, and any key of the
\* account authorises it.
Creation(op, secret, id, idem, meant) ==
  [op |-> op, secret |-> secret, id |-> id, idem |-> idem, meant |-> meant]
About(op, id) == Creation(op, "any", id, Fresh, Fresh)
NoReq == About("none", 0)

Writes == {"create", "from_template", "create_template", "send", "void",
           "delete_template"}

NoReply == <<"none", 0>>
Failed  == <<"error", 0>>
Ok(id)  == <<"ok", id>>

Statuses == {"DRAFT", "SENT", "COMPLETED", "DECLINED", "VOIDED"}
Envelope(i) == state[i] \in Statuses

-----------------------------------------------------------------------------
\* A list's query.  status "any" stands for no such parameter; a template
\* has no mode.
MatchesEnvelope(query, i) ==
  /\ Envelope(i)
  /\ mode[i] = query.mode
  /\ query.status \in {"any", state[i]}

MatchesTemplate(i) == state[i] = "TEMPLATE"

Matches(query, i) == IF query.of = "templates" THEN MatchesTemplate(i)
                     ELSE MatchesEnvelope(query, i)

\* 0 stands for a missing, malformed or too small value.
ParseLimit(raw) ==
  IF raw = 0 THEN DefaultLimit
  ELSE IF raw > MaxLimit THEN MaxLimit ELSE raw

\* Mutation: the cursor compares createdAt alone.
PastByTime(cursor, i) == cursor = <<>> \/ at[i] < cursor[1]

\* cursorWhere: strictly behind the cursor, newest first; ties by id.
Past(cursor, i) ==
  \/ cursor = <<>>
  \/ at[i] < cursor[1]
  \/ at[i] = cursor[1] /\ i < cursor[2]

Newer(i, j) == at[i] > at[j] \/ (at[i] = at[j] /\ i > j)

\* The rows fetched past the cursor, all of them ...
Rest(query, cursor) == {i \in Ids : Matches(query, i) /\ Past(cursor, i)}

\* ... and the page they make: the newest `limit`, whether there are more, and
\* the cursor encoded from the last row.
PageOf(found, limit) ==
  LET data == {i \in found : Cardinality({j \in found : Newer(j, i)}) < limit}
      last == CHOOSE i \in data : \A j \in data : i = j \/ Newer(j, i)
      more == Cardinality(found) > limit
  IN  [data |-> data, more |-> more,
       next |-> IF more THEN <<at[last], last>> ELSE <<>>]

-----------------------------------------------------------------------------
\* What each route does with an authenticated request q; a is its answer.
\* POST /api/v1/envelopes and /api/v1/templates: the stored answer of the key, or
\* a new row.  createdAt is when the transaction began, so rows do not appear
\* in its order.  Anything else about the body refuses it (quota, limits,
\* validation).
Body(q) == <<q.op, q.id>>
Known(q) == q.idem # Fresh /\ bound[q.idem] # <<>>

Insert(q, i, t) ==
  /\ state' = [state EXCEPT ![i] =
                 IF q.op = "create_template" THEN "TEMPLATE" ELSE "DRAFT"]
  /\ mode' = [mode EXCEPT ![i] = IF q.op = "create_template" THEN @
                                  ELSE ModeOf(q.secret)]
  /\ at' = [at EXCEPT ![i] = t]
  /\ bound' = [k \in IdemKeys |-> IF k = q.idem THEN <<i, Body(q)>>
                                  ELSE bound[k]]
  /\ under' = [k \in IdemKeys |-> IF k = q.meant THEN under[k] \cup {i}
                                  ELSE under[k]]

CreateRow(q, a) ==
  \/ /\ Known(q)
     /\ a = IF bound[q.idem][2] = Body(q) THEN Ok(bound[q.idem][1]) ELSE Failed
     /\ UNCHANGED rows
  \/ /\ ~Known(q)
     /\ q.op = "from_template" => state[q.id] = "TEMPLATE"
     /\ \E i \in Ids, t \in Times :
          state[i] = "none" /\ Insert(q, i, t) /\ a = Ok(i)
  \/ ~Known(q) /\ a = Failed /\ UNCHANGED rows

\* A route that moves a row from one of some states, or answers 4xx.
Move(q, from, to, a) ==
  IF state[q.id] \in from
  THEN /\ state' = [state EXCEPT ![q.id] = to]
       /\ a = Ok(q.id) /\ UNCHANGED <<mode, at, bound, under>>
  ELSE a = Failed /\ UNCHANGED rows

SendRow(q, a)   == Move(q, {"DRAFT"}, "SENT", a)
VoidRow(q, a)   == Move(q, {"DRAFT", "SENT", "DECLINED"}, "VOIDED", a)

DeleteRow(q, a) ==
  IF state[q.id] = "TEMPLATE"
  THEN /\ state' = [state EXCEPT ![q.id] = "DELETED"]
       /\ at' = [at EXCEPT ![q.id] = 0]
       /\ a = Ok(q.id) /\ UNCHANGED <<mode, bound, under>>
  ELSE a = Failed /\ UNCHANGED rows


\* Routes that read, or write nothing that counts here.
Download(q, a)     == Move(q, {"COMPLETED"}, "COMPLETED", a)
EmbeddedUrl(q, a)  == Move(q, {"SENT"}, "SENT", a)
GetEnvelope(q, a)  == Move(q, Statuses, state[q.id], a)
GetTemplate(q, a)  == Move(q, {"TEMPLATE"}, "TEMPLATE", a)
PatchTemplate(q, a) == Move(q, {"TEMPLATE"}, "TEMPLATE", a)

\* Signup and upgrade change accounts and plans (Access, Billing), no row here.
Account(q, a) == a \in {Failed, Ok(0)} /\ UNCHANGED rows

Handle(q, a) ==
  \/ q.op \in {"create", "from_template", "create_template"} /\ CreateRow(q, a)
  \/ q.op = "send" /\ SendRow(q, a)
  \/ q.op = "void" /\ VoidRow(q, a)
  \/ q.op = "delete_template" /\ DeleteRow(q, a)
  \/ q.op = "download" /\ Download(q, a)
  \/ q.op = "embedded_url" /\ EmbeddedUrl(q, a)
  \/ q.op = "get" /\ GetEnvelope(q, a)
  \/ q.op = "get_template" /\ GetTemplate(q, a)
  \/ q.op = "patch_template" /\ PatchTemplate(q, a)
  \/ q.op \in {"signup", "upgrade"} /\ Account(q, a)

Answers == {Failed} \cup {Ok(i) : i \in Ids \cup {0}}

\* The awaited request is served; its answer arrives or is lost, which the
\* caller sees as a failed fetch.
Serve ==
  /\ req # NoReq /\ reply = NoReply
  /\ \E a \in Answers :
       /\ Handle(req, a)
       /\ reply' \in {a, Failed}
  /\ UNCHANGED <<req, late>>

\* GET on a list.
ServeList ==
  /\ req.op = "list" /\ reply = NoReply
  /\ reply' = <<"page", PageOf(Rest(walk.query, walk.cursor),
                               walk.limit)>>
  /\ UNCHANGED <<rows, req, late>>

\* The caller's timeout or connection ends first; the request may be lost
\* or travel on.
GiveUp ==
  /\ req # NoReq /\ reply = NoReply
  /\ reply' = Failed
  /\ \/ UNCHANGED late
     \/ /\ req.op \in Writes /\ Cardinality(late) < MaxLate
        /\ late' = late \cup {req}
  /\ UNCHANGED <<rows, req>>

ServeLate ==
  \E q \in late :
    /\ \E a \in Answers : Handle(q, a)
    /\ late' = late \ {q}
    /\ UNCHANGED <<req, reply>>

\* Signers end an envelope: the last of them signs and it is sealed, or one
\* refuses.
Ends(i, to) ==
  /\ state[i] = "SENT"
  /\ state' = [state EXCEPT ![i] = to]
  /\ UNCHANGED <<mode, at, bound, under, net>>

LastSigns(i) == Ends(i, "COMPLETED")
Declines(i)  == Ends(i, "DECLINED")

\* The sweep prunes a key a day after the request that claimed it; whoever sends
\* it later makes a new row.  No caller awaits an answer for a day.
ForgetKey(k) ==
  /\ bound[k] # <<>> /\ req.idem # k
  /\ bound' = [bound EXCEPT ![k] = <<>>]
  /\ under' = [under EXCEPT ![k] = {}]
  /\ UNCHANGED <<state, mode, at, net>>

\* While a list is read, someone else with access to the account, a colleague's
\* program or the dashboard, creates, voids or deletes.
Elsewhere ==
  /\ req.op = "list"
  /\ \E a \in Answers :
       \/ \E op \in {"create", "create_template"},
             secret \in {"sk_test_", "sk_live_"} :
            Handle(Creation(op, secret, 0, Fresh, Fresh), a)
       \/ \E op \in {"void", "delete_template"}, i \in Ids :
            Handle(About(op, i), a)
  /\ UNCHANGED net
===============================================================================
