-------------------------------- MODULE Clients --------------------------------
(***************************************************************************)
(* The programs beside the API: the MCP tools an agent calls (stdio or     *)
(* hosted), the JavaScript SDK and the Python SDK.  One call runs at a     *)
(* time; what it asked for may still happen after it has given up, and     *)
(* the rest of the world acts in between.                                  *)
(***************************************************************************)
EXTENDS Api

CONSTANTS
  Existing,  \* bound: the rows that the account may have at first
  MaxCalls   \* bound on calls

VARIABLES
  tool,      \* what runs: "send_envelope", a call of "one" request, a list's
             \* "first_page" or all its "pages"; or "idle"
  confirm,   \* its parameter `confirm`
  calls,     \* number of calls so far
  confirmed  \* history: envelopes whose dispatch the caller has asked for

caller == <<tool, confirm, calls, confirmed>>
vars == <<rows, net, walk, due, caller>>

NoWalk == [query |-> <<>>, limit |-> 0, cursor |-> <<>>, seen |-> {}]

\* The account has some rows already, made before this program came.
Init ==
  /\ state \in [Ids -> {"none", "DRAFT", "SENT", "TEMPLATE"}]
  /\ {i \in Ids : state[i] # "none"} \subseteq Existing
  /\ mode \in [Ids -> {"TEST", "LIVE"}]
  /\ \A i \in Ids : ~Envelope(i) => mode[i] = "TEST"
  /\ at \in [Ids -> Times \cup {0}]
  /\ \A i \in Ids : at[i] = 0 <=> state[i] = "none"
  /\ bound = [k \in IdemKeys |-> <<>>]
  /\ under = [k \in IdemKeys |-> {}]
  /\ req = NoReq /\ reply = NoReply /\ late = {}
  /\ walk = NoWalk /\ due = {}
  /\ tool = "idle" /\ confirm = FALSE /\ calls = 0
  /\ confirmed = {i \in Ids : state[i] = "SENT"}

\* A call begins by sending a request.
Call(name, q) ==
  /\ tool = "idle" /\ calls < MaxCalls
  /\ tool' = name
  /\ calls' = calls + 1
  /\ req' = q
  /\ UNCHANGED <<rows, reply, late, walk>>

\* A call that asks for envelope i to be dispatched.
AskToSend(q) ==
  /\ Call("one", q)
  /\ confirmed' = confirmed \cup {i \in {q.id} : state[i] = "DRAFT"}
  /\ UNCHANGED confirm

\* The ids a caller has: of rows that exist, or did.
EnvelopeIds == {i \in Ids : Envelope(i)}
TemplateIds == {i \in Ids : state[i] \in {"TEMPLATE", "DELETED"}}

-----------------------------------------------------------------------------
\* mcp/src/tools.ts.  No tool sends an Idempotency-Key.
\* Mutation: only sk_live_ keys are live.
IsLivePrefix(secret) == secret = "sk_live_"

IsLiveKey(secret) == secret # "sk_test_"

McpApiCall(q) == Call("one", q) /\ UNCHANGED <<confirm, confirmed>>

McpSendEnvelope(secret, c) ==
  /\ Call("send_envelope", Creation("create", secret, 0, Fresh, Fresh))
  /\ confirm' = c
  /\ UNCHANGED confirmed

McpSendFromTemplate(secret, c, i) ==
  /\ Call("send_envelope", Creation("from_template", secret, i, Fresh, Fresh))
  /\ confirm' = c
  /\ UNCHANGED confirmed

McpConfirmSend(i) == AskToSend(About("send", i))
McpCheckStatus(i) == McpApiCall(About("get", i))
McpVoidEnvelope(i) == McpApiCall(About("void", i))

McpApiDownload(q) == Call("one", q) /\ UNCHANGED <<confirm, confirmed>>

McpDownloadSignedPdf(i) == McpApiDownload(About("download", i))
McpCreateEmbeddedUrl(i) == McpApiCall(About("embedded_url", i))

McpSignup == McpApiCall(About("signup", 0))
McpUpgrade == McpApiCall(About("upgrade", 0))

McpTool ==
  \/ McpSignup \/ McpUpgrade
  \/ \E secret \in Secrets, c \in BOOLEAN :
       McpSendEnvelope(secret, c)
         \/ \E i \in TemplateIds : McpSendFromTemplate(secret, c, i)
  \/ \E i \in EnvelopeIds :
       \/ McpConfirmSend(i) \/ McpCheckStatus(i) \/ McpVoidEnvelope(i)
       \/ McpDownloadSignedPdf(i) \/ McpCreateEmbeddedUrl(i)

-----------------------------------------------------------------------------
\* sdk-js/src/client.ts.  A create carries a key of its own, randomUUID().
JsRequest(q) == Call("one", q) /\ UNCHANGED <<confirm, confirmed>>

JsCreate(secret) == JsRequest(Creation("create", secret, 0, Fresh, Fresh))
JsCreateFromTemplate(secret, i) ==
  JsRequest(Creation("from_template", secret, i, Fresh, Fresh))
JsSend(i) == AskToSend(About("send", i))
JsVoid(i) == JsRequest(About("void", i))
JsGet(i) == JsRequest(About("get", i))
JsCreateEmbeddedUrl(i) == JsRequest(About("embedded_url", i))
JsCreateTemplate(secret) ==
  JsRequest(Creation("create_template", secret, 0, Fresh, Fresh))
JsGetTemplate(i) == JsRequest(About("get_template", i))
JsUpdateTemplate(i) == JsRequest(About("patch_template", i))
JsDeleteTemplate(i) == JsRequest(About("delete_template", i))

JsSignup == JsRequest(About("signup", 0))
JsUpgradeUrl == JsRequest(About("upgrade", 0))

JsMethod ==
  \/ JsSignup \/ JsUpgradeUrl
  \/ \E secret \in Secrets :
       \/ JsCreate(secret) \/ JsCreateTemplate(secret)
       \/ \E i \in TemplateIds : JsCreateFromTemplate(secret, i)
  \/ \E i \in EnvelopeIds :
       JsSend(i) \/ JsVoid(i) \/ JsGet(i) \/ JsCreateEmbeddedUrl(i)
  \/ \E i \in TemplateIds :
       JsGetTemplate(i) \/ JsUpdateTemplate(i) \/ JsDeleteTemplate(i)

-----------------------------------------------------------------------------
\* sdk-python/swiftsign/client.py.
\* Mutation: the generated key wins over the caller's.
GeneratedKey(key) == Fresh

\* The header of a create: the caller's key, or a new one.
IdempotencyKey(key) == key

PyRequest(q) == Call("one", q) /\ UNCHANGED <<confirm, confirmed>>

PyCreate(secret, key) ==
  PyRequest(Creation("create", secret, 0, IdempotencyKey(key), key))
PyCreateFromTemplate(secret, key, i) ==
  PyRequest(Creation("from_template", secret, i, IdempotencyKey(key), key))
PySend(i) == AskToSend(About("send", i))
PyVoid(i) == PyRequest(About("void", i))
PyGet(i) == PyRequest(About("get", i))
PyCreateEmbeddedUrl(i) == PyRequest(About("embedded_url", i))
PyCreateTemplate(secret) ==
  PyRequest(Creation("create_template", secret, 0, Fresh, Fresh))
PyGetTemplate(i) == PyRequest(About("get_template", i))
PyUpdateTemplate(i) == PyRequest(About("patch_template", i))
PyDeleteTemplate(i) == PyRequest(About("delete_template", i))

PySignup == PyRequest(About("signup", 0))
PyUpgradeUrl == PyRequest(About("upgrade", 0))

PyMethod ==
  \/ PySignup \/ PyUpgradeUrl
  \/ \E secret \in Secrets, key \in IdemKeys \cup {Fresh} :
       \/ PyCreate(secret, key)
       \/ \E i \in TemplateIds : PyCreateFromTemplate(secret, key, i)
  \/ \E secret \in Secrets : PyCreateTemplate(secret)
  \/ \E i \in EnvelopeIds :
       PySend(i) \/ PyVoid(i) \/ PyGet(i) \/ PyCreateEmbeddedUrl(i)
  \/ \E i \in TemplateIds :
       PyGetTemplate(i) \/ PyUpdateTemplate(i) \/ PyDeleteTemplate(i)

-----------------------------------------------------------------------------
\* Lists.  The MCP tools read the first page with the default limit, in the
\* mode of their key; a program that uses an SDK goes on from next_cursor.
Queries == [of : {"envelopes"}, mode : {"TEST", "LIVE"},
            status : {"any", "SENT"}]
             \cup {[of |-> "templates"]}
Limits == {0, MaxLimit + 1}

\* A bound: a program that reads a list does nothing else.
List(name, query, raw) ==
  /\ tool = "idle" /\ calls = 0
  /\ tool' = name
  /\ calls' = MaxCalls
  /\ req' = About("list", 0)
  /\ walk' = [NoWalk EXCEPT !.query = query, !.limit = ParseLimit(raw)]
  /\ UNCHANGED <<rows, reply, late, confirm, confirmed>>

McpListEnvelopes(secret) ==
  List("first_page", [of |-> "envelopes", mode |-> ModeOf(secret),
                      status |-> "any"], 0)
McpListTemplates == List("first_page", [of |-> "templates"], 0)

JsList == \E query \in Queries, raw \in Limits : List("pages", query, raw)
PyList == \E query \in Queries, raw \in Limits : List("pages", query, raw)

\* A page has come: ask for the next, or end.
TakePage ==
  /\ reply[1] = "page"
  /\ LET page == reply[2]
         last == ~page.more \/ tool = "first_page"
     IN  /\ walk' = IF last THEN NoWalk
                    ELSE [walk EXCEPT !.cursor = page.next,
                                      !.seen = @ \cup page.data]
         /\ tool' = IF last THEN "idle" ELSE tool
         /\ req' = IF last THEN NoReq ELSE req
  /\ reply' = NoReply
  /\ UNCHANGED <<rows, late, confirm, calls, confirmed>>

\* The same page once more.
RetryPage ==
  /\ tool = "pages" /\ reply = Failed
  /\ reply' = NoReply
  /\ UNCHANGED <<rows, req, late, walk, caller>>

-----------------------------------------------------------------------------
\* The call returns.
Return ==
  /\ tool' = "idle"
  /\ req' = NoReq
  /\ reply' = NoReply
  /\ confirm' = FALSE
  /\ walk' = NoWalk
  /\ UNCHANGED <<rows, late, calls, confirmed>>

\* A failed fetch, or an answer that is not ok: the caller sees an error.
Throw == tool # "idle" /\ reply = Failed /\ Return

Done == tool = "one" /\ reply[1] = "ok" /\ Return

\* The gate of swiftsign_send_envelope and swiftsign_send_from_template.
Gated == IsLiveKey(req.secret) /\ ~confirm

\* The draft is reported for a human to review.
HoldDraft ==
  /\ tool = "send_envelope" /\ reply[1] = "ok"
  /\ Gated
  /\ Return

\* Past the gate: the second request of the same call.
GoOnToSend ==
  /\ tool = "send_envelope" /\ reply[1] = "ok"
  /\ ~Gated
  /\ tool' = "one"
  /\ req' = About("send", reply[2])
  /\ reply' = NoReply
  /\ confirmed' = IF confirm THEN confirmed \cup {reply[2]} ELSE confirmed
  /\ confirm' = FALSE
  /\ UNCHANGED <<rows, late, walk, calls>>

Client ==
  \/ McpTool \/ JsMethod \/ PyMethod
  \/ McpListTemplates \/ \E secret \in Secrets : McpListEnvelopes(secret)
  \/ JsList \/ PyList
  \/ TakePage \/ RetryPage \/ Throw \/ Done \/ HoldDraft \/ GoOnToSend

World ==
  /\ \/ Serve \/ ServeList \/ GiveUp \/ ServeLate \/ Elsewhere
     \/ \E i \in Ids : LastSigns(i) \/ Declines(i)
     \/ \E k \in IdemKeys : ForgetKey(k)
  /\ UNCHANGED <<walk, caller>>

\* A walk owes the rows that match when it starts, as long as they match.
Owed ==
  due' = IF walk' = NoWalk THEN {}
         ELSE {i \in IF walk = NoWalk THEN Ids ELSE due :
                 Matches(walk.query, i)'}

Next == (Client \/ World) /\ Owed

Spec == Init /\ [][Next]_vars

-----------------------------------------------------------------------------
\* Nothing that a program makes for a live account is emailed before someone
\* has asked for that very envelope to be sent: an agent's call alone, without
\* `confirm`, leaves a draft, whatever kind of live key it runs with and
\* whichever answers are lost or late.
LiveNeedsConfirmation ==
  \A i \in Ids :
    mode[i] = "LIVE" /\ state[i] \in {"SENT", "COMPLETED", "DECLINED"} =>
      i \in confirmed

\* A program that pages through a list reads every row that was there when it
\* started and matched throughout, none of them twice, although rows appear
\* (not in order of their createdAt), change and vanish between the pages,
\* the one the cursor was made from included.
WalkIsComplete ==
  reply[1] = "page" =>
    /\ walk.seen \cap reply[2].data = {}
    /\ ~reply[2].more => due \subseteq walk.seen \cup reply[2].data

\* As long as the API remembers a caller's Idempotency-Key (a day, and until the
\* next sweep), the creates that a program repeats with it make one envelope,
\* and every one that is answered names that envelope, also when the answer to
\* the first was lost or the first arrives after its repeat.
RetryMakesOne ==
  /\ \A k \in IdemKeys : Cardinality(under[k]) <= 1
  /\ req.meant \in IdemKeys /\ reply[1] = "ok" => under[req.meant] = {reply[2]}
===============================================================================
