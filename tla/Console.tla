------------------------------- MODULE Console --------------------------------
(***************************************************************************)
(* The pages with which one person manages the account in one browser tab: *)
(* sign-in, the consent screen of an MCP client, the card of API keys, the *)
(* manager of webhook endpoints.  A request is one statement on the        *)
(* server; requests are served and answered in any order, or never, and    *)
(* the session may end at any time.  What a page shows is its own copy.    *)
(***************************************************************************)
EXTENDS Access

CONSTANTS
  Mine,       \* the person's email address
  Addresses,  \* what may be typed on the sign-in page
  Allowed,    \* isEmailAllowed: who may use the closed beta
  Made,       \* API keys that the card may create
  Endpoints,  \* webhook endpoints that the manager may create
  Nothing,
  MaxCalls    \* bound: what the person asks of a page while it is open

\* What a request may bring back: a row, or a list.
Answers ==
  [ok : BOOLEAN,
   got : {Nothing} \cup Made \cup Endpoints \cup
         [Made -> {"none", "live", "revoked"}]]

ASSUME ConsoleAssumption ==
  /\ Mine \in Addresses /\ Allowed \subseteq Addresses
  /\ Nothing \notin Addresses \cup Made \cup Endpoints \cup Codes
  /\ Nothing \notin Answers /\ Nothing # "sent"
  /\ MaxCalls \in Nat \ {0}

VARIABLES
  page,    \* the page on the screen
  made,    \* ApiKey rows made on the card; the others are left out
  hook,    \* WebhookEndpoint rows: isActive
  calls,   \* requests of the page whose answers it has not seen
  count,   \* counter for MaxCalls
  busy,    \* `loading`, `creating`
  email,   \* on the sign-in page
  about,   \* `sent`; the secret that is shown; the grant to decide on
  listed,  \* the keys, or the endpoints, on the page
  mailed,  \* history: where a link went since the last submit
  edited,  \* history: the address changed while a submit was under way
  muddled  \* history: an answer was lost, refused or out of order

rows == <<made, hook>>
view == <<page, calls, count, busy, email, about, listed>>
past == <<mailed, edited, muddled>>
consoleVars == <<rows, view, past>>

ConsoleInit ==
  /\ Init
  /\ made = [k \in Made |-> "none"]
  /\ hook = [e \in Endpoints |-> "none"]
  /\ page = "closed"
  /\ calls = {} /\ count = 0 /\ busy = FALSE
  /\ email = Nothing /\ about = Nothing /\ listed = Nothing
  /\ mailed = Nothing /\ edited = FALSE /\ muddled = FALSE

-----------------------------------------------------------------------------
\* Opening a page mounts it anew.
Mount(p, what, list) ==
  /\ page' = p
  /\ calls' = {} /\ count' = 0 /\ busy' = FALSE
  /\ email' = Nothing /\ about' = what /\ listed' = list
  /\ mailed' = Nothing /\ edited' = FALSE /\ muddled' = FALSE

\* Bound: a page is left when all its requests are done with, and the card and
\* the manager are never left.
Leave ==
  /\ page \in {"login", "consent"} /\ calls = {}
  /\ Mount("closed", Nothing, Nothing)
  /\ UNCHANGED <<vars, rows>>

\* Bound: a page is opened while no request of Access runs.
Quiet == page = "closed" /\ \A s \in Slots : pc[s] = "idle"

\* Requests of Access run while no page is open; only a logout elsewhere, or the
\* end of 30 days, comes at any time.
Elsewhere ==
  /\ (page = "closed" /\ Next) \/ EndSessions
  /\ UNCHANGED consoleVars

Call(does, what) ==
  [no |-> count, does |-> does, what |-> what, reply |-> Nothing]

Ask(does, what) ==
  /\ count < MaxCalls
  /\ count' = count + 1
  /\ calls' = calls \cup {Call(does, what)}

Unserved(does) == {c \in calls : c.does = does /\ c.reply = Nothing}

Reply(c, ok, got) ==
  calls' = (calls \ {c}) \cup {[c EXCEPT !.reply = [ok |-> ok, got |-> got]]}

\* 401, 429, 500.
Refuse(c) ==
  /\ c.reply = Nothing
  /\ Reply(c, FALSE, Nothing)
  /\ UNCHANGED <<vars, rows, page, count, busy, email, about, listed,
                 past>>

Answered(does) == {c \in calls : c.does = does /\ c.reply # Nothing}

Ok(c) == c.reply.ok

\* fetch throws, whether the server has acted or not.
Lose(c) ==
  /\ calls' = calls \ {c}
  /\ busy' = (busy /\ c.does \notin {"link", "create", "list created", "add"})
  /\ muddled' = TRUE
  /\ UNCHANGED <<vars, rows, page, count, email, about, listed, mailed,
                 edited>>

-----------------------------------------------------------------------------
\* Sign-in.
OpenLogin ==
  /\ Quiet /\ ~session
  /\ Mount("login", Nothing, Nothing)
  /\ UNCHANGED <<vars, rows>>

\* The field is there until the page says "Link sent.".
TypeAddress(a) ==
  /\ page = "login" /\ about = Nothing
  /\ email' = a
  /\ edited' = (edited \/ busy)
  /\ UNCHANGED <<vars, rows, page, calls, count, busy, about, listed,
                 mailed, muddled>>

\* handleSubmit.
Submit ==
  /\ page = "login" /\ about = Nothing
  /\ ~busy /\ email # Nothing
  /\ Ask("link", email)
  /\ busy' = TRUE
  /\ mailed' = Nothing /\ edited' = FALSE
  /\ UNCHANGED <<vars, rows, page, email, about, listed, muddled>>

\* POST /api/auth/send: an address outside the beta is told the same; if the
\* email cannot be sent the link stays behind.
ServeLink(c) ==
  /\ IF c.what = Mine
     THEN \E l \in Links : SendLink(l)
     ELSE UNCHANGED vars
  /\ \/ Reply(c, TRUE, Nothing)
        /\ mailed' = IF c.what \in Allowed THEN c.what ELSE mailed
     \/ c.what \in Allowed /\ Reply(c, FALSE, Nothing) /\ UNCHANGED mailed
  /\ UNCHANGED <<rows, page, count, busy, email, about, listed, edited,
                 muddled>>

HearOfLink(c) ==
  /\ calls' = calls \ {c}
  /\ about' = IF Ok(c) THEN "sent" ELSE about
  /\ busy' = FALSE
  /\ UNCHANGED <<vars, rows, page, count, email, listed, past>>

TryAnotherAddress ==
  /\ page = "login" /\ about = "sent"
  /\ about' = Nothing
  /\ UNCHANGED <<vars, rows, page, calls, count, busy, email, listed,
                 past>>

-----------------------------------------------------------------------------
\* The consent screen of a client, which needs a session to be shown and one to
\* be answered; without it the person is sent to sign in.
OpenConsent(c) ==
  /\ Quiet /\ code[c] = "none"
  /\ IF session THEN Mount("consent", c, Nothing)
     ELSE Mount("login", Nothing, Nothing)
  /\ UNCHANGED <<vars, rows>>

Authorize ==
  /\ page = "consent" /\ session
  /\ Approve(about)
  /\ Mount("closed", Nothing, Nothing)
  /\ UNCHANGED rows

DecideTooLate ==
  /\ page = "consent" /\ ~session
  /\ Mount("login", Nothing, Nothing)
  /\ UNCHANGED <<vars, rows>>

-----------------------------------------------------------------------------
\* The card of API keys.
\* Bound: the card and the manager come before any grant and after every link.
OpenTool(p, list) ==
  /\ Quiet /\ session
  /\ \A c \in Codes : code[c] = "none"
  /\ \A l \in Links : link[l] = "gone"
  /\ Mount(p, Nothing, list)
  /\ UNCHANGED <<vars, rows>>

OpenKeys == OpenTool("keys", made)

CreateKey ==
  /\ page = "keys" /\ ~busy
  /\ Ask("create", Nothing)
  /\ busy' = TRUE /\ about' = Nothing
  /\ UNCHANGED <<vars, rows, page, email, listed, past>>

\* Only a live key has the button.
Revoke(k) ==
  /\ page = "keys" /\ listed[k] = "live"
  /\ Ask("revoke", k)
  /\ UNCHANGED <<vars, rows, page, busy, email, about, listed, past>>

ServeCreate(c) ==
  /\ session
  /\ \E k \in Made :
       /\ made[k] = "none"
       /\ made' = [made EXCEPT ![k] = "live"]
       /\ Reply(c, TRUE, k)
  /\ UNCHANGED <<vars, hook, page, count, busy, email, about, listed,
                 past>>

ServeRevoke(c) ==
  /\ session
  /\ made' = [made EXCEPT ![c.what] = "revoked"]
  /\ Reply(c, TRUE, Nothing)
  /\ UNCHANGED <<vars, hook, page, count, busy, email, about, listed,
                 past>>

ServeList(c) ==
  /\ session
  /\ Reply(c, TRUE, made)
  /\ UNCHANGED <<vars, rows, page, count, busy, email, about, listed,
                 past>>

\* The list is fetched once the key is there.
HearOfCreate(c) ==
  /\ IF Ok(c)
     THEN /\ about' = c.reply.got
          /\ calls' = (calls \ {c}) \cup
               {[c EXCEPT !.does = "list created", !.reply = Nothing]}
          /\ UNCHANGED busy
     ELSE /\ calls' = calls \ {c}
          /\ busy' = FALSE
          /\ UNCHANGED about
  /\ UNCHANGED <<vars, rows, page, count, email, listed, past>>

\* Mutation: the list is left as it is.
HearOfRevokeOnly(c) ==
  /\ calls' = calls \ {c}
  /\ UNCHANGED <<vars, rows, page, count, busy, email, about, listed,
                 past>>

HearOfRevoke(c) ==
  /\ calls' = (calls \ {c}) \cup
       IF Ok(c) THEN {[c EXCEPT !.does = "list", !.reply = Nothing]} ELSE {}
  /\ UNCHANGED <<vars, rows, page, count, busy, email, about, listed,
                 past>>

Rank(s) == CASE s = "none" -> 0 [] s = "live" -> 1 [] s = "revoked" -> 2

\* A list that is refused is ignored; one that is late is not noticed.
HearList(c) ==
  /\ calls' = calls \ {c}
  /\ IF Ok(c)
     THEN /\ listed' = c.reply.got
          /\ muddled' = (muddled \/
               \E k \in Made : Rank(c.reply.got[k]) < Rank(listed[k]))
     ELSE muddled' = TRUE /\ UNCHANGED listed
  /\ busy' = (busy /\ c.does = "list")
  /\ UNCHANGED <<vars, rows, page, count, email, about, mailed, edited>>

-----------------------------------------------------------------------------
\* The manager of webhook endpoints.
OpenHooks == OpenTool("hooks", hook)

AddHook ==
  /\ page = "hooks" /\ ~busy
  /\ Ask("add", Nothing)
  /\ busy' = TRUE
  /\ UNCHANGED <<vars, rows, page, email, about, listed, past>>

Shown(e) == listed[e] \in {"on", "off"}

\* Nothing keeps the person from the switch or the button meanwhile.
ChangeHook(e, does) ==
  /\ page = "hooks" /\ Shown(e)
  /\ Ask(does, e)
  /\ muddled' = (muddled \/ \E c \in calls : c.what = e)
  /\ UNCHANGED <<vars, rows, page, busy, email, about, listed, mailed,
                 edited>>

Toggle(e) == ChangeHook(e, IF listed[e] = "on" THEN "off" ELSE "on")

Remove(e) == ChangeHook(e, "gone")

ServeAdd(c) ==
  /\ session
  /\ \E e \in Endpoints :
       /\ hook[e] = "none"
       /\ hook' = [hook EXCEPT ![e] = "on"]
       /\ Reply(c, TRUE, e)
  /\ UNCHANGED <<vars, made, page, count, busy, email, about, listed,
                 past>>

\* PATCH and DELETE; 404 once it is gone.
ServeChange(c) ==
  /\ session /\ hook[c.what] # "gone"
  /\ hook' = [hook EXCEPT ![c.what] = c.does]
  /\ Reply(c, TRUE, Nothing)
  /\ UNCHANGED <<vars, made, page, count, busy, email, about, listed,
                 past>>

HearOfAdd(c) ==
  /\ calls' = calls \ {c}
  /\ IF Ok(c)
     THEN /\ listed' = [listed EXCEPT ![c.reply.got] = "on"]
          /\ about' = c.reply.got
     ELSE UNCHANGED <<listed, about>>
  /\ busy' = FALSE
  /\ UNCHANGED <<vars, rows, page, count, email, past>>

\* The page applies the change whatever the answer says.
HearOfChange(c) ==
  /\ calls' = calls \ {c}
  /\ listed' = [listed EXCEPT ![c.what] = IF Shown(c.what) THEN c.does ELSE @]
  /\ muddled' = (muddled \/ ~Ok(c))
  /\ UNCHANGED <<vars, rows, page, count, busy, email, about, mailed,
                 edited>>

-----------------------------------------------------------------------------
Lists == {"list", "list created"}
Changes == {"on", "off", "gone"}

Person ==
  \/ OpenLogin \/ Submit \/ TryAnotherAddress
  \/ \E a \in Addresses : TypeAddress(a)
  \/ \E c \in Codes : OpenConsent(c)
  \/ Authorize \/ DecideTooLate
  \/ OpenKeys \/ CreateKey \/ \E k \in Made : Revoke(k)
  \/ OpenHooks \/ AddHook \/ \E e \in Endpoints : Toggle(e) \/ Remove(e)
  \/ Leave

Server ==
  \/ \E c \in calls : Refuse(c)
  \/ \E c \in Unserved("link") : ServeLink(c)
  \/ \E c \in Unserved("create") : ServeCreate(c)
  \/ \E c \in Unserved("revoke") : ServeRevoke(c)
  \/ \E d \in Lists : \E c \in Unserved(d) : ServeList(c)
  \/ \E c \in Unserved("add") : ServeAdd(c)
  \/ \E d \in Changes : \E c \in Unserved(d) : ServeChange(c)

Page ==
  \/ \E c \in calls : Lose(c)
  \/ \E c \in Answered("link") : HearOfLink(c)
  \/ \E c \in Answered("create") : HearOfCreate(c)
  \/ \E c \in Answered("revoke") : HearOfRevoke(c)
  \/ \E d \in Lists : \E c \in Answered(d) : HearList(c)
  \/ \E c \in Answered("add") : HearOfAdd(c)
  \/ \E d \in Changes : \E c \in Answered(d) : HearOfChange(c)

ConsoleNext == Person \/ Server \/ Page \/ Elsewhere

ConsoleSpec == ConsoleInit /\ [][ConsoleNext]_<<vars, consoleVars>>

-----------------------------------------------------------------------------
LinkSentIsTrue ==
  page = "login" /\ about = "sent" /\ ~edited =>
    email = mailed \/ email \notin Allowed

ListIsCurrent ==
  page \in {"keys", "hooks"} /\ calls = {} /\ ~muddled =>
    listed = IF page = "keys" THEN made ELSE hook

\* What a page shows is true.  "We sent a sign-in link to ..." is true of the
\* address beside it, unless it was changed while the request was under way or
\* is not one of the beta's.  And when a page waits for nothing, its list is
\* what the server has: every change is followed by what it changed, in whatever
\* order changes overlap, unless an answer was lost, refused or overtaken.
ShownIsTrue == LinkSentIsTrue /\ ListIsCurrent
===============================================================================
