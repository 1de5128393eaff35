-------------------------------- MODULE Access --------------------------------
(***************************************************************************)
(* How one person gets in: magic links, agent signup, sessions, the        *)
(* default API key, and the OAuth grants of MCP clients, whose access      *)
(* tokens are API keys.  None of these routes uses a transaction: a        *)
(* request goes from await to await, others run meanwhile, and any of them *)
(* may fail or die on the way.                                             *)
(***************************************************************************)
EXTENDS Naturals, FiniteSets

CONSTANTS
  Slots,   \* requests that may run at the same time
  Links,   \* VerificationToken rows for the person's email
  Codes,   \* OAuthAuthCode rows: grants the person gives to a client
  Pairs,   \* access key and refresh token that are minted together
  NoArg

ASSUME AccessAssumption ==
  /\ NoArg \notin Links \cup Codes \cup Pairs
  /\ Codes \cap Pairs = {}

VARIABLES
  user,      \* a User row with this email exists
  defaults,  \* "Default" API keys of the user, counted up to 2
  link,      \* the state of the links
  logins,    \* history: sessions created from each link, counted up to 2
  session,   \* some session of the user is alive
  code,      \* the state of the codes
  refresh,   \* OAuthRefreshToken: the refresh token of a pair
  key,       \* ApiKey: the access key of a pair
  grant,     \* the code that a pair comes from
  pc,        \* the next step of a request
  arg,       \* the link, code or pair it was sent
  new,       \* the pair it is minting
  failed,    \* history: an account was left half made
  raced,     \* history: grants with an exchange or a rotation that overlapped
  kept       \* history: grants with a key whose revocation failed

accounts == <<user, defaults, failed>>
entrance == <<link, logins, session>>
tokens   == <<refresh, key, grant>>
grants   == <<code, tokens, raced, kept>>
request  == <<pc, arg, new>>
vars == <<accounts, entrance, grants, request>>

Steps == {"idle", "delete", "user", "create", "default", "session", "signup",
          "signup default", "use", "mint", "revoke", "revoke key", "refresh"}

TypeOK ==
  /\ user \in BOOLEAN /\ defaults \in 0..2 /\ failed \in BOOLEAN
  /\ link \in [Links -> {"none", "fresh", "gone"}]
  /\ logins \in [Links -> 0..2]
  /\ session \in BOOLEAN
  /\ code \in [Codes -> {"none", "fresh", "used"}]
  /\ refresh \in [Pairs -> {"none", "live", "revoked"}]
  /\ key \in [Pairs -> {"none", "live", "revoked"}]
  /\ grant \in [Pairs -> Codes \cup {NoArg}]
  /\ pc \in [Slots -> Steps]
  /\ arg \in [Slots -> Links \cup Codes \cup Pairs \cup {NoArg}]
  /\ new \in [Slots -> Pairs \cup {NoArg}]
  /\ raced \subseteq Codes /\ kept \subseteq Codes

Init ==
  /\ user = FALSE /\ defaults = 0 /\ failed = FALSE
  /\ link = [l \in Links |-> "none"]
  /\ logins = [l \in Links |-> 0]
  /\ session = FALSE
  /\ code = [c \in Codes |-> "none"]
  /\ refresh = [t \in Pairs |-> "none"]
  /\ key = [t \in Pairs |-> "none"]
  /\ grant = [t \in Pairs |-> NoArg]
  /\ pc = [s \in Slots |-> "idle"]
  /\ arg = [s \in Slots |-> NoArg]
  /\ new = [s \in Slots |-> NoArg]
  /\ raced = {} /\ kept = {}

Add1(n) == IF n < 2 THEN n + 1 ELSE n

Start(s, step, a) ==
  /\ pc[s] = "idle"
  /\ pc' = [pc EXCEPT ![s] = step]
  /\ arg' = [arg EXCEPT ![s] = a]
  /\ UNCHANGED new

Goto(s, step) ==
  /\ pc' = [pc EXCEPT ![s] = step]
  /\ UNCHANGED <<arg, new>>

End(s) ==
  /\ pc' = [pc EXCEPT ![s] = "idle"]
  /\ arg' = [arg EXCEPT ![s] = NoArg]
  /\ new' = [new EXCEPT ![s] = NoArg]

-----------------------------------------------------------------------------
\* Magic links.
\* POST /api/auth/send.
SendLink(l) ==
  /\ link[l] = "none"
  /\ link' = [link EXCEPT ![l] = "fresh"]
  /\ UNCHANGED <<accounts, logins, session, grants, request>>

LinkExpires(l) ==
  /\ link[l] = "fresh"
  /\ link' = [link EXCEPT ![l] = "gone"]
  /\ UNCHANGED <<accounts, logins, session, grants, request>>

\* GET /api/auth/verify: the link is looked up.
Verify(s, l) ==
  /\ link[l] = "fresh"
  /\ Start(s, "delete", l)
  /\ UNCHANGED <<accounts, entrance, grants>>

\* Mutation: deleteMany, which does not mind if nothing is left to delete.
DeleteMany(s) ==
  /\ pc[s] = "delete"
  /\ link' = [link EXCEPT ![arg[s]] = "gone"]
  /\ Goto(s, "user")
  /\ UNCHANGED <<accounts, logins, session, grants>>

\* delete throws if another request was first.
DeleteLink(s) ==
  /\ pc[s] = "delete"
  /\ IF link[arg[s]] = "fresh" THEN Goto(s, "user") ELSE End(s)
  /\ link' = [link EXCEPT ![arg[s]] = "gone"]
  /\ UNCHANGED <<accounts, logins, session, grants>>

FindUser(s) ==
  /\ pc[s] = "user"
  /\ Goto(s, IF user THEN "session" ELSE "create")
  /\ UNCHANGED <<accounts, entrance, grants>>

\* The email is unique: create throws if the user exists by now.
CreateUser(s) ==
  /\ pc[s] \in {"create", "signup"}
  /\ IF user THEN End(s)
     ELSE Goto(s, IF pc[s] = "create" THEN "default" ELSE "signup default")
  /\ user' = TRUE
  /\ UNCHANGED <<defaults, failed, entrance, grants>>

\* createApiKey: the sandbox key of a new user.
CreateDefault(s) ==
  /\ pc[s] \in {"default", "signup default"}
  /\ defaults' = Add1(defaults)
  /\ IF pc[s] = "default" THEN Goto(s, "session") ELSE End(s)
  /\ UNCHANGED <<user, failed, entrance, grants>>

CreateSession(s) ==
  /\ pc[s] = "session"
  /\ session' = TRUE
  /\ logins' = [logins EXCEPT ![arg[s]] = Add1(@)]
  /\ End(s)
  /\ UNCHANGED <<accounts, link, grants>>

\* POST /api/v1/signup: 409 if the email is known.
Signup(s) ==
  /\ ~user
  /\ Start(s, "signup", NoArg)
  /\ UNCHANGED <<accounts, entrance, grants>>

\* Logout, sign-out everywhere, and 30 days.
EndSessions ==
  /\ session
  /\ session' = FALSE
  /\ UNCHANGED <<accounts, link, logins, grants, request>>

-----------------------------------------------------------------------------
\* OAuth.
\* POST /api/oauth/authorize, which needs a session.
Approve(c) ==
  /\ session
  /\ code[c] = "none"
  /\ code' = [code EXCEPT ![c] = "fresh"]
  /\ UNCHANGED <<accounts, entrance, tokens, raced, kept, request>>

CodeExpires(c) ==
  /\ code[c] = "fresh"
  /\ code' = [code EXCEPT ![c] = "used"]
  /\ UNCHANGED <<accounts, entrance, tokens, raced, kept, request>>

\* Another request is between its read of a and its write.
Overlaps(step, a) == \E o \in Slots : pc[o] = step /\ arg[o] = a

\* exchangeAuthCode: usedAt is read, and set, apart.
Exchange(s, c) ==
  /\ code[c] = "fresh"
  /\ Start(s, "use", c)
  /\ raced' = IF Overlaps("use", c) THEN raced \cup {c} ELSE raced
  /\ UNCHANGED <<accounts, entrance, code, tokens, kept>>

UseCode(s) ==
  /\ pc[s] = "use"
  /\ code' = [code EXCEPT ![arg[s]] = "used"]
  /\ Goto(s, "mint")
  /\ UNCHANGED <<accounts, entrance, tokens, raced, kept>>

\* The grant that a request mints for.
GrantOf(s) == IF arg[s] \in Codes THEN arg[s] ELSE grant[arg[s]]

\* mintTokenPair: the access key, then the refresh token that knows it.
MintKey(s, t) ==
  /\ pc[s] = "mint"
  /\ key[t] = "none"
  /\ key' = [key EXCEPT ![t] = "live"]
  /\ grant' = [grant EXCEPT ![t] = GrantOf(s)]
  /\ pc' = [pc EXCEPT ![s] = "refresh"]
  /\ new' = [new EXCEPT ![s] = t]
  /\ UNCHANGED <<arg, accounts, entrance, code, refresh, raced, kept>>

MintRefresh(s) ==
  /\ pc[s] = "refresh"
  /\ refresh' = [refresh EXCEPT ![new[s]] = "live"]
  /\ End(s)
  /\ UNCHANGED <<accounts, entrance, code, key, grant, raced, kept>>

\* rotateRefreshToken: revokedAt is read, and set, apart.
Rotate(s, t) ==
  /\ refresh[t] = "live"
  /\ Start(s, "revoke", t)
  /\ raced' = IF Overlaps("revoke", t) THEN raced \cup {grant[t]} ELSE raced
  /\ UNCHANGED <<accounts, entrance, code, tokens, kept>>

RevokeRefresh(s) ==
  /\ pc[s] = "revoke"
  /\ refresh' = [refresh EXCEPT ![arg[s]] = "revoked"]
  /\ Goto(s, "revoke key")
  /\ UNCHANGED <<accounts, entrance, code, key, grant, raced, kept>>

\* Mutation: the former access key lives on until it expires.
KeepKey(s) ==
  /\ pc[s] = "revoke key"
  /\ Goto(s, "mint")
  /\ UNCHANGED <<accounts, entrance, grants>>

\* A failure to revoke the access key is swallowed.
RevokeKey(s) ==
  /\ pc[s] = "revoke key"
  /\ \/ key' = [key EXCEPT ![arg[s]] = "revoked"] /\ UNCHANGED kept
     \/ kept' = kept \cup {grant[arg[s]]} /\ UNCHANGED key
  /\ Goto(s, "mint")
  /\ UNCHANGED <<accounts, entrance, code, refresh, grant, raced>>

\* POST /api/oauth/token, by grant_type.
Token(s) == (\E c \in Codes : Exchange(s, c)) \/ (\E t \in Pairs : Rotate(s, t))

\* The dashboard revokes an access key, or 24 hours pass.
KeyEnds(t) ==
  /\ key[t] = "live"
  /\ key' = [key EXCEPT ![t] = "revoked"]
  /\ UNCHANGED <<accounts, entrance, code, refresh, grant, raced, kept,
                 request>>

\* 90 days pass.
RefreshEnds(t) ==
  /\ refresh[t] = "live"
  /\ refresh' = [refresh EXCEPT ![t] = "revoked"]
  /\ UNCHANGED <<accounts, entrance, code, key, grant, raced, kept, request>>

-----------------------------------------------------------------------------
\* A statement throws, or the process dies: nothing is undone.
Fail(s) ==
  /\ pc[s] # "idle"
  /\ End(s)
  /\ failed' = (failed \/ pc[s] \in {"default", "signup default"})
  /\ UNCHANGED <<user, defaults, entrance, grants>>

Next ==
  \/ \E l \in Links : SendLink(l) \/ LinkExpires(l)
  \/ \E c \in Codes : Approve(c) \/ CodeExpires(c)
  \/ \E t \in Pairs : KeyEnds(t) \/ RefreshEnds(t)
  \/ EndSessions
  \/ \E s \in Slots :
       \/ \E l \in Links : Verify(s, l)
       \/ DeleteLink(s) \/ FindUser(s) \/ CreateUser(s) \/ CreateDefault(s)
       \/ CreateSession(s) \/ Signup(s)
       \/ Token(s) \/ UseCode(s) \/ MintRefresh(s) \/ RevokeRefresh(s) \/ RevokeKey(s)
       \/ \E t \in Pairs : MintKey(s, t)
       \/ Fail(s)

Spec == Init /\ [][Next]_vars

-----------------------------------------------------------------------------
LinkLogsInOnce == \A l \in Links : logins[l] <= 1

OneDefaultKey ==
  /\ defaults <= 1
  /\ user /\ ~failed
        /\ (\A s \in Slots : pc[s] \notin {"default", "signup default"})
       => defaults = 1

\* A link logs in once, although nothing locks it between its lookup and its
\* deletion: of two requests with the same link the later one fails.  And
\* however signups and first logins of one email race, one of them makes the
\* user and its one default key; the key is missing only while it is being made,
\* or for ever if that failed.
OneOfEach == LinkLogsInOnce /\ OneDefaultKey

Live(f, c) == {t \in Pairs : grant[t] = c /\ f[t] = "live"}

\* A grant has at most one live refresh token, and at most one live access key
\* unless a revocation failed, as long as no two of its exchanges or rotations
\* overlap: wherever a rotation dies, no older token comes back.
OneLivePair ==
  \A c \in Codes \ raced :
    /\ Cardinality(Live(refresh, c)) <= 1
    /\ c \notin kept => Cardinality(Live(key, c)) <= 1
===============================================================================
