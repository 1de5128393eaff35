----------------------------- MODULE AccessProofs -----------------------------
(***************************************************************************)
(* Getting in, for any number of requests, links, grants and token pairs:  *)
(* each link logs in once, the account has one default key, and a grant    *)
(* has one live pair unless its own requests overlap.                      *)
(***************************************************************************)
EXTENDS Console, FiniteSetTheorems, TLAPS

-----------------------------------------------------------------------------
\* Between the deletion of a link and the login, only one request has it.
LoginSteps == {"user", "create", "default", "session"}

LinkHeld ==
  /\ \A s \in Slots : pc[s] \in LoginSteps \cup {"delete"} => arg[s] \in Links
  /\ \A s \in Slots : pc[s] \in LoginSteps =>
       link[arg[s]] = "gone" /\ logins[arg[s]] = 0
  /\ \A s, o \in Slots :
       pc[s] \in LoginSteps /\ pc[o] \in LoginSteps /\ arg[s] = arg[o] => s = o
  /\ \A l \in Links : logins[l] <= 1 /\ (logins[l] > 0 => link[l] = "gone")

\* Whoever made the user makes its default key.
Making == {"default", "signup default"}

DefaultHeld ==
  /\ \A s, o \in Slots : pc[s] \in Making /\ pc[o] \in Making => s = o
  /\ \A s \in Slots : pc[s] \in Making => user /\ defaults = 0 /\ ~failed
  /\ failed \/ defaults > 0 => user
  /\ OneDefaultKey

\* What a request of the token endpoint was sent and what it mints.
TokenSteps == {"use", "mint", "refresh", "revoke", "revoke key"}

PairHeld ==
  /\ \A t \in Pairs : grant[t] \in Codes <=> key[t] # "none"
  /\ \A t \in Pairs : refresh[t] # "none" => key[t] # "none"
  /\ \A s \in Slots :
       /\ pc[s] = "use" => arg[s] \in Codes
       /\ pc[s] \in {"mint", "refresh"} => arg[s] \in Codes \cup Pairs
       /\ pc[s] \in {"revoke", "revoke key"} => arg[s] \in Pairs
       /\ pc[s] \in TokenSteps /\ arg[s] \in Pairs => key[arg[s]] # "none"
       /\ pc[s] = "refresh" =>
            new[s] \in Pairs /\ key[new[s]] # "none" /\ grant[new[s]] = GrantOf(s)

\* A request works for a grant from its read of code or token to its last write.
WorksFor(s, c) == pc[s] \in TokenSteps /\ GrantOf(s) = c

PairsOf(c) == {t \in Pairs : grant[t] = c}

\* What may be alive while the request is at work: the token it has read; the
\* key it has read or has made.
TokenOf(s) == IF pc[s] = "revoke" THEN {arg[s]} ELSE {}

KeyOf(s) == CASE pc[s] = "refresh" -> {new[s]}
              [] pc[s] \in {"revoke", "revoke key"} -> {arg[s]}
              [] OTHER -> {}

\* A grant whose requests do not overlap has one request, or one live token; a
\* request that has read the token may stand beside it.
OneWorker(c) ==
  /\ \A s, o \in Slots : WorksFor(s, c) /\ WorksFor(o, c) => s = o
  /\ \A t, u \in Live(refresh, c) : t = u
  /\ \A s \in Slots : WorksFor(s, c) =>
       Live(refresh, c) \subseteq TokenOf(s)

\* A grant begins with its code.
BeginsWithCode(c) ==
  /\ code[c] \in {"none", "fresh"} =>
       /\ PairsOf(c) = {}
       /\ \A s \in Slots : WorksFor(s, c) => code[c] = "fresh" /\ pc[s] = "use"
  /\ \A s \in Slots :
       WorksFor(s, c) /\ pc[s] \in {"use", "mint"} /\ arg[s] \in Codes =>
         PairsOf(c) = {}

\* Its live key is that of the pair its request, or else its token, belongs to.
OneKey(c) ==
  /\ \A t, u \in Live(key, c) : t = u
  /\ \A t \in Live(refresh, c) : Live(key, c) \subseteq {t}
  /\ \A s \in Slots : WorksFor(s, c) => Live(key, c) \subseteq KeyOf(s)

GrantHeld ==
  \A c \in Codes \ raced :
    OneWorker(c) /\ BeginsWithCode(c) /\ (c \notin kept => OneKey(c))

AccessInv == TypeOK /\ LinkHeld /\ DefaultHeld /\ PairHeld /\ GrantHeld

-----------------------------------------------------------------------------
\* Types.

LEMMA Add1Type ==
  ASSUME NEW n \in 0..2
  PROVE  Add1(n) \in 0..2 /\ Add1(n) > 0 /\ (n = 0 => Add1(n) = 1)
  BY DEF Add1

LEMMA InitAccess == Init => AccessInv
<1> SUFFICES ASSUME Init PROVE AccessInv
  OBVIOUS
<1>1. TypeOK
  <2>1. user \in BOOLEAN /\ failed \in BOOLEAN /\ session \in BOOLEAN
    BY DEF Init
  <2>2. defaults \in 0..2 /\ logins \in [Links -> 0..2]
    BY DEF Init
  <2> QED
    BY <2>1, <2>2 DEF Init, TypeOK, Steps
<1>2. LinkHeld /\ DefaultHeld
  BY DEF Init, LinkHeld, DefaultHeld, LoginSteps, Making, OneDefaultKey
<1>3. PairHeld
  BY AccessAssumption DEF Init, PairHeld, TokenSteps
<1>4. GrantHeld
  <2> SUFFICES ASSUME NEW c \in Codes
               PROVE  OneWorker(c) /\ BeginsWithCode(c) /\ OneKey(c)
    BY DEF GrantHeld
  <2>1. PairsOf(c) = {}
    BY AccessAssumption DEF Init, PairsOf
  <2>2. Live(refresh, c) = {} /\ Live(key, c) = {}
    BY DEF Init, Live
  <2>3. \A s \in Slots : ~WorksFor(s, c)
    BY DEF Init, WorksFor, TokenSteps
  <2> QED
    BY <2>1, <2>2, <2>3 DEF OneWorker, BeginsWithCode, OneKey
<1> QED
  BY <1>1, <1>2, <1>3, <1>4 DEF AccessInv

\* What a request does to its own record, and to no other.
LEMMA StartType ==
  ASSUME TypeOK, NEW s \in Slots, NEW step \in Steps,
         NEW a \in Links \cup Codes \cup Pairs \cup {NoArg}, Start(s, step, a)
  PROVE  /\ pc' \in [Slots -> Steps] /\ new' = new
         /\ arg' \in [Slots -> Links \cup Codes \cup Pairs \cup {NoArg}]
         /\ pc[s] = "idle" /\ pc'[s] = step /\ arg'[s] = a
         /\ \A o \in Slots \ {s} : pc'[o] = pc[o] /\ arg'[o] = arg[o]
  BY DEF Start, TypeOK

LEMMA GotoType ==
  ASSUME TypeOK, NEW s \in Slots, NEW step \in Steps, Goto(s, step)
  PROVE  /\ pc' \in [Slots -> Steps] /\ arg' = arg /\ new' = new
         /\ pc'[s] = step
         /\ \A o \in Slots \ {s} : pc'[o] = pc[o]
  BY DEF Goto, TypeOK

LEMMA EndType ==
  ASSUME TypeOK, NEW s \in Slots, End(s)
  PROVE  /\ pc' \in [Slots -> Steps]
         /\ arg' \in [Slots -> Links \cup Codes \cup Pairs \cup {NoArg}]
         /\ new' \in [Slots -> Pairs \cup {NoArg}]
         /\ pc'[s] = "idle"
         /\ \A o \in Slots \ {s} :
              pc'[o] = pc[o] /\ arg'[o] = arg[o] /\ new'[o] = new[o]
  BY DEF End, TypeOK, Steps

\* The requests by what they may touch: the entrance, the grants, or nothing.
Entering(s) ==
  \/ \E l \in Links : Verify(s, l)
  \/ DeleteLink(s) \/ FindUser(s) \/ CreateUser(s) \/ CreateDefault(s)
  \/ CreateSession(s) \/ Signup(s)

Granting(s) ==
  \/ Token(s) \/ UseCode(s) \/ MintRefresh(s) \/ RevokeRefresh(s) \/ RevokeKey(s)
  \/ \E t \in Pairs : MintKey(s, t)

TimePasses ==
  \/ \E l \in Links : SendLink(l) \/ LinkExpires(l)
  \/ \E c \in Codes : Approve(c) \/ CodeExpires(c)
  \/ \E t \in Pairs : KeyEnds(t) \/ RefreshEnds(t)
  \/ EndSessions

LEMMA NextIs ==
  Next <=> TimePasses \/ \E s \in Slots : Entering(s) \/ Granting(s) \/ Fail(s)
  BY DEF Next, TimePasses, Entering, Granting

LEMMA AccountType ==
  ASSUME TypeOK, NEW s \in Slots, Entering(s)
  PROVE  TypeOK'
<1>1. CASE \E l \in Links : Verify(s, l)
  <2> PICK l \in Links : Verify(s, l)
    BY <1>1
  <2>1. Start(s, "delete", l)
    BY DEF Verify
  <2> QED
    BY <2>1, StartType, ZenonT(40) DEF Verify, TypeOK, Steps, accounts, entrance, grants, tokens
<1>2. CASE DeleteLink(s)
  BY <1>2, EndType, GotoType, ZenonT(40)
  DEF DeleteLink, TypeOK, Steps, accounts, entrance, grants, tokens
<1>3. CASE FindUser(s)
  BY <1>3, GotoType DEF FindUser, TypeOK, Steps, accounts, entrance, grants, tokens
<1>4. CASE CreateUser(s)
  BY <1>4, EndType, GotoType
  DEF CreateUser, TypeOK, Steps, accounts, entrance, grants, tokens
<1>5. CASE CreateDefault(s)
  <2>1. defaults \in 0..2
    BY DEF TypeOK
  <2>2. defaults' \in 0..2
    BY <1>5, <2>1, Add1Type DEF CreateDefault
  <2> QED
    BY <1>5, <2>2, EndType, GotoType
    DEF CreateDefault, TypeOK, Steps, accounts, entrance, grants, tokens
<1>6. CASE CreateSession(s)
  <2>1. session' \in BOOLEAN
    BY <1>6 DEF CreateSession
  <2>0. logins \in [Links -> 0..2]
    BY DEF TypeOK
  <2>2. logins' \in [Links -> 0..2]
    BY <1>6, <2>0, Add1Type DEF CreateSession
  <2> QED
    BY <1>6, <2>1, <2>2, EndType
    DEF CreateSession, TypeOK, accounts, entrance, grants, tokens
<1>7. CASE Signup(s)
  BY <1>7, StartType, ZenonT(40) DEF Signup, TypeOK, Steps, accounts, entrance, grants, tokens
<1> QED
  BY <1>1, <1>2, <1>3, <1>4, <1>5, <1>6, <1>7 DEF Entering

LEMMA GrantType ==
  ASSUME AccessInv, NEW s \in Slots, Granting(s)
  PROVE  TypeOK'
<1> USE DEF AccessInv
<1>1. CASE \E c \in Codes : Exchange(s, c)
  <2> PICK c \in Codes : Exchange(s, c)
    BY <1>1
  <2>1. Start(s, "use", c)
    BY DEF Exchange
  <2>2. raced' \subseteq Codes
    BY DEF Exchange, TypeOK
  <2> QED
    BY <2>1, <2>2, StartType, ZenonT(40)
    DEF Exchange, TypeOK, Steps, accounts, entrance, tokens
<1>2. CASE \E t \in Pairs : Rotate(s, t)
  <2> PICK t \in Pairs : Rotate(s, t)
    BY <1>2
  <2>1. Start(s, "revoke", t) /\ grant[t] \in Codes
    BY DEF Rotate, PairHeld, TypeOK
  <2>2. raced' \subseteq Codes
    BY <2>1 DEF Rotate, TypeOK
  <2> QED
    BY <2>1, <2>2, StartType, ZenonT(40) DEF Rotate, TypeOK, Steps, accounts, entrance, tokens
<1>3. CASE UseCode(s)
  BY <1>3, GotoType DEF UseCode, TypeOK, Steps, accounts, entrance, tokens
<1>4. CASE MintRefresh(s)
  BY <1>4, EndType DEF MintRefresh, TypeOK, Steps, accounts, entrance, tokens
<1>5. CASE RevokeRefresh(s)
  BY <1>5, GotoType DEF RevokeRefresh, TypeOK, Steps, accounts, entrance, tokens
<1>6. CASE RevokeKey(s)
  <2>1. Goto(s, "mint") /\ arg[s] \in Pairs /\ grant[arg[s]] \in Codes
    BY <1>6 DEF RevokeKey, PairHeld, TokenSteps
  <2> QED
    BY <1>6, <2>1, GotoType DEF RevokeKey, TypeOK, Steps, accounts, entrance, tokens
<1>7. CASE \E t \in Pairs : MintKey(s, t)
  <2> PICK t \in Pairs : MintKey(s, t)
    BY <1>7
  <2>1. GrantOf(s) \in Codes
    BY DEF MintKey, PairHeld, GrantOf, TokenSteps
  <2> QED
    BY <2>1 DEF MintKey, TypeOK, Steps, accounts, entrance, tokens
<1> QED
  BY <1>1, <1>2, <1>3, <1>4, <1>5, <1>6, <1>7 DEF Granting, Token

LEMMA NextType == AccessInv /\ [Next]_vars => TypeOK'
<1> SUFFICES ASSUME AccessInv, [Next]_vars PROVE TypeOK'
  OBVIOUS
<1> USE DEF AccessInv
<1>1. ASSUME NEW s \in Slots, Fail(s) PROVE TypeOK'
  BY <1>1, EndType DEF Fail, TypeOK, entrance, grants, tokens
<1>2. CASE TimePasses
  BY <1>2, ZenonT(40)
  DEF TimePasses, SendLink, LinkExpires, Approve, CodeExpires, KeyEnds, RefreshEnds,
      EndSessions, TypeOK, accounts, entrance, grants, tokens, request
<1>3. CASE UNCHANGED vars
  BY <1>3 DEF TypeOK, vars, accounts, entrance, grants, tokens, request
<1> QED
  BY <1>1, <1>2, <1>3, NextIs, AccountType, GrantType

-----------------------------------------------------------------------------
\* Frames: what each kind of request leaves alone.

Others(s) ==
  \A o \in Slots \ {s} : pc'[o] = pc[o] /\ arg'[o] = arg[o] /\ new'[o] = new[o]

EnterSteps == LoginSteps \cup Making \cup {"idle", "delete", "signup"}

LEMMA EnterFrame ==
  ASSUME TypeOK, NEW s \in Slots, Entering(s)
  PROVE  /\ UNCHANGED grants /\ Others(s)
         /\ pc[s] \in EnterSteps /\ pc'[s] \in EnterSteps
<1> USE DEF Others, EnterSteps, LoginSteps, Making
<1>1. CASE \E l \in Links : Verify(s, l)
  BY <1>1 DEF Verify, Start, TypeOK
<1>2. CASE DeleteLink(s)
  BY <1>2 DEF DeleteLink, Goto, End, TypeOK
<1>3. CASE FindUser(s) \/ CreateUser(s)
  BY <1>3 DEF FindUser, CreateUser, Goto, End, TypeOK
<1>4. CASE CreateDefault(s) \/ CreateSession(s)
  BY <1>4 DEF CreateDefault, CreateSession, Goto, End, TypeOK
<1>5. CASE Signup(s)
  BY <1>5 DEF Signup, Start, TypeOK
<1> QED
  BY <1>1, <1>2, <1>3, <1>4, <1>5 DEF Entering

LEMMA GrantFrame ==
  ASSUME TypeOK, NEW s \in Slots, Granting(s)
  PROVE  /\ UNCHANGED <<accounts, entrance>> /\ Others(s)
         /\ pc[s] \in TokenSteps \cup {"idle"} /\ pc'[s] \in TokenSteps \cup {"idle"}
<1> USE DEF Others, TokenSteps
<1>1. CASE Token(s)
  BY <1>1 DEF Token, Exchange, Rotate, Start, TypeOK
<1>2. CASE UseCode(s) \/ RevokeRefresh(s) \/ RevokeKey(s)
  BY <1>2 DEF UseCode, RevokeRefresh, RevokeKey, Goto, TypeOK
<1>3. CASE MintRefresh(s)
  BY <1>3 DEF MintRefresh, End, TypeOK
<1>4. CASE \E t \in Pairs : MintKey(s, t)
  BY <1>4 DEF MintKey, TypeOK
<1> QED
  BY <1>1, <1>2, <1>3, <1>4 DEF Granting

LEMMA FailFrame ==
  ASSUME TypeOK, NEW s \in Slots, Fail(s)
  PROVE  /\ UNCHANGED <<user, defaults, entrance, grants>> /\ Others(s)
         /\ pc[s] # "idle" /\ pc'[s] = "idle"
  BY DEF Fail, End, Others, TypeOK

-----------------------------------------------------------------------------
\* Links.

LEMMA LinkFrame ==
  ASSUME LinkHeld, NEW s \in Slots, Others(s), UNCHANGED <<link, logins>>,
         pc'[s] \notin LoginSteps \cup {"delete"}
  PROVE  LinkHeld'
  BY DEF LinkHeld, Others

\* A request goes on with its link, or ends.
LEMMA LinkKept ==
  ASSUME LinkHeld, NEW s \in Slots, Others(s), UNCHANGED <<link, logins, arg>>,
         pc[s] \in LoginSteps
  PROVE  LinkHeld'
  BY DEF LinkHeld, Others, LoginSteps

LEMMA EnterLink ==
  ASSUME AccessInv, NEW s \in Slots, Entering(s)
  PROVE  LinkHeld'
<1> USE DEF AccessInv
<1>0. Others(s)
  BY EnterFrame
<1>1. CASE \E l \in Links : Verify(s, l)
  <2> PICK l \in Links : Verify(s, l)
    BY <1>1
  <2>1. pc'[s] = "delete" /\ arg'[s] = l
    BY DEF Verify, Start, TypeOK
  <2> QED
    BY <1>0, <2>1 DEF Verify, LinkHeld, Others, LoginSteps, entrance
<1>2. CASE DeleteLink(s)
  <2>1. arg[s] \in Links
    BY <1>2 DEF DeleteLink, LinkHeld
  <2>2. /\ link'[arg[s]] = "gone" /\ logins' = logins
        /\ \A l \in Links \ {arg[s]} : link'[l] = link[l]
    BY <1>2, <2>1 DEF DeleteLink, TypeOK
  <2>3. CASE link[arg[s]] = "fresh"
    <3>1. pc'[s] = "user" /\ arg' = arg
      BY <1>2, <2>3 DEF DeleteLink, Goto, TypeOK
    <3>2. logins[arg[s]] = 0
      BY <2>1, <2>3 DEF LinkHeld, TypeOK
    <3>3. \A o \in Slots : pc[o] \in LoginSteps => arg[o] # arg[s]
      BY <2>3 DEF LinkHeld
    <3> QED
      BY <1>0, <2>1, <2>2, <3>1, <3>2, <3>3 DEF LinkHeld, Others, LoginSteps
  <2>4. CASE link[arg[s]] # "fresh"
    <3>1. pc'[s] = "idle"
      BY <1>2, <2>4 DEF DeleteLink, End, TypeOK
    <3> QED
      BY <1>0, <2>1, <2>2, <3>1 DEF LinkHeld, Others, LoginSteps
  <2> QED
    BY <2>3, <2>4
<1>3. CASE FindUser(s)
  BY <1>0, <1>3, LinkKept DEF FindUser, Goto, LoginSteps, entrance
<1>4. CASE CreateUser(s)
  <2>1. CASE ~user /\ pc[s] = "create"
    BY <1>0, <1>4, <2>1, LinkKept DEF CreateUser, Goto, LoginSteps, entrance
  <2>2. CASE user \/ pc[s] = "signup"
    <3>1. pc'[s] \in {"idle", "signup default"}
      BY <1>4, <2>2 DEF CreateUser, Goto, End, TypeOK
    <3> QED
      BY <1>0, <1>4, <3>1, LinkFrame DEF CreateUser, LoginSteps, entrance
  <2> QED
    BY <1>4, <2>1, <2>2 DEF CreateUser
<1>5. CASE CreateDefault(s)
  <2>1. CASE pc[s] = "default"
    BY <1>0, <1>5, <2>1, LinkKept DEF CreateDefault, Goto, LoginSteps, entrance
  <2>2. CASE pc[s] # "default"
    <3>1. pc'[s] = "idle"
      BY <1>5, <2>2 DEF CreateDefault, End, TypeOK
    <3> QED
      BY <1>0, <1>5, <3>1, LinkFrame DEF CreateDefault, LoginSteps, entrance
  <2> QED
    BY <2>1, <2>2
<1>6. CASE CreateSession(s)
  <2>1. /\ pc[s] \in LoginSteps /\ arg[s] \in Links
        /\ link[arg[s]] = "gone" /\ logins[arg[s]] = 0
    BY <1>6 DEF CreateSession, LinkHeld, LoginSteps
  <2>2. /\ logins'[arg[s]] = 1 /\ link' = link
        /\ \A l \in Links \ {arg[s]} : logins'[l] = logins[l]
    BY <1>6, <2>1, Add1Type DEF CreateSession, TypeOK
  <2>3. pc'[s] = "idle"
    BY <1>6 DEF CreateSession, End, TypeOK
  <2>4. \A o \in Slots \ {s} : pc[o] \in LoginSteps => arg[o] # arg[s]
    BY <2>1 DEF LinkHeld
  <2> QED
    BY <1>0, <2>1, <2>2, <2>3, <2>4 DEF LinkHeld, Others, LoginSteps
<1>7. CASE Signup(s)
  <2>1. pc'[s] = "signup"
    BY <1>7 DEF Signup, Start, TypeOK
  <2> QED
    BY <1>0, <1>7, <2>1, LinkFrame DEF Signup, LoginSteps, entrance
<1> QED
  BY <1>1, <1>2, <1>3, <1>4, <1>5, <1>6, <1>7 DEF Entering

LEMMA NextLink == AccessInv /\ [Next]_vars => LinkHeld'
<1> SUFFICES ASSUME AccessInv, [Next]_vars PROVE LinkHeld'
  OBVIOUS
<1> USE DEF AccessInv
<1>1. ASSUME NEW s \in Slots, Granting(s) PROVE LinkHeld'
  BY <1>1, GrantFrame, LinkFrame DEF entrance, TokenSteps, LoginSteps
<1>2. ASSUME NEW s \in Slots, Fail(s) PROVE LinkHeld'
  BY <1>2, FailFrame, LinkFrame DEF entrance, LoginSteps
<1>3. ASSUME NEW l \in Links, SendLink(l) \/ LinkExpires(l) PROVE LinkHeld'
  BY <1>3 DEF SendLink, LinkExpires, LinkHeld, LoginSteps, TypeOK, request
<1>4. CASE UNCHANGED <<link, logins, request>>
  BY <1>4 DEF LinkHeld, request
<1>5. TimePasses =>
        \/ \E l \in Links : SendLink(l) \/ LinkExpires(l)
        \/ UNCHANGED <<link, logins, request>>
  BY DEF TimePasses, Approve, CodeExpires, KeyEnds, RefreshEnds, EndSessions,
     entrance
<1>6. UNCHANGED vars => UNCHANGED <<link, logins, request>>
  BY DEF vars, entrance
<1> QED
  BY <1>1, <1>2, <1>3, <1>4, <1>5, <1>6, NextIs, EnterLink

-----------------------------------------------------------------------------
\* The default key.

LEMMA DefaultFrame ==
  ASSUME DefaultHeld, NEW s \in Slots, Others(s), UNCHANGED accounts,
         pc[s] \notin Making, pc'[s] \notin Making
  PROVE  DefaultHeld'
  BY DEF DefaultHeld, OneDefaultKey, Making, Others, accounts

LEMMA EnterDefault ==
  ASSUME AccessInv, NEW s \in Slots, Entering(s)
  PROVE  DefaultHeld'
<1> USE DEF AccessInv
<1>0. Others(s)
  BY EnterFrame
<1>1. CASE \/ \E l \in Links : Verify(s, l)
           \/ DeleteLink(s) \/ FindUser(s) \/ CreateSession(s) \/ Signup(s)
  <2>1. UNCHANGED accounts
    BY <1>1 DEF Verify, DeleteLink, FindUser, CreateSession, Signup
  <2>2. pc[s] \notin Making /\ pc'[s] \notin Making
    BY <1>1 DEF Verify, DeleteLink, FindUser, CreateSession, Signup, Start, Goto, End,
       Making, TypeOK
  <2> QED
    BY <1>0, <2>1, <2>2, DefaultFrame
<1>2. CASE CreateUser(s)
  <2>0. pc[s] \notin Making
    BY <1>2 DEF CreateUser, Making
  <2>1. CASE user
    <3>1. pc'[s] = "idle" /\ user' = user
      BY <1>2, <2>1 DEF CreateUser, End, TypeOK
    <3> QED
      BY <1>0, <1>2, <2>0, <3>1, DefaultFrame DEF CreateUser, Making, accounts
  <2>2. CASE ~user
    <3>1. pc'[s] \in Making /\ user' /\ defaults' = defaults /\ failed' = failed
      BY <1>2, <2>2 DEF CreateUser, Goto, Making, TypeOK
    <3>2. defaults = 0 /\ ~failed
      BY <2>2 DEF DefaultHeld, TypeOK
    <3>3. \A o \in Slots : pc[o] \notin Making
      BY <2>2 DEF DefaultHeld
    <3> QED
      BY <1>0, <3>1, <3>2, <3>3 DEF DefaultHeld, OneDefaultKey, Making, Others
  <2> QED
    BY <2>1, <2>2
<1>3. CASE CreateDefault(s)
  <2>1. pc[s] \in Making /\ user /\ defaults = 0 /\ ~failed
    BY <1>3 DEF CreateDefault, Making, DefaultHeld
  <2>0. defaults = 0
    BY <2>1
  <2>7. defaults' = Add1(defaults)
    BY <1>3 DEF CreateDefault
  <2>2. defaults' = 1
    BY <2>0, <2>7 DEF Add1
  <2>5. user' = user /\ failed' = failed
    BY <1>3 DEF CreateDefault
  <2>6. user' /\ ~failed'
    BY <2>1, <2>5, Zenon
  <2>3. pc'[s] \notin Making
    BY <1>3 DEF CreateDefault, Goto, End, Making, TypeOK
  <2>4. \A o \in Slots : pc'[o] \notin Making
    BY <1>0, <2>1, <2>3 DEF DefaultHeld, Others
  <2> QED
    <3>1. OneDefaultKey'
      BY <2>2 DEF OneDefaultKey
    <3> QED
      BY <2>4, <2>6, <3>1, Zenon DEF DefaultHeld
<1> QED
  BY <1>1, <1>2, <1>3 DEF Entering

LEMMA NextDefault == AccessInv /\ [Next]_vars => DefaultHeld'
<1> SUFFICES ASSUME AccessInv, [Next]_vars PROVE DefaultHeld'
  OBVIOUS
<1> USE DEF AccessInv
<1>1. ASSUME NEW s \in Slots, Granting(s) PROVE DefaultHeld'
  BY <1>1, GrantFrame, DefaultFrame DEF TokenSteps, Making
<1>2. ASSUME NEW s \in Slots, Fail(s) PROVE DefaultHeld'
  <2>1. /\ Others(s) /\ pc'[s] = "idle" /\ user' = user /\ defaults' = defaults
        /\ failed' = (failed \/ pc[s] \in Making)
    BY <1>2, FailFrame DEF Fail, Making
  <2> QED
    BY <2>1 DEF DefaultHeld, OneDefaultKey, Making, Others
<1>3. CASE UNCHANGED <<accounts, request>>
  BY <1>3 DEF DefaultHeld, OneDefaultKey, accounts, request
<1>4. TimePasses => UNCHANGED <<accounts, request>>
  BY DEF TimePasses, SendLink, LinkExpires, Approve, CodeExpires, KeyEnds,
     RefreshEnds, EndSessions
<1>5. UNCHANGED vars => UNCHANGED <<accounts, request>>
  BY DEF vars
<1> QED
  BY <1>1, <1>2, <1>3, <1>4, <1>5, NextIs, EnterDefault

-----------------------------------------------------------------------------
\* Pairs and what requests know of them.

LEMMA PairFrame ==
  ASSUME PairHeld, NEW s \in Slots, Others(s), UNCHANGED tokens,
         pc'[s] \notin TokenSteps
  PROVE  PairHeld'
  BY DEF PairHeld, Others, TokenSteps, GrantOf, tokens

LEMMA GrantPair ==
  ASSUME AccessInv, NEW s \in Slots, Granting(s)
  PROVE  PairHeld'
<1> USE AccessAssumption DEF AccessInv
<1>0. Others(s)
  BY GrantFrame
<1>1. ASSUME NEW c \in Codes, Exchange(s, c) PROVE PairHeld'
  <2>1. pc'[s] = "use" /\ arg'[s] = c
    BY <1>1 DEF Exchange, Start, TypeOK
  <2> QED
    BY <1>0, <1>1, <2>1, ZenonT(40) DEF Exchange, PairHeld, Others, TokenSteps, GrantOf, tokens
<1>2. ASSUME NEW t \in Pairs, Rotate(s, t) PROVE PairHeld'
  <2>1. pc'[s] = "revoke" /\ arg'[s] = t /\ key[t] # "none"
    BY <1>2 DEF Rotate, Start, TypeOK, PairHeld
  <2> QED
    BY <1>0, <1>2, <2>1, ZenonT(40) DEF Rotate, PairHeld, Others, TokenSteps, GrantOf, tokens
<1>3. CASE UseCode(s)
  <2>1. pc'[s] = "mint" /\ arg' = arg
    BY <1>3 DEF UseCode, Goto, TypeOK
  <2> QED
    BY <1>0, <1>3, <2>1, ZenonT(40) DEF UseCode, PairHeld, Others, TokenSteps, GrantOf, tokens
<1>4. CASE RevokeRefresh(s)
  <2>1. /\ pc'[s] = "revoke key" /\ arg' = arg
        /\ arg[s] \in Pairs /\ key[arg[s]] # "none"
    BY <1>4 DEF RevokeRefresh, Goto, TypeOK, PairHeld, TokenSteps
  <2>2. \A t \in Pairs : refresh'[t] # "none" => key[t] # "none"
    BY <1>4, <2>1 DEF RevokeRefresh, PairHeld, TypeOK
  <2> QED
    BY <1>0, <1>4, <2>1, <2>2, ZenonT(40) DEF RevokeRefresh, PairHeld, Others, TokenSteps, GrantOf
<1>5. CASE RevokeKey(s)
  <2>1. /\ pc'[s] = "mint" /\ arg' = arg
        /\ arg[s] \in Pairs /\ key[arg[s]] # "none"
    BY <1>5 DEF RevokeKey, Goto, TypeOK, PairHeld, TokenSteps
  <2>2. \A t \in Pairs : key'[t] # "none" <=> key[t] # "none"
    BY <1>5, <2>1 DEF RevokeKey, TypeOK
  <2> QED
    BY <1>0, <1>5, <2>1, <2>2, ZenonT(40) DEF RevokeKey, PairHeld, Others, TokenSteps, GrantOf
<1>6. ASSUME NEW t \in Pairs, MintKey(s, t) PROVE PairHeld'
  <2>1. /\ pc'[s] = "refresh" /\ arg' = arg /\ new'[s] = t
        /\ pc[s] = "mint" /\ key[t] = "none" /\ refresh' = refresh
    BY <1>6 DEF MintKey, TypeOK
  <2>2. /\ key'[t] = "live" /\ grant'[t] = GrantOf(s)
        /\ \A u \in Pairs \ {t} : key'[u] = key[u] /\ grant'[u] = grant[u]
    BY <1>6 DEF MintKey, TypeOK
  <2>3. \A o \in Slots : pc[o] \in TokenSteps /\ arg[o] \in Pairs => arg[o] # t
    BY <2>1 DEF PairHeld
  <2>4. \A o \in Slots : pc[o] = "refresh" => new[o] # t
    BY <2>1 DEF PairHeld
  <2>5. \A o \in Slots : pc[o] \in {"mint", "refresh"} => GrantOf(o)' = GrantOf(o)
    BY <2>1, <2>2, <2>3 DEF PairHeld, GrantOf, TokenSteps
  <2>6. GrantOf(s) \in Codes
    BY <2>1 DEF PairHeld, GrantOf, TokenSteps
  <2>7. \A u \in Pairs : /\ grant'[u] \in Codes <=> key'[u] # "none"
                         /\ refresh'[u] # "none" => key'[u] # "none"
    BY <2>1, <2>2, <2>6, ZenonT(40) DEF PairHeld
  <2>8. ASSUME NEW o \in Slots
        PROVE  /\ pc'[o] = "use" => arg'[o] \in Codes
               /\ pc'[o] \in {"mint", "refresh"} => arg'[o] \in Codes \cup Pairs
               /\ pc'[o] \in {"revoke", "revoke key"} => arg'[o] \in Pairs
               /\ pc'[o] \in TokenSteps /\ arg'[o] \in Pairs =>
                    key'[arg'[o]] # "none"
               /\ pc'[o] = "refresh" =>
                    /\ new'[o] \in Pairs /\ key'[new'[o]] # "none"
                    /\ grant'[new'[o]] = GrantOf(o)'
    <3>1. CASE o = s
      BY <2>1, <2>2, <2>3, <2>5, <3>1 DEF PairHeld, TokenSteps
    <3>2. CASE o # s
      <4>1. pc'[o] = pc[o] /\ arg'[o] = arg[o] /\ new'[o] = new[o]
        BY <1>0, <3>2 DEF Others
      <4>2. pc[o] = "refresh" =>
              /\ new[o] \in Pairs /\ key'[new[o]] # "none"
              /\ grant'[new[o]] = GrantOf(o)'
        BY <2>2, <2>4, <2>5, ZenonT(40) DEF PairHeld
      <4> QED
        BY <2>1, <2>2, <2>3, <4>1, <4>2 DEF PairHeld, TokenSteps
    <3> QED
      BY <3>1, <3>2
  <2> QED
    BY <2>7, <2>8 DEF PairHeld
<1>7. CASE MintRefresh(s)
  <2>1. pc'[s] = "idle" /\ new[s] \in Pairs /\ key[new[s]] # "none"
    BY <1>7 DEF MintRefresh, End, TypeOK, PairHeld
  <2>2. \A t \in Pairs : refresh'[t] # "none" => key[t] # "none"
    BY <1>7, <2>1 DEF MintRefresh, PairHeld, TypeOK
  <2> QED
    BY <1>0, <1>7, <2>1, <2>2, ZenonT(40) DEF MintRefresh, PairHeld, Others, TokenSteps, GrantOf
<1> QED
  BY <1>1, <1>2, <1>3, <1>4, <1>5, <1>6, <1>7 DEF Granting, Token

LEMMA NextPair == AccessInv /\ [Next]_vars => PairHeld'
<1> SUFFICES ASSUME AccessInv, [Next]_vars PROVE PairHeld'
  OBVIOUS
<1> USE DEF AccessInv
<1>1. ASSUME NEW s \in Slots, Entering(s) PROVE PairHeld'
  BY <1>1, EnterFrame, PairFrame
  DEF grants, EnterSteps, LoginSteps, Making, TokenSteps
<1>2. ASSUME NEW s \in Slots, Fail(s) PROVE PairHeld'
  BY <1>2, FailFrame, PairFrame DEF grants, TokenSteps
<1>3. ASSUME NEW t \in Pairs, KeyEnds(t) \/ RefreshEnds(t) PROVE PairHeld'
  <2>1. /\ \A u \in Pairs : key'[u] # "none" <=> key[u] # "none"
        /\ \A u \in Pairs : refresh'[u] # "none" <=> refresh[u] # "none"
        /\ UNCHANGED <<grant, request>>
    BY <1>3 DEF KeyEnds, RefreshEnds, TypeOK
  <2> QED
    BY <2>1 DEF PairHeld, GrantOf, request, TokenSteps
<1>4. CASE UNCHANGED <<tokens, request>>
  BY <1>4 DEF PairHeld, GrantOf, tokens, request
<1>5. TimePasses => \/ \E t \in Pairs : KeyEnds(t) \/ RefreshEnds(t)
                    \/ UNCHANGED <<tokens, request>>
  BY DEF TimePasses, SendLink, LinkExpires, Approve, CodeExpires, EndSessions,
     grants
<1>6. UNCHANGED vars => UNCHANGED <<tokens, request>>
  BY DEF vars, grants
<1> QED
  BY <1>1, <1>2, <1>3, <1>4, <1>5, <1>6, NextIs, GrantPair

-----------------------------------------------------------------------------
\* One live pair of each grant whose requests do not overlap.

Held(c) == OneWorker(c) /\ BeginsWithCode(c) /\ (c \notin kept => OneKey(c))

\* A request that is at work for no grant any more takes nothing from it.
LEMMA WorkFrame ==
  ASSUME NEW s \in Slots, NEW c \in Codes, Held(c), Others(s), UNCHANGED grants,
         pc'[s] \notin TokenSteps
  PROVE  Held(c)'
<1>1. \A o \in Slots : WorksFor(o, c)' =>
        /\ o # s /\ WorksFor(o, c)
        /\ pc'[o] = pc[o] /\ arg'[o] = arg[o] /\ new'[o] = new[o]
  BY DEF WorksFor, GrantOf, Others, grants, tokens
<1>2. /\ Live(refresh, c)' = Live(refresh, c) /\ Live(key, c)' = Live(key, c)
      /\ PairsOf(c)' = PairsOf(c) /\ code' = code /\ kept' = kept
  BY DEF Live, PairsOf, grants, tokens
<1>3. OneWorker(c)'
  BY <1>1, <1>2 DEF Held, OneWorker, TokenOf
<1>4. BeginsWithCode(c)'
  BY <1>1, <1>2 DEF Held, BeginsWithCode
<1>5. c \notin kept' => OneKey(c)'
  BY <1>1, <1>2 DEF Held, OneKey, KeyOf
<1> QED
  BY <1>3, <1>4, <1>5 DEF Held

\* Tokens that end, and codes that are given or end.
LEMMA EndFrame ==
  ASSUME NEW c \in Codes, Held(c), UNCHANGED <<grant, kept, request>>,
         \A t \in Pairs : /\ refresh'[t] = "live" => refresh[t] = "live"
                          /\ key'[t] = "live" => key[t] = "live",
         \/ code'[c] = code[c]
         \/ code[c] = "none" /\ code'[c] = "fresh"
         \/ code'[c] = "used"
  PROVE  Held(c)'
<1>1. \A o \in Slots : WorksFor(o, c)' = WorksFor(o, c)
  BY DEF WorksFor, GrantOf, request
<1>2. /\ Live(refresh, c)' \subseteq Live(refresh, c)
      /\ Live(key, c)' \subseteq Live(key, c)
      /\ PairsOf(c)' = PairsOf(c) /\ UNCHANGED <<kept, pc, arg, new>>
  BY DEF Live, PairsOf, request
<1>3. OneWorker(c)'
  BY <1>1, <1>2 DEF Held, OneWorker, TokenOf
<1>4. BeginsWithCode(c)'
  BY <1>1, <1>2 DEF Held, BeginsWithCode
<1>5. c \notin kept' => OneKey(c)'
  BY <1>1, <1>2 DEF Held, OneKey, KeyOf
<1> QED
  BY <1>3, <1>4, <1>5 DEF Held

\* A request that goes on for the same grant, without a new pair.
LEMMA GoesOn ==
  ASSUME NEW s \in Slots, NEW c \in Codes, Others(s), UNCHANGED <<arg, new, grant>>,
         pc[s] \in TokenSteps, pc'[s] \in TokenSteps
  PROVE  /\ \A o \in Slots : WorksFor(o, c)' <=> WorksFor(o, c)
         /\ PairsOf(c)' = PairsOf(c)
  BY DEF WorksFor, GrantOf, Others, PairsOf

LEMMA ExchangeHeld ==
  ASSUME AccessInv, NEW s \in Slots, NEW d \in Codes, Exchange(s, d),
         NEW c \in Codes, Held(c), c \notin raced'
  PROVE  Held(c)'
<1> USE AccessAssumption DEF AccessInv
<1>0. /\ Others(s) /\ pc[s] = "idle" /\ pc'[s] = "use" /\ arg'[s] = d
      /\ UNCHANGED <<code, tokens, kept>>
  <2>1. Granting(s)
    BY DEF Granting, Token
  <2>2. Others(s)
    BY <2>1, GrantFrame
  <2>3. UNCHANGED <<code, tokens, kept>>
    BY DEF Exchange
  <2>4. pc[s] = "idle" /\ pc'[s] = "use" /\ arg'[s] = d
    BY DEF Exchange, Start, TypeOK
  <2> QED
    BY <2>2, <2>3, <2>4
<1>1. /\ Live(refresh, c)' = Live(refresh, c) /\ Live(key, c)' = Live(key, c)
      /\ PairsOf(c)' = PairsOf(c)
  BY <1>0 DEF Live, PairsOf, tokens
<1>2. \A o \in Slots \ {s} :
        /\ WorksFor(o, c)' <=> WorksFor(o, c)
        /\ pc'[o] = pc[o] /\ arg'[o] = arg[o]
        /\ KeyOf(o)' = KeyOf(o) /\ TokenOf(o)' = TokenOf(o)
  BY <1>0 DEF WorksFor, GrantOf, Others, tokens, KeyOf, TokenOf
<1>3. WorksFor(s, c)' <=> c = d
  BY <1>0 DEF WorksFor, GrantOf, TokenSteps
<1>4. CASE c # d
  <2>1. OneWorker(c)'
    BY <1>0, <1>1, <1>2, <1>3, <1>4 DEF Held, OneWorker
  <2>2. BeginsWithCode(c)'
    BY <1>0, <1>1, <1>2, <1>3, <1>4 DEF Held, BeginsWithCode
  <2>3. c \notin kept' => OneKey(c)'
    BY <1>0, <1>1, <1>2, <1>3, <1>4 DEF Held, OneKey
  <2> QED
    BY <2>1, <2>2, <2>3 DEF Held
<1>5. CASE c = d
  <2>1. code[c] = "fresh" /\ ~Overlaps("use", c)
    BY <1>5 DEF Exchange
  <2>2. PairsOf(c) = {} /\ Live(refresh, c) = {} /\ Live(key, c) = {}
    BY <2>1 DEF Held, BeginsWithCode, PairsOf, Live
  <2>3. ASSUME NEW o \in Slots, WorksFor(o, c) PROVE FALSE
    <3>1. pc[o] = "use"
      BY <2>1, <2>3 DEF Held, BeginsWithCode
    <3>2. arg[o] = c
      BY <2>3, <3>1 DEF WorksFor, GrantOf, PairHeld
    <3> QED
      BY <2>1, <3>1, <3>2 DEF Overlaps
  <2>4. OneWorker(c)'
    BY <1>1, <1>2, <2>2, <2>3 DEF OneWorker, TokenOf
  <2>5. BeginsWithCode(c)'
    BY <1>0, <1>1, <1>2, <2>1, <2>2, <2>3 DEF BeginsWithCode
  <2>6. OneKey(c)'
    BY <1>1, <2>2 DEF OneKey, KeyOf
  <2> QED
    BY <2>4, <2>5, <2>6 DEF Held
<1> QED
  BY <1>4, <1>5

LEMMA RotateHeld ==
  ASSUME AccessInv, NEW s \in Slots, NEW t \in Pairs, Rotate(s, t),
         NEW c \in Codes, Held(c), c \notin raced'
  PROVE  Held(c)'
<1> USE AccessAssumption DEF AccessInv
<1>0. /\ Others(s) /\ pc[s] = "idle" /\ pc'[s] = "revoke" /\ arg'[s] = t
      /\ UNCHANGED <<code, tokens, kept>>
  <2>1. Granting(s)
    BY DEF Granting, Token
  <2>2. Others(s)
    BY <2>1, GrantFrame
  <2>3. UNCHANGED <<code, tokens, kept>>
    BY DEF Rotate
  <2>4. pc[s] = "idle" /\ pc'[s] = "revoke" /\ arg'[s] = t
    BY DEF Rotate, Start, TypeOK
  <2> QED
    BY <2>2, <2>3, <2>4
<1>1. /\ Live(refresh, c)' = Live(refresh, c) /\ Live(key, c)' = Live(key, c)
      /\ PairsOf(c)' = PairsOf(c)
  BY <1>0 DEF Live, PairsOf, tokens
<1>2. \A o \in Slots \ {s} :
        /\ WorksFor(o, c)' <=> WorksFor(o, c)
        /\ pc'[o] = pc[o] /\ arg'[o] = arg[o]
        /\ KeyOf(o)' = KeyOf(o) /\ TokenOf(o)' = TokenOf(o)
  BY <1>0 DEF WorksFor, GrantOf, Others, tokens, KeyOf, TokenOf
<1>3. WorksFor(s, c)' <=> grant[t] = c
  BY <1>0 DEF WorksFor, GrantOf, TokenSteps, tokens
<1>4. CASE grant[t] # c
  <2>1. OneWorker(c)'
    BY <1>0, <1>1, <1>2, <1>3, <1>4 DEF Held, OneWorker
  <2>2. BeginsWithCode(c)'
    BY <1>0, <1>1, <1>2, <1>3, <1>4 DEF Held, BeginsWithCode
  <2>3. c \notin kept' => OneKey(c)'
    BY <1>0, <1>1, <1>2, <1>3, <1>4 DEF Held, OneKey
  <2> QED
    BY <2>1, <2>2, <2>3 DEF Held
<1>5. CASE grant[t] = c
  <2>1. t \in Live(refresh, c) /\ ~Overlaps("revoke", t)
    BY <1>5 DEF Rotate, Live
  <2>2. ASSUME NEW o \in Slots, WorksFor(o, c) PROVE FALSE
    <3>1. pc[o] = "revoke" /\ arg[o] = t
      BY <2>1, <2>2 DEF Held, OneWorker, TokenOf
    <3> QED
      BY <2>1, <3>1 DEF Overlaps
  <2>3. code[c] \notin {"none", "fresh"}
    BY <2>1 DEF Held, BeginsWithCode, PairsOf, Live
  <2>4. OneWorker(c)'
    <3>1. \A o \in Slots : WorksFor(o, c)' => o = s
      BY <1>2, <2>2
    <3>2. Live(refresh, c)' \subseteq {t} /\ TokenOf(s)' = {t}
      BY <1>0, <1>1, <2>1 DEF Held, OneWorker, TokenOf
    <3> QED
      BY <3>1, <3>2 DEF OneWorker
  <2>5. BeginsWithCode(c)'
    BY <1>0, <1>2, <2>2, <2>3 DEF BeginsWithCode
  <2>6. c \notin kept' => OneKey(c)'
    BY <1>0, <1>1, <1>2, <2>1, <2>2 DEF Held, OneKey, KeyOf
  <2> QED
    BY <2>4, <2>5, <2>6 DEF Held
<1> QED
  BY <1>4, <1>5

LEMMA UseHeld ==
  ASSUME AccessInv, NEW s \in Slots, UseCode(s), NEW c \in Codes, Held(c)
  PROVE  Held(c)'
<1> USE AccessAssumption DEF AccessInv
<1>0. /\ Others(s) /\ pc[s] = "use" /\ pc'[s] = "mint" /\ arg[s] \in Codes
      /\ UNCHANGED <<arg, new, tokens, kept>>
  BY GrantFrame DEF UseCode, Goto, TypeOK, Granting, PairHeld
<1>1. /\ code'[arg[s]] = "used" /\ \A d \in Codes \ {arg[s]} : code'[d] = code[d]
  BY <1>0 DEF UseCode, TypeOK
<1>2. \A o \in Slots : WorksFor(o, c)' <=> WorksFor(o, c)
  BY <1>0, GoesOn DEF TokenSteps, tokens
<1>3. /\ Live(refresh, c)' = Live(refresh, c) /\ Live(key, c)' = Live(key, c)
      /\ PairsOf(c)' = PairsOf(c)
  BY <1>0 DEF Live, PairsOf, tokens
<1>4. /\ \A o \in Slots \ {s} : pc'[o] = pc[o]
      /\ \A o \in Slots : KeyOf(o)' = KeyOf(o) /\ TokenOf(o)' = TokenOf(o)
  BY <1>0 DEF Others, KeyOf, TokenOf
<1>5. WorksFor(s, c) <=> c = arg[s]
  BY <1>0 DEF WorksFor, GrantOf, TokenSteps
<1>6. OneWorker(c)'
  BY <1>2, <1>3, <1>4 DEF Held, OneWorker
<1>7. BeginsWithCode(c)'
  BY <1>0, <1>1, <1>2, <1>3, <1>4, <1>5 DEF Held, BeginsWithCode
<1>8. c \notin kept' => OneKey(c)'
  BY <1>0, <1>2, <1>3, <1>4 DEF Held, OneKey
<1> QED
  BY <1>6, <1>7, <1>8 DEF Held

LEMMA RevokeHeld ==
  ASSUME AccessInv, NEW s \in Slots, RevokeRefresh(s), NEW c \in Codes, Held(c)
  PROVE  Held(c)'
<1> USE AccessAssumption DEF AccessInv
<1>0. /\ Others(s) /\ pc[s] = "revoke" /\ pc'[s] = "revoke key" /\ arg[s] \in Pairs
      /\ UNCHANGED <<arg, new, code, key, grant, kept>>
  BY GrantFrame DEF RevokeRefresh, Goto, TypeOK, Granting, PairHeld
<1>1. /\ refresh'[arg[s]] = "revoked"
      /\ \A t \in Pairs \ {arg[s]} : refresh'[t] = refresh[t]
  BY <1>0 DEF RevokeRefresh, TypeOK
<1>2. /\ \A o \in Slots : WorksFor(o, c)' <=> WorksFor(o, c)
      /\ PairsOf(c)' = PairsOf(c)
  BY <1>0, GoesOn DEF TokenSteps
<1>3. /\ Live(refresh, c)' = Live(refresh, c) \ {arg[s]}
      /\ Live(key, c)' = Live(key, c)
  BY <1>0, <1>1 DEF Live
<1>4. /\ \A o \in Slots \ {s} : pc'[o] = pc[o] /\ TokenOf(o)' = TokenOf(o)
      /\ \A o \in Slots : KeyOf(o)' = KeyOf(o)
      /\ TokenOf(s) = {arg[s]}
  BY <1>0 DEF Others, KeyOf, TokenOf
<1>6. OneWorker(c)'
  BY <1>2, <1>3, <1>4 DEF Held, OneWorker
<1>7. BeginsWithCode(c)'
  BY <1>0, <1>2, <1>4 DEF Held, BeginsWithCode
<1>8. ASSUME c \notin kept' PROVE OneKey(c)'
  <2>1. OneKey(c)
    BY <1>0, <1>8 DEF Held
  <2>2. Live(refresh, c)' \subseteq Live(refresh, c)
    BY <1>3
  <2> QED
    BY <1>2, <1>3, <1>4, <2>1, <2>2 DEF OneKey
<1> QED
  BY <1>6, <1>7, <1>8 DEF Held

LEMMA RevokeKeyHeld ==
  ASSUME AccessInv, NEW s \in Slots, RevokeKey(s), NEW c \in Codes, Held(c)
  PROVE  Held(c)'
<1> USE AccessAssumption DEF AccessInv
<1>0. /\ Others(s) /\ pc[s] = "revoke key" /\ pc'[s] = "mint" /\ arg[s] \in Pairs
      /\ UNCHANGED <<arg, new, code, refresh, grant>>
  BY GrantFrame DEF RevokeKey, Goto, TypeOK, Granting, PairHeld
<1>1. \/ /\ kept' = kept /\ key'[arg[s]] = "revoked"
         /\ \A t \in Pairs \ {arg[s]} : key'[t] = key[t]
      \/ kept' = kept \cup {grant[arg[s]]} /\ key' = key
  BY <1>0 DEF RevokeKey, TypeOK
<1>2. /\ \A o \in Slots : WorksFor(o, c)' <=> WorksFor(o, c)
      /\ PairsOf(c)' = PairsOf(c)
  BY <1>0, GoesOn DEF TokenSteps
<1>3. /\ Live(refresh, c)' = Live(refresh, c)
      /\ Live(key, c)' \subseteq Live(key, c)
  BY <1>0, <1>1 DEF Live
<1>4. /\ \A o \in Slots \ {s} : pc'[o] = pc[o] /\ KeyOf(o)' = KeyOf(o)
      /\ \A o \in Slots : TokenOf(o)' = TokenOf(o)
      /\ KeyOf(s) = {arg[s]} /\ KeyOf(s)' = {} /\ TokenOf(s) = {}
  BY <1>0 DEF Others, KeyOf, TokenOf
<1>5. WorksFor(s, c) <=> grant[arg[s]] = c
  BY <1>0 DEF WorksFor, GrantOf, TokenSteps
<1>6. OneWorker(c)'
  BY <1>2, <1>3, <1>4 DEF Held, OneWorker
<1>7. BeginsWithCode(c)'
  BY <1>0, <1>2, <1>4 DEF Held, BeginsWithCode
<1>8. ASSUME c \notin kept' PROVE OneKey(c)'
  <2>1. OneKey(c)
    BY <1>1, <1>8 DEF Held
  <2>2. WorksFor(s, c) => Live(key, c)' = {}
    <3> SUFFICES ASSUME WorksFor(s, c) PROVE Live(key, c)' = {}
      OBVIOUS
    <3>1. kept' = kept /\ key'[arg[s]] = "revoked"
      BY <1>1, <1>5, <1>8
    <3>2. arg[s] \notin Live(key, c)'
      BY <3>1 DEF Live
    <3> QED
      BY <1>3, <1>4, <2>1, <3>2 DEF OneKey
  <2> QED
    BY <1>2, <1>3, <1>4, <2>1, <2>2 DEF OneKey
<1> QED
  BY <1>6, <1>7, <1>8 DEF Held

LEMMA MintHeld ==
  ASSUME AccessInv, NEW s \in Slots, NEW t \in Pairs, MintKey(s, t),
         NEW c \in Codes, Held(c)
  PROVE  Held(c)'
<1> USE AccessAssumption DEF AccessInv
<1>0. /\ pc[s] = "mint" /\ pc'[s] = "refresh" /\ new'[s] = t
      /\ UNCHANGED <<arg, code, refresh, kept>>
  BY DEF MintKey, TypeOK
<1>9. Others(s)
  BY DEF MintKey, TypeOK, Others
<1>1. /\ key[t] = "none" /\ key'[t] = "live" /\ grant'[t] = GrantOf(s)
      /\ \A u \in Pairs \ {t} : key'[u] = key[u] /\ grant'[u] = grant[u]
  BY DEF MintKey, TypeOK
<1>2. /\ grant[t] \notin Codes /\ refresh[t] # "live"
      /\ \A o \in Slots : pc[o] \in TokenSteps /\ arg[o] \in Pairs => arg[o] # t
      /\ \A o \in Slots : pc[o] \in TokenSteps => arg[o] \in Codes \cup Pairs
  BY <1>1 DEF PairHeld, TokenSteps
<1>3. \A o \in Slots : pc[o] \in TokenSteps => GrantOf(o)' = GrantOf(o)
  BY <1>0, <1>1, <1>2 DEF GrantOf
<1>4. \A o \in Slots : WorksFor(o, c)' <=> WorksFor(o, c)
  <2>1. \A o \in Slots : pc'[o] \in TokenSteps <=> pc[o] \in TokenSteps
    BY <1>0, <1>9 DEF Others, TokenSteps
  <2> QED
    BY <1>3, <2>1 DEF WorksFor
<1>5. /\ Live(refresh, c)' = Live(refresh, c)
      /\ WorksFor(s, c) => Live(key, c)' = Live(key, c) \cup {t}
      /\ ~WorksFor(s, c) => /\ PairsOf(c)' = PairsOf(c)
                            /\ Live(key, c)' = Live(key, c)
  <2>1. WorksFor(s, c) <=> GrantOf(s) = c
    BY <1>0 DEF WorksFor, TokenSteps
  <2>2. Live(refresh, c)' = Live(refresh, c)
    BY <1>0, <1>1, <1>2 DEF Live
  <2>3. GrantOf(s) = c => Live(key, c)' = Live(key, c) \cup {t}
    BY <1>1 DEF Live
  <2>4. GrantOf(s) # c => /\ PairsOf(c)' = PairsOf(c)
                          /\ Live(key, c)' = Live(key, c)
    BY <1>1, <1>2 DEF Live, PairsOf
  <2> QED
    BY <2>1, <2>2, <2>3, <2>4
<1>6. /\ \A o \in Slots \ {s} : pc'[o] = pc[o] /\ KeyOf(o)' = KeyOf(o)
      /\ \A o \in Slots : TokenOf(o)' = TokenOf(o)
      /\ KeyOf(s) = {} /\ KeyOf(s)' = {t} /\ TokenOf(s) = {}
  BY <1>0, <1>9 DEF Others, KeyOf, TokenOf
<1>7. OneWorker(c)'
  BY <1>4, <1>5, <1>6 DEF Held, OneWorker
<1>8. CASE WorksFor(s, c)
  <2>1. \A o \in Slots : WorksFor(o, c) => o = s
    BY <1>8 DEF Held, OneWorker
  <2>2. code[c] \notin {"none", "fresh"}
    BY <1>0, <1>8 DEF Held, BeginsWithCode
  <2>3. BeginsWithCode(c)'
    BY <1>0, <1>4, <2>1, <2>2 DEF BeginsWithCode
  <2>4. Live(refresh, c) = {}
    BY <1>6, <1>8 DEF Held, OneWorker
  <2>5. c \notin kept => Live(key, c) = {}
    BY <1>6, <1>8 DEF Held, OneKey
  <2>6. c \notin kept' => OneKey(c)'
    BY <1>0, <1>4, <1>5, <1>6, <1>8, <2>1, <2>4, <2>5 DEF OneKey
  <2> QED
    BY <1>7, <2>3, <2>6 DEF Held
<1>10. CASE ~WorksFor(s, c)
  <2>1. BeginsWithCode(c)'
    BY <1>0, <1>4, <1>5, <1>6, <1>10 DEF Held, BeginsWithCode
  <2>2. c \notin kept' => OneKey(c)'
    BY <1>0, <1>4, <1>5, <1>6, <1>10 DEF Held, OneKey
  <2> QED
    BY <1>7, <2>1, <2>2 DEF Held
<1> QED
  BY <1>8, <1>10

LEMMA RefreshHeld ==
  ASSUME AccessInv, NEW s \in Slots, MintRefresh(s), NEW c \in Codes, Held(c)
  PROVE  Held(c)'
<1> USE AccessAssumption DEF AccessInv
<1>0. /\ Others(s) /\ pc[s] = "refresh" /\ pc'[s] = "idle"
      /\ UNCHANGED <<code, key, grant, kept>>
  BY GrantFrame DEF MintRefresh, End, TypeOK, Granting
<1>1. new[s] \in Pairs /\ grant[new[s]] = GrantOf(s)
  BY <1>0 DEF PairHeld
<1>2. /\ refresh'[new[s]] = "live"
      /\ \A t \in Pairs \ {new[s]} : refresh'[t] = refresh[t]
  BY <1>1 DEF MintRefresh, TypeOK
<1>3. \A o \in Slots : WorksFor(o, c)' =>
        /\ o # s /\ WorksFor(o, c) /\ pc'[o] = pc[o] /\ arg'[o] = arg[o]
        /\ KeyOf(o)' = KeyOf(o) /\ TokenOf(o)' = TokenOf(o)
  BY <1>0 DEF WorksFor, GrantOf, Others, KeyOf, TokenOf, TokenSteps
<1>4. Live(key, c)' = Live(key, c) /\ PairsOf(c)' = PairsOf(c)
  BY <1>0 DEF Live, PairsOf
<1>5. CASE WorksFor(s, c)
  <2>1. \A o \in Slots : ~WorksFor(o, c)'
    BY <1>3, <1>5 DEF Held, OneWorker
  <2>2. code[c] \notin {"none", "fresh"}
    BY <1>0, <1>5 DEF Held, BeginsWithCode
  <2>3. Live(refresh, c) = {}
    BY <1>0, <1>5 DEF Held, OneWorker, TokenOf
  <2>4. Live(refresh, c)' \subseteq {new[s]}
    BY <1>0, <1>2, <2>3 DEF Live
  <2>5. c \notin kept => Live(key, c) \subseteq {new[s]}
    BY <1>0, <1>5 DEF Held, OneKey, KeyOf
  <2>6. OneWorker(c)' /\ BeginsWithCode(c)'
    BY <1>0, <2>1, <2>2, <2>4 DEF OneWorker, BeginsWithCode
  <2>7. c \notin kept' => OneKey(c)'
    BY <1>0, <1>4, <2>1, <2>4, <2>5 DEF OneKey
  <2> QED
    BY <2>6, <2>7 DEF Held
<1>6. CASE ~WorksFor(s, c)
  <2>1. grant[new[s]] # c
    BY <1>0, <1>1, <1>6 DEF WorksFor, TokenSteps
  <2>2. Live(refresh, c)' = Live(refresh, c)
    BY <1>0, <1>2, <2>1 DEF Live
  <2>3. OneWorker(c)'
    BY <1>3, <2>2 DEF Held, OneWorker
  <2>4. BeginsWithCode(c)'
    BY <1>0, <1>3, <1>4 DEF Held, BeginsWithCode
  <2>5. c \notin kept' => OneKey(c)'
    BY <1>0, <1>3, <1>4, <2>2 DEF Held, OneKey
  <2> QED
    BY <2>3, <2>4, <2>5 DEF Held
<1> QED
  BY <1>5, <1>6

LEMMA NextGrant == AccessInv /\ [Next]_vars => GrantHeld'
<1> SUFFICES ASSUME AccessInv, [Next]_vars, NEW c \in Codes, c \notin raced'
             PROVE  Held(c)'
  BY DEF GrantHeld, Held
<1>0. c \notin raced => Held(c)
  BY DEF AccessInv, GrantHeld, Held
<1>1. ASSUME NEW s \in Slots, Entering(s) PROVE Held(c)'
  <2>1. UNCHANGED grants /\ Others(s) /\ pc'[s] \in EnterSteps
    BY <1>1, EnterFrame DEF AccessInv
  <2>2. pc'[s] \notin TokenSteps
    BY <2>1 DEF EnterSteps, LoginSteps, Making, TokenSteps
  <2> QED
    BY <1>0, <2>1, <2>2, WorkFrame DEF grants
<1>2. ASSUME NEW s \in Slots, Fail(s) PROVE Held(c)'
  <2>1. UNCHANGED grants /\ Others(s) /\ pc'[s] \notin TokenSteps
    BY <1>2, FailFrame DEF AccessInv, TokenSteps
  <2> QED
    BY <1>0, <2>1, WorkFrame DEF grants
<1>3. ASSUME NEW s \in Slots, Granting(s) PROVE Held(c)'
  <2>1. ASSUME NEW d \in Codes, Exchange(s, d) PROVE Held(c)'
    <3>1. c \notin raced
      BY <2>1 DEF Exchange
    <3> QED
      BY <1>0, <2>1, <3>1, ExchangeHeld
  <2>2. ASSUME NEW t \in Pairs, Rotate(s, t) PROVE Held(c)'
    <3>1. c \notin raced
      BY <2>2 DEF Rotate
    <3> QED
      BY <1>0, <2>2, <3>1, RotateHeld
  <2>3. CASE UseCode(s)
    BY <1>0, <2>3, UseHeld DEF UseCode
  <2>4. CASE RevokeRefresh(s)
    BY <1>0, <2>4, RevokeHeld DEF RevokeRefresh
  <2>5. CASE RevokeKey(s)
    BY <1>0, <2>5, RevokeKeyHeld DEF RevokeKey
  <2>6. ASSUME NEW t \in Pairs, MintKey(s, t) PROVE Held(c)'
    BY <1>0, <2>6, MintHeld DEF MintKey
  <2>7. CASE MintRefresh(s)
    BY <1>0, <2>7, RefreshHeld DEF MintRefresh
  <2> QED
    BY <1>3, <2>1, <2>2, <2>3, <2>4, <2>5, <2>6, <2>7 DEF Granting, Token
<1>4. CASE TimePasses
  <2>1. /\ UNCHANGED <<grant, kept, raced, request>>
        /\ \A t \in Pairs : /\ refresh'[t] = "live" => refresh[t] = "live"
                            /\ key'[t] = "live" => key[t] = "live"
        /\ \/ code'[c] = code[c]
           \/ code[c] = "none" /\ code'[c] = "fresh"
           \/ code'[c] = "used"
    <3>1. CASE \E l \in Links : SendLink(l) \/ LinkExpires(l)
      BY <3>1 DEF SendLink, LinkExpires, grants, tokens
    <3>2. CASE \E d \in Codes : Approve(d) \/ CodeExpires(d)
      BY <3>2 DEF AccessInv, TypeOK, Approve, CodeExpires, tokens
    <3>3. CASE \E t \in Pairs : KeyEnds(t) \/ RefreshEnds(t)
      BY <3>3 DEF AccessInv, TypeOK, KeyEnds, RefreshEnds
    <3>4. CASE EndSessions
      BY <3>4 DEF EndSessions, grants, tokens
    <3> QED
      BY <1>4, <3>1, <3>2, <3>3, <3>4 DEF TimePasses
  <2> QED
    BY <1>0, <2>1, EndFrame
<1>5. CASE UNCHANGED vars
  <2>1. UNCHANGED <<grant, kept, raced, request, code, refresh, key>>
    BY <1>5 DEF vars, grants, tokens
  <2> QED
    BY <1>0, <2>1, EndFrame
<1> QED
  BY <1>1, <1>2, <1>3, <1>4, <1>5, NextIs

LEMMA NextAccess == AccessInv /\ [Next]_vars => AccessInv'
  BY NextType, NextLink, NextDefault, NextPair, NextGrant DEF AccessInv

\* The account, its links and its tokens are well formed at every step, and the
\* invariant that the results below rest on holds.
THEOREM AccessHolds == Spec => []AccessInv
<1>1. Init => AccessInv
  BY InitAccess
<1>2. AccessInv /\ [Next]_vars => AccessInv'
  BY NextAccess
<1> QED
  BY <1>1, <1>2, PTL DEF Spec

\* A set whose elements are all the same has at most one.
LEMMA AtMostOne ==
  ASSUME NEW S, \A t, u \in S : t = u
  PROVE  Cardinality(S) <= 1
<1>1. CASE S = {}
  <2>1. Cardinality(S) = 0
    BY <1>1, FS_EmptySet, Zenon
  <2> QED
    BY <2>1
<1>2. CASE S # {}
  <2>1. PICK t \in S : TRUE
    BY <1>2
  <2>2. S = {t}
    BY <2>1
  <2>3. Cardinality(S) = 1
    BY <2>2, FS_Singleton, Zenon
  <2> QED
    BY <2>3
<1> QED
  BY <1>1, <1>2

LEMMA AccessIsRight == AccessInv => TypeOK /\ OneOfEach /\ OneLivePair
<1> SUFFICES ASSUME AccessInv PROVE OneOfEach /\ OneLivePair
  BY DEF AccessInv
<1>1. LinkLogsInOnce
  BY DEF AccessInv, LinkHeld, LinkLogsInOnce
<1>2. OneDefaultKey
  BY DEF AccessInv, DefaultHeld
<1>3. ASSUME NEW c \in Codes \ raced
      PROVE  /\ Cardinality(Live(refresh, c)) <= 1
             /\ c \notin kept => Cardinality(Live(key, c)) <= 1
  <2>1. OneWorker(c) /\ (c \notin kept => OneKey(c))
    BY DEF AccessInv, GrantHeld
  <2> QED
    BY <2>1, AtMostOne DEF OneWorker, OneKey
<1> QED
  BY <1>1, <1>2, <1>3 DEF OneOfEach, OneLivePair

-----------------------------------------------------------------------------
\* The pages.

KeyStates == {"none", "live", "revoked"}
HookStates == {"none", "on", "off", "gone"}

DoesOn(p) == CASE p = "login" -> {"link"}
               [] p = "keys" -> {"create", "list created", "revoke", "list"}
               [] p = "hooks" -> {"add", "on", "off", "gone"}
               [] OTHER -> {}

CallsOf(p) ==
  [no : Nat, does : DoesOn(p),
   what : Addresses \cup Made \cup Endpoints \cup {Nothing},
   reply : {Nothing} \cup Answers]

ConsoleType ==
  /\ page \in {"closed", "login", "consent", "keys", "hooks"}
  /\ made \in [Made -> KeyStates] /\ hook \in [Endpoints -> HookStates]
  /\ calls \subseteq CallsOf(page) /\ count \in Nat
  /\ page = "consent" => about \in Codes
  /\ page = "login" => email \in Addresses \cup {Nothing}

\* On the sign-in page one link is asked for at a time; the call knows the
\* address that stands there, unless that was changed.
LoginHeld ==
  page = "login" =>
    /\ \A c, d \in calls : c = d
    /\ ~busy \/ about = "sent" => calls = {}
    /\ \A c \in calls : ~edited =>
         /\ c.what = email
         /\ c.reply # Nothing /\ Ok(c) => c.what = mailed \/ c.what \notin Allowed
    /\ LinkSentIsTrue

\* The server has done what the call asks.
Done(c) == c.reply # Nothing /\ Ok(c)

\* A call after which the list will be true of key k.
Follows(c, k) ==
  \/ c.does = "create" /\ Done(c) /\ c.reply.got = k
  \/ c.does = "revoke" /\ Done(c) /\ c.what = k
  \/ c.does \in Lists /\ (c.reply = Nothing \/ ~Ok(c) \/ c.reply.got[k] = made[k])

\* The list of keys is behind the server, and every difference is waited for.
KeysHeld ==
  page = "keys" =>
    /\ listed \in [Made -> KeyStates]
    /\ \A k \in Made : Rank(listed[k]) <= Rank(made[k])
    /\ \A c \in calls :
         /\ c.does = "revoke" => c.what \in Made
         /\ c.does \in Lists /\ Done(c) =>
              /\ c.reply.got \in [Made -> KeyStates]
              /\ \A k \in Made : Rank(c.reply.got[k]) <= Rank(made[k])
    /\ ~muddled =>
         \A k \in Made : listed[k] = made[k] \/ \E c \in calls : Follows(c, k)

\* The calls that are about an endpoint.
Adds(c, e) == c.does = "add" /\ Done(c) /\ c.reply.got = e
Alters(c, e) == c.does \in Changes /\ c.what = e

\* An endpoint is added, or changed, by one call at a time, which knows what it
\* will be.
Settled(e) ==
  /\ \A c, d \in calls : Alters(c, e) /\ Alters(d, e) => d = c
  /\ \A c, d \in calls : Adds(c, e) /\ Adds(d, e) => d = c
  /\ \A c \in calls : Alters(c, e) =>
       Shown(e) /\ hook[e] = IF Done(c) THEN c.does ELSE listed[e]
  /\ \A c \in calls : Adds(c, e) => listed[e] = "none" /\ hook[e] = "on"
  /\ listed[e] = hook[e] \/ \E c \in calls : Adds(c, e) \/ Alters(c, e)

HooksHeld ==
  page = "hooks" =>
    /\ listed \in [Endpoints -> HookStates]
    /\ \A e \in Endpoints : listed[e] # "none" => hook[e] # "none"
    /\ \A c \in calls :
         /\ c.does \in Changes => c.what \in Endpoints /\ listed[c.what] # "none"
         /\ c.does = "add" /\ Done(c) =>
              c.reply.got \in Endpoints /\ hook[c.reply.got] # "none"
    /\ ~muddled => \A e \in Endpoints : Settled(e)

ConsoleInv == AccessInv /\ ConsoleType /\ LoginHeld /\ KeysHeld /\ HooksHeld

\* A call that has its answer, and one that is made anew.
Served(c, ok, got) == [c EXCEPT !.reply = [ok |-> ok, got |-> got]]
Again(c, does) == [c EXCEPT !.does = does, !.reply = Nothing]

LEMMA ServedIs ==
  ASSUME NEW p, NEW c \in CallsOf(p), NEW ok \in BOOLEAN,
         NEW got \in {Nothing} \cup Made \cup Endpoints \cup [Made -> KeyStates]
  PROVE  /\ Served(c, ok, got) \in CallsOf(p)
         /\ Served(c, ok, got).does = c.does /\ Served(c, ok, got).what = c.what
         /\ Served(c, ok, got).reply # Nothing
         /\ Ok(Served(c, ok, got)) <=> ok
         /\ Served(c, ok, got).reply.got = got
<1> DEFINE r == [ok |-> ok, got |-> got]
<1>1. r \in Answers
  BY DEF Answers, KeyStates
<1>2. r # Nothing
  BY <1>1, ConsoleAssumption
<1>3. r.got = got /\ r.ok = ok
  OBVIOUS
<1> HIDE DEF r
<1>4. [c EXCEPT !.reply = r] \in CallsOf(p)
  BY <1>1 DEF CallsOf
<1>5. /\ [c EXCEPT !.reply = r].does = c.does /\ [c EXCEPT !.reply = r].what = c.what
      /\ [c EXCEPT !.reply = r].reply = r
  BY DEF CallsOf
<1> QED
  BY <1>2, <1>3, <1>4, <1>5 DEF Served, Ok, r

LEMMA AgainIs ==
  ASSUME NEW p, NEW c \in CallsOf(p), NEW does \in DoesOn(p)
  PROVE  /\ Again(c, does) \in CallsOf(p)
         /\ Again(c, does).does = does /\ Again(c, does).what = c.what
         /\ Again(c, does).reply = Nothing
  BY DEF CallsOf, Again

LEMMA CallIs ==
  ASSUME NEW p, NEW does \in DoesOn(p), count \in Nat,
         NEW what \in Addresses \cup Made \cup Endpoints \cup {Nothing}
  PROVE  /\ Call(does, what) \in CallsOf(p)
         /\ Call(does, what).does = does /\ Call(does, what).what = what
         /\ Call(does, what).reply = Nothing
  BY DEF CallsOf, Call

\* The same, field by field.
LEMMA CallSays ==
  ASSUME NEW does, NEW what
  PROVE  /\ Call(does, what).does = does /\ Call(does, what).what = what
         /\ Call(does, what).reply = Nothing
  BY DEF Call

LEMMA AgainSays ==
  ASSUME NEW p, NEW c \in CallsOf(p), NEW does
  PROVE  /\ Again(c, does).does = does /\ Again(c, does).what = c.what
         /\ Again(c, does).reply = Nothing
  BY DEF Again, CallsOf

LEMMA GrantedIs ==
  ASSUME NEW got \in {Nothing} \cup Made \cup Endpoints \cup [Made -> KeyStates],
         NEW d, d.reply = [ok |-> TRUE, got |-> got]
  PROVE  d.reply # Nothing /\ Ok(d) /\ d.reply.got = got
<1> DEFINE r == [ok |-> TRUE, got |-> got]
<1>1. r \in Answers
  BY DEF Answers, KeyStates
<1>2. r # Nothing
  BY <1>1, ConsoleAssumption
<1>3. r.got = got /\ r.ok
  OBVIOUS
<1> QED
  BY <1>2, <1>3 DEF Ok

LEMMA CallHas ==
  ASSUME NEW p, NEW c \in CallsOf(p)
  PROVE  /\ c.does \in DoesOn(p)
         /\ c.what \in Addresses \cup Made \cup Endpoints \cup {Nothing}
         /\ c.reply \in {Nothing} \cup Answers
  BY DEF CallsOf

\* What can happen on each page.
AtLogin ==
  \/ \E a \in Addresses : TypeAddress(a)
  \/ Submit \/ TryAnotherAddress \/ Leave
  \/ \E c \in Unserved("link") : ServeLink(c)
  \/ \E c \in Answered("link") : HearOfLink(c)

AtKeys ==
  \/ CreateKey \/ \E k \in Made : Revoke(k)
  \/ \E c \in Unserved("create") : ServeCreate(c)
  \/ \E c \in Unserved("revoke") : ServeRevoke(c)
  \/ \E d \in Lists : \E c \in Unserved(d) : ServeList(c)
  \/ \E c \in Answered("create") : HearOfCreate(c)
  \/ \E c \in Answered("revoke") : HearOfRevoke(c)
  \/ \E d \in Lists : \E c \in Answered(d) : HearList(c)

AtHooks ==
  \/ AddHook \/ \E e \in Endpoints : Toggle(e) \/ Remove(e)
  \/ \E c \in Unserved("add") : ServeAdd(c)
  \/ \E d \in Changes : \E c \in Unserved(d) : ServeChange(c)
  \/ \E c \in Answered("add") : HearOfAdd(c)
  \/ \E d \in Changes : \E c \in Answered(d) : HearOfChange(c)

Deciding == Authorize \/ DecideTooLate \/ Leave

Opening == OpenLogin \/ (\E c \in Codes : OpenConsent(c)) \/ OpenKeys \/ OpenHooks

AnyPage == \E c \in calls : Refuse(c) \/ Lose(c)

LEMMA PageSteps ==
  ASSUME ConsoleType, ConsoleNext
  PROVE  \/ page = "login" /\ AtLogin
         \/ page = "keys" /\ AtKeys
         \/ page = "hooks" /\ AtHooks
         \/ page = "consent" /\ Deciding
         \/ page = "closed" /\ Opening
         \/ AnyPage
         \/ UNCHANGED consoleVars
<1>1. CASE Person
  BY <1>1
  DEF Person, OpenLogin, OpenConsent, OpenKeys, OpenHooks, OpenTool, Quiet,
      TypeAddress, Submit, TryAnotherAddress, Leave, Authorize, DecideTooLate,
      CreateKey, Revoke, AddHook, Toggle, Remove, ChangeHook,
      AtLogin, AtKeys, AtHooks, Deciding, Opening
<1>2. ASSUME NEW c \in calls
      PROVE  /\ c.does = "link" => page = "login"
             /\ c.does \in {"create", "revoke"} \cup Lists => page = "keys"
             /\ c.does \in {"add"} \cup Changes => page = "hooks"
  <2>1. c.does \in DoesOn(page)
    BY CallHas DEF ConsoleType
  <2> QED
    BY <2>1 DEF DoesOn, Lists, Changes
<1>3. CASE Server
  BY <1>2, <1>3 DEF Server, Unserved, AtLogin, AtKeys, AtHooks, AnyPage
<1>4. CASE Page
  BY <1>2, <1>4 DEF Page, Answered, AtLogin, AtKeys, AtHooks, AnyPage
<1>5. CASE Elsewhere
  BY <1>5 DEF Elsewhere
<1> QED
  BY <1>1, <1>3, <1>4, <1>5 DEF ConsoleNext

-----------------------------------------------------------------------------
\* The pages run the requests of Access, and nothing else of it.
LEMMA ConsoleStep ==
  ASSUME ConsoleType, [ConsoleNext]_<<vars, consoleVars>>
  PROVE  [Next]_vars
<1>1. ASSUME NEW l \in Links, SendLink(l) PROVE Next
  BY <1>1 DEF Next
<1>2. EndSessions => Next
  BY DEF Next
<1>3. CASE Person
  <2>1. CASE Authorize
    <3>1. about \in Codes /\ Approve(about)
      BY <2>1 DEF Authorize, ConsoleType
    <3> QED
      BY <3>1 DEF Next
  <2>2. CASE Person /\ ~Authorize
    BY <2>2
    DEF Person, OpenLogin, OpenConsent, OpenKeys, OpenHooks, OpenTool,
        TypeAddress, Submit, TryAnotherAddress, Leave, DecideTooLate,
        CreateKey, Revoke, AddHook, Toggle, Remove, ChangeHook
  <2> QED
    BY <1>3, <2>1, <2>2
<1>4. CASE Server
  <2>1. CASE \E c \in Unserved("link") : ServeLink(c)
    BY <1>1, <2>1 DEF ServeLink
  <2>2. CASE ~\E c \in Unserved("link") : ServeLink(c)
    BY <1>4, <2>2 DEF Server, Refuse, ServeCreate, ServeRevoke, ServeList,
                      ServeAdd, ServeChange
  <2> QED
    BY <2>1, <2>2
<1>5. CASE Page
  BY <1>5 DEF Page, Lose, HearOfLink, HearOfCreate, HearOfRevoke, HearList,
              HearOfAdd, HearOfChange
<1>6. CASE Elsewhere
  BY <1>2, <1>6 DEF Elsewhere
<1>7. CASE UNCHANGED <<vars, consoleVars>>
  BY <1>7
<1> QED
  BY <1>3, <1>4, <1>5, <1>6, <1>7 DEF ConsoleNext

-----------------------------------------------------------------------------
\* Sign-in.

\* A page that is opened, or closed.
LEMMA MountKept ==
  ASSUME ConsoleType, NEW p \in {"closed", "login", "consent"}, NEW what,
         Mount(p, what, Nothing), UNCHANGED rows, p = "consent" => what \in Codes,
         p = "login" => what = Nothing
  PROVE  ConsoleType' /\ LoginHeld' /\ KeysHeld' /\ HooksHeld'
<1>1. /\ page' = p /\ calls' = {} /\ count' = 0 /\ about' = what
      /\ email' = Nothing /\ UNCHANGED <<made, hook>>
  BY DEF Mount, rows
<1>2. ConsoleType'
  BY <1>1 DEF ConsoleType
<1>3. LoginHeld'
  BY <1>1, ConsoleAssumption DEF LoginHeld, LinkSentIsTrue
<1>4. KeysHeld' /\ HooksHeld'
  BY <1>1 DEF KeysHeld, HooksHeld
<1> QED
  BY <1>2, <1>3, <1>4

LEMMA AtLoginKept ==
  ASSUME ConsoleType, LoginHeld, page = "login", AtLogin
  PROVE  ConsoleType' /\ LoginHeld' /\ KeysHeld' /\ HooksHeld'
<1> USE ConsoleAssumption
<1>0. /\ \A c, d \in calls : c = d
      /\ ~busy \/ about = "sent" => calls = {}
      /\ \A c \in calls : ~edited =>
           /\ c.what = email
           /\ c.reply # Nothing /\ Ok(c) => c.what = mailed \/ c.what \notin Allowed
      /\ LinkSentIsTrue
  BY DEF LoginHeld
<1>1. calls \subseteq CallsOf("login") /\ "link" \in DoesOn("login")
  BY DEF ConsoleType, DoesOn
<1>2. page' = "login" => KeysHeld' /\ HooksHeld'
  BY DEF KeysHeld, HooksHeld
<1>3. ASSUME NEW a \in Addresses, TypeAddress(a)
      PROVE  ConsoleType' /\ LoginHeld' /\ page' = "login"
  <2>1. /\ UNCHANGED <<page, made, hook, calls, count, about, busy, mailed>>
        /\ about = Nothing /\ email' = a
    BY <1>3 DEF TypeAddress, rows
  <2>2. edited' = (edited \/ busy)
    BY <1>3 DEF TypeAddress
  <2>3. ConsoleType'
    BY <2>1 DEF ConsoleType
  <2>4. LoginHeld'
    <3>1. calls = {} \/ edited'
      BY <1>0, <2>2
    <3> QED
      BY <1>0, <2>1, <3>1 DEF LoginHeld, LinkSentIsTrue
  <2> QED
    BY <2>1, <2>3, <2>4
<1>4. CASE Submit
  <2>1. /\ UNCHANGED <<page, made, hook, email, about>>
        /\ about = Nothing /\ email # Nothing /\ ~busy /\ busy'
        /\ count' = count + 1 /\ calls' = calls \cup {Call("link", email)}
    BY <1>4 DEF Submit, Ask, rows
  <2>2. calls' = {Call("link", email)}
    BY <1>0, <2>1
  <2>3. Call("link", email) \in CallsOf("login")
        /\ Call("link", email).what = email /\ Call("link", email).reply = Nothing
    BY <1>1, CallIs DEF ConsoleType
  <2>4. ConsoleType'
    BY <2>1, <2>2, <2>3 DEF ConsoleType
  <2>5. LoginHeld'
    BY <2>1, <2>2, <2>3 DEF LoginHeld, LinkSentIsTrue
  <2> QED
    BY <1>2, <2>1, <2>4, <2>5
<1>5. CASE TryAnotherAddress
  <2>1. /\ UNCHANGED <<page, made, hook, calls, count, email, busy, edited, mailed>>
        /\ about = "sent" /\ about' = Nothing
    BY <1>5 DEF TryAnotherAddress, rows, past
  <2>2. ConsoleType'
    BY <2>1 DEF ConsoleType
  <2>3. LoginHeld'
    BY <1>0, <2>1 DEF LoginHeld, LinkSentIsTrue
  <2> QED
    BY <1>2, <2>1, <2>2, <2>3
<1>6. CASE Leave
  BY <1>6, MountKept DEF Leave
<1>7. ASSUME NEW c \in Unserved("link"), ServeLink(c)
      PROVE  ConsoleType' /\ LoginHeld' /\ page' = "login"
  <2>1. /\ UNCHANGED <<page, made, hook, count, busy, email, about, edited>>
        /\ \/ /\ calls' = (calls \ {c}) \cup {Served(c, TRUE, Nothing)}
              /\ mailed' = IF c.what \in Allowed THEN c.what ELSE mailed
           \/ /\ calls' = (calls \ {c}) \cup {Served(c, FALSE, Nothing)}
              /\ mailed' = mailed
    BY <1>7 DEF ServeLink, Reply, rows, Served
  <2>2. c \in calls /\ c \in CallsOf("login") /\ calls \ {c} = {}
    BY <1>0, <1>1, <1>7 DEF Unserved
  <2>3. PICK ok \in BOOLEAN :
          /\ calls' = {Served(c, ok, Nothing)}
          /\ ok => mailed' = IF c.what \in Allowed THEN c.what ELSE mailed
    BY <2>1, <2>2
  <2>4. /\ Served(c, ok, Nothing) \in CallsOf("login")
        /\ Served(c, ok, Nothing).what = c.what
        /\ Ok(Served(c, ok, Nothing)) <=> ok
    BY <2>2, ServedIs
  <2>5. ConsoleType'
    BY <2>1, <2>3, <2>4 DEF ConsoleType
  <2>6. busy /\ about # "sent"
    BY <1>0, <2>2
  <2>7. LoginHeld'
    BY <1>0, <2>1, <2>2, <2>3, <2>4, <2>6 DEF LoginHeld, LinkSentIsTrue
  <2> QED
    BY <2>1, <2>5, <2>7
<1>8. ASSUME NEW c \in Answered("link"), HearOfLink(c)
      PROVE  ConsoleType' /\ LoginHeld' /\ page' = "login"
  <2>1. /\ UNCHANGED <<page, made, hook, count, email, edited, mailed>>
        /\ calls' = calls \ {c} /\ about' = IF Ok(c) THEN "sent" ELSE about
        /\ busy' = FALSE
    BY <1>8 DEF HearOfLink, rows, past
  <2>2. c \in calls /\ c.reply # Nothing /\ calls' = {}
    BY <1>0, <1>8, <2>1 DEF Answered
  <2>3. ConsoleType'
    BY <2>1, <2>2 DEF ConsoleType
  <2>4. LoginHeld'
    BY <1>0, <2>1, <2>2 DEF LoginHeld, LinkSentIsTrue
  <2> QED
    BY <2>1, <2>3, <2>4
<1> QED
  BY <1>2, <1>3, <1>4, <1>5, <1>6, <1>7, <1>8 DEF AtLogin

-----------------------------------------------------------------------------
\* The card of API keys.

LEMMA RankIs ==
  ASSUME NEW s \in KeyStates, NEW t \in KeyStates
  PROVE  /\ Rank(s) <= Rank(s) /\ Rank("none") <= Rank(s) /\ Rank(s) <= Rank("revoked")
         /\ Rank(s) <= Rank(t) \/ Rank(t) < Rank(s)
         /\ Rank(s) <= Rank(t) /\ Rank(t) <= Rank(s) => s = t
  BY DEF Rank, KeyStates

LEMMA RankGrows ==
  ASSUME NEW s \in KeyStates, NEW t \in KeyStates, NEW u \in KeyStates,
         Rank(s) <= Rank(t), Rank(t) <= Rank(u)
  PROVE  Rank(s) <= Rank(u)
  BY DEF Rank, KeyStates

\* What a call on the card brings must be right when it is made or answered.
Brings(d, m) ==
  /\ d.does = "revoke" => d.what \in Made
  /\ d.does \in Lists /\ Done(d) =>
       /\ d.reply.got \in [Made -> KeyStates]
       /\ \A k \in Made : Rank(d.reply.got[k]) <= Rank(m[k])

\* One call takes the place of another.
Replaces(c, D) ==
  /\ D \subseteq CallsOf("keys") /\ calls' = (calls \ {c}) \cup D
  /\ \A d \in D : Brings(d, made')
  /\ \A k \in Made :
       /\ made'[k] # made[k] => \E d \in D : Follows(d, k)'
       /\ c \in calls /\ Follows(c, k) => \E d \in D : Follows(d, k)'

LEMMA KeysSwap ==
  ASSUME ConsoleType, KeysHeld, page = "keys", NEW c, NEW D, Replaces(c, D),
         UNCHANGED <<page, hook, listed, muddled>>, count' \in Nat,
         made' \in [Made -> KeyStates],
         \A k \in Made : Rank(made[k]) <= Rank(made'[k])
  PROVE  ConsoleType' /\ KeysHeld'
<1> USE DEF Replaces
<1>1. ConsoleType'
  BY DEF ConsoleType
<1>2. listed \in [Made -> KeyStates] /\ made \in [Made -> KeyStates]
  BY DEF KeysHeld, ConsoleType
<1>3. \A k \in Made : Rank(listed'[k]) <= Rank(made'[k])
  <2> SUFFICES ASSUME NEW k \in Made PROVE Rank(listed[k]) <= Rank(made'[k])
    OBVIOUS
  <2>1. Rank(listed[k]) <= Rank(made[k]) /\ Rank(made[k]) <= Rank(made'[k])
    BY DEF KeysHeld
  <2>2. listed[k] \in KeyStates /\ made[k] \in KeyStates /\ made'[k] \in KeyStates
    BY <1>2
  <2> QED
    BY <2>1, <2>2, RankGrows
<1>4. \A d \in calls' : Brings(d, made')
  <2> SUFFICES ASSUME NEW d \in calls PROVE Brings(d, made')
    OBVIOUS
  <2>1. Brings(d, made)
    BY DEF KeysHeld, Brings, Done
  <2>2. ASSUME d.does \in Lists, Done(d), NEW k \in Made
        PROVE  Rank(d.reply.got[k]) <= Rank(made'[k])
    <3>1. /\ d.reply.got[k] \in KeyStates /\ Rank(d.reply.got[k]) <= Rank(made[k])
          /\ Rank(made[k]) <= Rank(made'[k])
      BY <2>1, <2>2 DEF Brings
    <3>2. made[k] \in KeyStates /\ made'[k] \in KeyStates
      BY <1>2
    <3> QED
      BY <3>1, <3>2, RankGrows
  <2> QED
    BY <2>1, <2>2 DEF Brings
<1>5. ASSUME ~muddled', NEW k \in Made
      PROVE  listed'[k] = made'[k] \/ \E d \in calls' : Follows(d, k)'
  <2>1. CASE made'[k] # made[k]
    BY <2>1
  <2>2. CASE made'[k] = made[k] /\ listed[k] # made[k]
    <3>1. PICK d \in calls : Follows(d, k)
      BY <1>5, <2>2 DEF KeysHeld
    <3>2. Follows(d, k)'
      BY <2>2, <3>1 DEF Follows, Done
    <3> QED
      BY <3>1, <3>2
  <2> QED
    BY <2>1, <2>2
<1>6. KeysHeld'
  BY <1>2, <1>3, <1>4, <1>5 DEF KeysHeld, Brings, Done
<1> QED
  BY <1>1, <1>6

LEMMA AtKeysKept ==
  ASSUME ConsoleType, KeysHeld, page = "keys", AtKeys
  PROVE  ConsoleType' /\ KeysHeld' /\ page' = "keys"
<1> USE ConsoleAssumption DEF Lists
<1>0. /\ calls \subseteq CallsOf("keys") /\ count \in Nat
      /\ made \in [Made -> KeyStates] /\ listed \in [Made -> KeyStates]
      /\ {"create", "list created", "revoke", "list"} \subseteq DoesOn("keys")
  BY DEF ConsoleType, KeysHeld, DoesOn
<1>1. \A k \in Made : made[k] \in KeyStates /\ Rank(made[k]) <= Rank(made[k])
  BY <1>0, RankIs
<1>2. ASSUME NEW d \in {"create", "revoke"}, NEW what \in Made \cup {Nothing},
             d = "revoke" => what \in Made,
             Ask(d, what), UNCHANGED <<page, made, hook, listed, muddled>>
      PROVE  ConsoleType' /\ KeysHeld'
  <2>0. PICK c : c = Call(d, what)
    OBVIOUS
  <2>7. c \in CallsOf("keys")
    BY <1>0, <2>0, CallIs
  <2>1. c.does = d /\ c.what = what /\ c.reply = Nothing
    BY <2>0, CallSays
  <2>2. calls' = (calls \ {c}) \cup {c} /\ count' \in Nat
    <3>1. calls' = calls \cup {c} /\ count' = count + 1
      BY <1>2, <2>0 DEF Ask
    <3>2. count \in Nat
      BY <1>0
    <3>3. count' = count + 1
      BY <3>1
    <3>4. count' \in Nat
      BY <3>2, <3>3
    <3> QED
      BY <3>1, <3>4
  <2>3. Brings(c, made') /\ \A k \in Made : ~Follows(c, k)
    BY <1>2, <2>1 DEF Brings, Follows, Done
  <2>8. Replaces(c, {c})
    BY <1>0, <1>1, <1>2, <2>1, <2>2, <2>3, <2>0, <2>7 DEF Replaces
  <2> QED
    BY <1>0, <1>1, <1>2, <2>1, <2>2, <2>3, <2>8, KeysSwap
<1>3. CASE CreateKey
  BY <1>2, <1>3 DEF CreateKey, rows, past
<1>4. ASSUME NEW k \in Made, Revoke(k) PROVE ConsoleType' /\ KeysHeld'
  BY <1>2, <1>4 DEF Revoke, rows, past
<1>5. ASSUME NEW c \in Unserved("create"), ServeCreate(c)
      PROVE  ConsoleType' /\ KeysHeld'
  <2>1. PICK k \in Made :
          /\ made[k] = "none" /\ made' = [made EXCEPT ![k] = "live"]
          /\ calls' = (calls \ {c}) \cup {Served(c, TRUE, k)}
    BY <1>5 DEF ServeCreate, Reply, Served
  <2>2. UNCHANGED <<page, hook, listed, muddled, count>>
    BY <1>5 DEF ServeCreate, past
  <2>0. PICK d : d = Served(c, TRUE, k)
    OBVIOUS
  <2>3. c \in CallsOf("keys") /\ c.does = "create" /\ c.reply = Nothing
    BY <1>0, <1>5 DEF Unserved
  <2>7. d \in CallsOf("keys")
    BY <2>0, <2>3, ServedIs
  <2>4. /\ d.does = "create" /\ d.reply # Nothing /\ Ok(d)
        /\ d.reply.got = k
    <3>1. /\ d.does = c.does /\ d.what = c.what
          /\ d.reply = [ok |-> TRUE, got |-> k]
      BY <2>0, <2>3 DEF Served, CallsOf
    <3>2. d.reply # Nothing /\ Ok(d) /\ d.reply.got = k
      BY <3>1, GrantedIs
    <3> QED
      BY <2>3, <3>1, <3>2
  <2>5. /\ made' \in [Made -> KeyStates]
        /\ \A j \in Made : Rank(made[j]) <= Rank(made'[j])
        /\ \A j \in Made \ {k} : made'[j] = made[j]
    <3>1. made'[k] = "live" /\ \A j \in Made \ {k} : made'[j] = made[j]
      BY <1>0, <2>1
    <3>2. Rank("none") <= Rank("live")
      BY DEF Rank
    <3> QED
      BY <1>0, <1>1, <2>1, <3>1, <3>2 DEF KeyStates
  <2>6. Brings(d, made') /\ Follows(d, k)' /\ \A j \in Made : ~Follows(c, j)
    BY <2>3, <2>4 DEF Brings, Follows, Done
  <2>8. Replaces(c, {d})
    BY <1>0, <2>1, <2>2, <2>4, <2>5, <2>6, <2>0, <2>7 DEF Replaces
  <2> QED
    BY <1>0, <2>1, <2>2, <2>4, <2>5, <2>6, <2>8, KeysSwap
<1>6. ASSUME NEW c \in Unserved("revoke"), ServeRevoke(c)
      PROVE  ConsoleType' /\ KeysHeld'
  <2>1. /\ made' = [made EXCEPT ![c.what] = "revoked"]
        /\ calls' = (calls \ {c}) \cup {Served(c, TRUE, Nothing)}
        /\ UNCHANGED <<page, hook, listed, muddled, count>>
    BY <1>6 DEF ServeRevoke, Reply, Served, past
  <2>0. PICK d : d = Served(c, TRUE, Nothing)
    OBVIOUS
  <2>3. /\ c \in CallsOf("keys") /\ c.does = "revoke" /\ c.reply = Nothing
        /\ c.what \in Made
    BY <1>0, <1>6 DEF Unserved, KeysHeld
  <2>7. d \in CallsOf("keys")
    BY <2>0, <2>3, ServedIs
  <2>4. /\ d.does = "revoke" /\ d.reply # Nothing /\ Ok(d)
        /\ d.what = c.what
    <3>1. /\ d.does = c.does /\ d.what = c.what
          /\ d.reply = [ok |-> TRUE, got |-> Nothing]
      BY <2>0, <2>3 DEF Served, CallsOf
    <3>2. d.reply # Nothing /\ Ok(d) /\ d.reply.got = Nothing
      BY <3>1, GrantedIs
    <3> QED
      BY <2>3, <3>1, <3>2
  <2>5. /\ made' \in [Made -> KeyStates]
        /\ \A j \in Made : Rank(made[j]) <= Rank(made'[j])
        /\ \A j \in Made \ {c.what} : made'[j] = made[j]
    <3>1. made'[c.what] = "revoked" /\ \A j \in Made \ {c.what} : made'[j] = made[j]
      BY <1>0, <2>1, <2>3
    <3>2. Rank(made[c.what]) <= Rank("revoked")
      BY <1>1, <2>3, RankIs
    <3> QED
      BY <1>0, <1>1, <2>1, <2>3, <3>1, <3>2 DEF KeyStates
  <2>6. Brings(d, made') /\ Follows(d, c.what)' /\ \A j \in Made : ~Follows(c, j)
    BY <2>3, <2>4 DEF Brings, Follows, Done
  <2>8. Replaces(c, {d})
    BY <1>0, <2>1, <2>3, <2>4, <2>5, <2>6, <2>0, <2>7 DEF Replaces
  <2> QED
    BY <1>0, <2>1, <2>3, <2>4, <2>5, <2>6, <2>8, KeysSwap
<1>7. ASSUME NEW a \in Lists, NEW c \in Unserved(a), ServeList(c)
      PROVE  ConsoleType' /\ KeysHeld'
  <2>1. /\ calls' = (calls \ {c}) \cup {Served(c, TRUE, made)}
        /\ UNCHANGED <<page, made, hook, listed, muddled, count>>
    BY <1>7 DEF ServeList, Reply, Served, past, rows
  <2>0. PICK d : d = Served(c, TRUE, made)
    OBVIOUS
  <2>3. /\ c \in CallsOf("keys") /\ c.does = a
    BY <1>0, <1>7 DEF Unserved
  <2>7. d \in CallsOf("keys")
    BY <1>0, <2>0, <2>3, ServedIs
  <2>4. /\ d.does = a /\ d.reply # Nothing /\ Ok(d)
        /\ d.reply.got = made
    <3>1. /\ d.does = c.does /\ d.what = c.what
          /\ d.reply = [ok |-> TRUE, got |-> made]
      BY <2>0, <2>3 DEF Served, CallsOf
    <3>2. d.reply # Nothing /\ Ok(d) /\ d.reply.got = made
      BY <1>0, <3>1, GrantedIs
    <3> QED
      BY <2>3, <3>1, <3>2
  <2>6. Brings(d, made') /\ \A k \in Made : Follows(d, k)'
    BY <1>0, <1>1, <2>1, <2>4 DEF Brings, Follows, Done
  <2>8. Replaces(c, {d})
    BY <1>0, <1>1, <2>1, <2>4, <2>6, <2>0, <2>7 DEF Replaces
  <2> QED
    BY <1>0, <1>1, <2>1, <2>4, <2>6, <2>8, KeysSwap
<1>8. ASSUME NEW a \in {"create", "revoke"}, NEW c \in Answered(a), Ok(c),
             NEW l \in Lists, calls' = (calls \ {c}) \cup {Again(c, l)},
             UNCHANGED <<page, made, hook, listed, muddled, count>>
      PROVE  ConsoleType' /\ KeysHeld'
  <2>0. PICK d : d = Again(c, l)
    OBVIOUS
  <2>7. d \in CallsOf("keys")
    BY <1>0, <1>8, <2>0, AgainIs DEF Answered
  <2>1. d.does = l /\ d.reply = Nothing
    BY <1>0, <1>8, <2>0, AgainSays, ZenonT(40) DEF Answered
  <2>2. Brings(d, made') /\ \A k \in Made : Follows(d, k)'
    BY <2>1 DEF Brings, Follows, Done
  <2>8. Replaces(c, {d})
    BY <1>0, <1>1, <1>8, <2>1, <2>2, <2>0, <2>7 DEF Replaces
  <2> QED
    BY <1>0, <1>1, <1>8, <2>1, <2>2, <2>8, KeysSwap
<1>9. ASSUME NEW a \in {"create", "revoke"}, NEW c \in Answered(a), ~Ok(c),
             calls' = calls \ {c},
             UNCHANGED <<page, made, hook, listed, muddled, count>>
      PROVE  ConsoleType' /\ KeysHeld'
  <2>1. \A k \in Made : ~Follows(c, k)
    BY <1>9 DEF Answered, Follows, Done
  <2>2. calls' = (calls \ {c}) \cup {}
    BY <1>9
  <2>8. Replaces(c, {})
    BY <1>0, <1>1, <1>9, <2>1, <2>2 DEF Replaces
  <2> QED
    BY <1>0, <1>1, <1>9, <2>1, <2>2, <2>8, KeysSwap
<1>10. ASSUME NEW c \in Answered("create"), HearOfCreate(c)
       PROVE  ConsoleType' /\ KeysHeld'
  <2>1. /\ Ok(c) => calls' = (calls \ {c}) \cup {Again(c, "list created")}
        /\ ~Ok(c) => calls' = calls \ {c}
        /\ UNCHANGED <<page, made, hook, listed, muddled, count>>
    BY <1>10 DEF HearOfCreate, Again, rows, past
  <2> QED
    BY <1>8, <1>9, <2>1
<1>11. ASSUME NEW c \in Answered("revoke"), HearOfRevoke(c)
       PROVE  ConsoleType' /\ KeysHeld'
  <2>1. /\ Ok(c) => calls' = (calls \ {c}) \cup {Again(c, "list")}
        /\ ~Ok(c) => calls' = calls \ {c}
        /\ UNCHANGED <<page, made, hook, listed, muddled, count>>
    BY <1>11 DEF HearOfRevoke, Again, rows, past
  <2> QED
    BY <1>8, <1>9, <2>1
<1>12. ASSUME NEW a \in Lists, NEW c \in Answered(a), HearList(c)
       PROVE  ConsoleType' /\ KeysHeld'
  <2>1. /\ calls' = calls \ {c} /\ UNCHANGED <<page, made, hook, count>>
        /\ Ok(c) => listed' = c.reply.got
        /\ ~Ok(c) => listed' = listed
    BY <1>12 DEF HearList, rows
  <2>2. ~muddled' => /\ ~muddled /\ Ok(c)
                     /\ \A k \in Made : ~(Rank(c.reply.got[k]) < Rank(listed[k]))
    BY <1>12 DEF HearList
  <2>3. c \in calls /\ c.does \in Lists /\ c.reply # Nothing
    BY <1>12 DEF Answered
  <2>4. Ok(c) => /\ c.reply.got \in [Made -> KeyStates]
                 /\ \A k \in Made : Rank(c.reply.got[k]) <= Rank(made[k])
    BY <2>3 DEF KeysHeld, Done
  <2>5. /\ listed' \in [Made -> KeyStates]
        /\ \A k \in Made : Rank(listed'[k]) <= Rank(made[k])
    BY <2>1, <2>4 DEF KeysHeld
  <2>6. ConsoleType'
    BY <1>0, <2>1 DEF ConsoleType
  <2>7. ASSUME ~muddled', NEW k \in Made
        PROVE  listed'[k] = made[k] \/ \E d \in calls' : Follows(d, k)
    <3>1. listed[k] = made[k] \/ \E d \in calls : Follows(d, k)
      BY <2>2, <2>7 DEF KeysHeld
    <3>2. listed'[k] = c.reply.got[k]
      BY <2>1, <2>2, <2>7
    <3>3. CASE listed[k] = made[k]
      <4>1. /\ ~(Rank(listed'[k]) < Rank(made[k])) /\ Rank(listed'[k]) <= Rank(made[k])
            /\ listed'[k] \in KeyStates /\ made[k] \in KeyStates
        BY <1>0, <2>2, <2>5, <2>7, <3>2, <3>3
      <4> QED
        BY <4>1, RankIs
    <3>4. ASSUME NEW d \in calls, Follows(d, k)
          PROVE  listed'[k] = made[k] \/ \E e \in calls' : Follows(e, k)
      <4>1. CASE d = c
        BY <2>2, <2>3, <2>7, <3>2, <3>4, <4>1 DEF Follows, Done
      <4>2. CASE d # c
        BY <2>1, <3>4, <4>2
      <4> QED
        BY <4>1, <4>2
    <3> QED
      BY <3>1, <3>3, <3>4
  <2>8. KeysHeld'
    BY <2>1, <2>5, <2>7 DEF KeysHeld, Follows, Done
  <2> QED
    BY <2>6, <2>8
<1>13. page' = page
  BY DEF AtKeys, CreateKey, Revoke, ServeCreate, ServeRevoke, ServeList,
         HearOfCreate, HearOfRevoke, HearList
<1> QED
  BY <1>3, <1>4, <1>5, <1>6, <1>7, <1>10, <1>11, <1>12, <1>13 DEF AtKeys

-----------------------------------------------------------------------------
\* The manager of webhook endpoints.

\* One call takes the place of another.
Swaps(c, D) == D \subseteq CallsOf("hooks") /\ calls' = (calls \ {c}) \cup D

\* An endpoint that neither call is about.
LEMMA SettledFrame ==
  ASSUME NEW e \in Endpoints, Settled(e), NEW c, NEW D, Swaps(c, D),
         c \in calls => ~Adds(c, e) /\ ~Alters(c, e),
         \A d \in D : ~Adds(d, e) /\ ~Alters(d, e),
         listed'[e] = listed[e], hook'[e] = hook[e]
  PROVE  Settled(e)'
<1>1. \A d \in calls' : Adds(d, e) \/ Alters(d, e) => d \in calls
  BY DEF Swaps
<1>2. \A d \in calls : Adds(d, e) \/ Alters(d, e) => d \in calls'
  BY DEF Swaps
<1> QED
  BY <1>1, <1>2 DEF Settled, Shown, Adds, Alters

\* What holds of the page even when an answer was lost.
LEMMA HooksFrame ==
  ASSUME ConsoleType, HooksHeld, page = "hooks", page' = page, made' = made,
         NEW c, NEW D, Swaps(c, D), count' \in Nat,
         listed' \in [Endpoints -> HookStates], hook' \in [Endpoints -> HookStates],
         \A e \in Endpoints : /\ listed[e] # "none" => listed'[e] # "none"
                              /\ hook[e] # "none" => hook'[e] # "none"
                              /\ listed'[e] # "none" => hook'[e] # "none",
         \A d \in D :
           /\ d.does \in Changes => d.what \in Endpoints /\ listed'[d.what] # "none"
           /\ d.does = "add" /\ Done(d) =>
                d.reply.got \in Endpoints /\ hook'[d.reply.got] # "none",
         ~muddled' => \A e \in Endpoints : Settled(e)'
  PROVE  ConsoleType' /\ HooksHeld'
<1>1. ConsoleType'
  BY DEF ConsoleType, Swaps
<1>2. \A d \in calls' :
        /\ d.does \in Changes => d.what \in Endpoints /\ listed'[d.what] # "none"
        /\ d.does = "add" /\ Done(d) =>
             d.reply.got \in Endpoints /\ hook'[d.reply.got] # "none"
  <2>1. \A d \in calls :
          /\ d.does \in Changes => d.what \in Endpoints /\ listed[d.what] # "none"
          /\ d.does = "add" /\ Done(d) =>
               d.reply.got \in Endpoints /\ hook[d.reply.got] # "none"
    BY DEF HooksHeld
  <2> QED
    BY <2>1 DEF Swaps
<1>3. HooksHeld'
  BY <1>2 DEF HooksHeld, Done, Ok
<1> QED
  BY <1>1, <1>3

LEMMA AtHooksKept ==
  ASSUME ConsoleType, HooksHeld, page = "hooks", AtHooks
  PROVE  ConsoleType' /\ HooksHeld' /\ page' = "hooks"
<1> USE DEF Changes
<1>0. /\ calls \subseteq CallsOf("hooks") /\ count \in Nat
      /\ hook \in [Endpoints -> HookStates] /\ listed \in [Endpoints -> HookStates]
      /\ {"add", "on", "off", "gone"} \subseteq DoesOn("hooks")
      /\ \A e \in Endpoints : listed[e] # "none" => hook[e] # "none"
      /\ ~muddled => \A e \in Endpoints : Settled(e)
  BY DEF ConsoleType, HooksHeld, DoesOn
<1>1. CASE AddHook
  <2>0. PICK c : c = Call("add", Nothing)
    OBVIOUS
  <2>1. /\ UNCHANGED <<page, made, hook, listed, muddled>>
        /\ count' = count + 1 /\ calls' = calls \cup {c}
    BY <1>1, <2>0 DEF AddHook, Ask, rows, past
  <2>2. c \in CallsOf("hooks")
    BY <1>0, <2>0, CallIs
  <2>3. c.does = "add" /\ c.reply = Nothing
    BY <2>0, CallSays
  <2>4. Swaps(c, {c}) /\ \A e \in Endpoints : ~Adds(c, e) /\ ~Alters(c, e)
    BY <2>1, <2>2, <2>3 DEF Swaps, Adds, Alters, Done
  <2>5. ~muddled' => \A e \in Endpoints : Settled(e)'
    BY <1>0, <2>1, <2>4, SettledFrame
  <2>6. count' \in Nat
    BY <1>0, <2>1
  <2> QED
    BY <1>0, <2>1, <2>3, <2>4, <2>5, <2>6, HooksFrame DEF Done
<1>2. ASSUME NEW e \in Endpoints, NEW does \in Changes, ChangeHook(e, does)
      PROVE  ConsoleType' /\ HooksHeld'
  <2>0. PICK c : c = Call(does, e)
    OBVIOUS
  <2>1. /\ UNCHANGED <<page, made, hook, listed>>
        /\ count' = count + 1 /\ calls' = calls \cup {c} /\ Shown(e)
    BY <1>2, <2>0 DEF ChangeHook, Ask, rows
  <2>2. c \in CallsOf("hooks")
    BY <1>0, <2>0, CallIs
  <2>3. c.does = does /\ c.what = e /\ c.reply = Nothing
    BY <2>0, CallSays
  <2>4. ~muddled' => ~muddled /\ \A d \in calls : d.what # e
    BY <1>2 DEF ChangeHook
  <2>5. ASSUME ~muddled', NEW f \in Endpoints PROVE Settled(f)'
    <3>1. CASE f # e
      <4>1. Swaps(c, {c}) /\ ~Adds(c, f) /\ ~Alters(c, f)
        BY <2>1, <2>2, <2>3, <3>1 DEF Swaps, Adds, Alters, Done
      <4> QED
        BY <1>0, <2>1, <2>4, <2>5, <4>1, SettledFrame
    <3>2. CASE f = e
      <4>1. \A d \in calls : ~Alters(d, e) /\ ~Adds(d, e)
        BY <1>0, <2>1, <2>4, <2>5, <3>2 DEF Alters, Settled, Shown
      <4>2. listed[e] = hook[e]
        BY <1>0, <2>4, <2>5, <4>1 DEF Settled
      <4>3. ~Adds(c, e) /\ ~Done(c)
        BY <2>3 DEF Adds, Done
      <4>4. \A d \in calls' : ~Adds(d, e)' /\ (Alters(d, e)' => d = c)
        BY <2>1, <4>1, <4>3 DEF Adds, Alters, Done, Ok
      <4> QED
        BY <2>1, <3>2, <4>2, <4>3, <4>4 DEF Settled, Shown, Done, Ok
    <3> QED
      BY <3>1, <3>2
  <2>6. count' \in Nat
    BY <1>0, <2>1
  <2>7. Swaps(c, {c}) /\ listed[e] # "none"
    BY <2>1, <2>2 DEF Swaps, Shown
  <2> QED
    BY <1>0, <2>1, <2>3, <2>5, <2>6, <2>7, HooksFrame DEF Done
<1>3. ASSUME NEW c \in Unserved("add"), ServeAdd(c)
      PROVE  ConsoleType' /\ HooksHeld'
  <2>1. PICK e \in Endpoints :
          /\ hook[e] = "none" /\ hook' = [hook EXCEPT ![e] = "on"]
          /\ calls' = (calls \ {c}) \cup {Served(c, TRUE, e)}
    BY <1>3 DEF ServeAdd, Reply, Served
  <2>2. UNCHANGED <<page, made, listed, muddled, count>>
    BY <1>3 DEF ServeAdd, past
  <2>0. PICK d : d = Served(c, TRUE, e)
    OBVIOUS
  <2>3. c \in calls /\ c \in CallsOf("hooks") /\ c.does = "add" /\ c.reply = Nothing
    BY <1>0, <1>3 DEF Unserved
  <2>4. d \in CallsOf("hooks")
    BY <2>0, <2>3, ServedIs
  <2>5. d.does = "add" /\ d.reply = [ok |-> TRUE, got |-> e]
    BY <2>0, <2>3 DEF Served, CallsOf
  <2>6. d.reply # Nothing /\ Ok(d) /\ d.reply.got = e
    BY <2>5, GrantedIs
  <2>7. hook'[e] = "on" /\ \A f \in Endpoints \ {e} : hook'[f] = hook[f]
    BY <1>0, <2>1
  <2>8. Swaps(c, {d}) /\ \A f \in Endpoints : ~Adds(c, f) /\ ~Alters(c, f)
    BY <2>0, <2>1, <2>3, <2>4 DEF Swaps, Adds, Alters, Done
  <2>9. ASSUME ~muddled', NEW f \in Endpoints PROVE Settled(f)'
    <3>1. CASE f # e
      <4>1. ~Adds(d, f) /\ ~Alters(d, f)
        BY <2>5, <2>6, <3>1 DEF Adds, Alters
      <4> QED
        BY <1>0, <2>2, <2>7, <2>8, <2>9, <3>1, <4>1, SettledFrame
    <3>2. CASE f = e
      <4>1. listed[e] = "none" /\ Settled(e)
        BY <1>0, <2>1, <2>2, <2>9
      <4>2. \A x \in calls : ~Alters(x, e) /\ ~Adds(x, e)
        BY <2>1, <4>1 DEF Settled, Shown
      <4>3. Adds(d, e) /\ ~Alters(d, e)
        BY <2>5, <2>6 DEF Adds, Alters, Done
      <4>4. \A x \in calls' : ~Alters(x, e) /\ (Adds(x, e) => x = d)
        BY <2>0, <2>1, <4>2, <4>3
      <4>5. d \in calls'
        BY <2>0, <2>1
      <4> QED
        BY <2>2, <2>7, <3>2, <4>1, <4>3, <4>4, <4>5 DEF Settled, Adds, Alters, Done, Ok
    <3> QED
      BY <3>1, <3>2
  <2>10. hook' \in [Endpoints -> HookStates]
    BY <1>0, <2>1 DEF HookStates
  <2> QED
    BY <1>0, <2>2, <2>5, <2>6, <2>7, <2>8, <2>9, <2>10, HooksFrame
<1>4. ASSUME NEW a \in Changes, NEW c \in Unserved(a), ServeChange(c)
      PROVE  ConsoleType' /\ HooksHeld'
  <2>1. /\ hook' = [hook EXCEPT ![c.what] = c.does]
        /\ calls' = (calls \ {c}) \cup {Served(c, TRUE, Nothing)}
        /\ UNCHANGED <<page, made, listed, muddled, count>>
    BY <1>4 DEF ServeChange, Reply, Served, past
  <2>0. PICK d : d = Served(c, TRUE, Nothing)
    OBVIOUS
  <2>3. /\ c \in calls /\ c \in CallsOf("hooks") /\ c.does = a /\ c.reply = Nothing
        /\ c.what \in Endpoints /\ listed[c.what] # "none"
    BY <1>0, <1>4 DEF Unserved, HooksHeld
  <2>4. d \in CallsOf("hooks")
    BY <2>0, <2>3, ServedIs
  <2>5. d.does = a /\ d.what = c.what /\ d.reply = [ok |-> TRUE, got |-> Nothing]
    BY <2>0, <2>3 DEF Served, CallsOf
  <2>6. d.reply # Nothing /\ Ok(d)
    BY <2>5, GrantedIs
  <2>7. /\ hook'[c.what] = a
        /\ \A f \in Endpoints \ {c.what} : hook'[f] = hook[f]
    BY <1>0, <2>1, <2>3
  <2>8. /\ Swaps(c, {d}) /\ \A f \in Endpoints : ~Adds(c, f) /\ ~Adds(d, f)
        /\ \A f \in Endpoints \ {c.what} : ~Alters(c, f) /\ ~Alters(d, f)
        /\ Alters(c, c.what) /\ Alters(d, c.what)
    BY <2>0, <2>1, <2>3, <2>4, <2>5 DEF Swaps, Adds, Alters, Done
  <2>9. ASSUME ~muddled', NEW f \in Endpoints PROVE Settled(f)'
    <3>1. CASE f # c.what
      BY <1>0, <2>1, <2>7, <2>8, <2>9, <3>1, SettledFrame
    <3>2. CASE f = c.what
      <4>1. Settled(f)
        BY <1>0, <2>1, <2>9
      <4>2. /\ \A x \in calls : ~Adds(x, f) /\ (Alters(x, f) => x = c)
            /\ Shown(f)
        BY <2>3, <2>8, <3>2, <4>1 DEF Settled, Shown
      <4>3. /\ \A x \in calls' : ~Adds(x, f) /\ (Alters(x, f) => x = d)
            /\ d \in calls'
        BY <2>0, <2>1, <2>8, <4>2
      <4> QED
        BY <2>1, <2>5, <2>6, <2>7, <2>8, <3>2, <4>2, <4>3
        DEF Settled, Adds, Alters, Done, Ok, Shown
    <3> QED
      BY <3>1, <3>2
  <2>10. /\ hook' \in [Endpoints -> HookStates]
         /\ \A f \in Endpoints : hook[f] # "none" => hook'[f] # "none"
    BY <1>0, <2>1, <2>3, <2>7 DEF HookStates
  <2> QED
    BY <1>0, <2>1, <2>3, <2>5, <2>6, <2>8, <2>9, <2>10, HooksFrame
<1>5. ASSUME NEW c \in Answered("add"), HearOfAdd(c)
      PROVE  ConsoleType' /\ HooksHeld'
  <2>1. /\ calls' = calls \ {c} /\ UNCHANGED <<page, made, hook, muddled, count>>
        /\ Ok(c) => listed' = [listed EXCEPT ![c.reply.got] = "on"]
        /\ ~Ok(c) => listed' = listed
    BY <1>5 DEF HearOfAdd, rows, past
  <2>2. /\ c \in calls /\ c.does = "add" /\ (Ok(c) <=> Done(c))
        /\ Ok(c) => c.reply.got \in Endpoints /\ hook[c.reply.got] # "none"
    BY <1>5 DEF Answered, HooksHeld, Done
  <2>3. Swaps(c, {}) /\ \A f \in Endpoints : ~Alters(c, f)
    BY <2>1, <2>2 DEF Swaps, Alters
  <2>4. \A f \in Endpoints : f # c.reply.got \/ ~Ok(c) =>
          ~Adds(c, f) /\ listed'[f] = listed[f]
    BY <1>0, <2>1, <2>2 DEF Adds
  <2>5. Ok(c) => listed'[c.reply.got] = "on" /\ Adds(c, c.reply.got)
    BY <1>0, <2>1, <2>2 DEF Adds
  <2>6. ASSUME ~muddled', NEW f \in Endpoints PROVE Settled(f)'
    <3>1. CASE f # c.reply.got \/ ~Ok(c)
      <4>1. /\ ~Adds(c, f) /\ ~Alters(c, f) /\ Settled(f)
            /\ listed'[f] = listed[f] /\ hook'[f] = hook[f]
        BY <1>0, <2>1, <2>3, <2>4, <2>6, <3>1
      <4> QED
        BY <2>3, <4>1, SettledFrame
    <3>2. CASE f = c.reply.got /\ Ok(c)
      <4>1. Settled(f) /\ Adds(c, f)
        BY <1>0, <2>1, <2>5, <2>6, <3>2
      <4>2. /\ \A x \in calls : ~Alters(x, f) /\ (Adds(x, f) => x = c)
            /\ hook[f] = "on"
        BY <2>2, <4>1 DEF Settled, Shown
      <4>3. \A x \in calls' : ~Adds(x, f) /\ ~Alters(x, f)
        BY <2>1, <4>2
      <4> QED
        BY <2>1, <2>5, <3>2, <4>2, <4>3 DEF Settled, Adds, Alters, Done, Ok
    <3> QED
      BY <3>1, <3>2
  <2>7. /\ listed' \in [Endpoints -> HookStates]
        /\ \A f \in Endpoints : /\ listed[f] # "none" => listed'[f] # "none"
                                /\ listed'[f] # "none" => hook'[f] # "none"
    BY <1>0, <2>1, <2>2, <2>4, <2>5 DEF HookStates
  <2> QED
    BY <1>0, <2>1, <2>3, <2>6, <2>7, HooksFrame
<1>6. ASSUME NEW a \in Changes, NEW c \in Answered(a), HearOfChange(c)
      PROVE  ConsoleType' /\ HooksHeld'
  <2>1. /\ calls' = calls \ {c} /\ UNCHANGED <<page, made, hook, count>>
        /\ listed' = [listed EXCEPT
                        ![c.what] = IF Shown(c.what) THEN c.does ELSE @]
    BY <1>6 DEF HearOfChange, rows
  <2>2. ~muddled' => ~muddled /\ Ok(c)
    BY <1>6 DEF HearOfChange
  <2>3. /\ c \in calls /\ c.does = a /\ (Ok(c) <=> Done(c))
        /\ c.what \in Endpoints /\ listed[c.what] # "none"
    BY <1>6 DEF Answered, HooksHeld, Done
  <2>4. /\ Swaps(c, {}) /\ \A f \in Endpoints : ~Adds(c, f)
        /\ \A f \in Endpoints \ {c.what} : ~Alters(c, f)
        /\ Alters(c, c.what)
    BY <2>1, <2>3 DEF Swaps, Alters, Adds
  <2>5. /\ listed'[c.what] = IF Shown(c.what) THEN a ELSE listed[c.what]
        /\ \A f \in Endpoints \ {c.what} : listed'[f] = listed[f]
    BY <1>0, <2>1, <2>3
  <2>6. ASSUME ~muddled', NEW f \in Endpoints PROVE Settled(f)'
    <3>1. CASE f # c.what
      <4>1. /\ ~Adds(c, f) /\ ~Alters(c, f) /\ Settled(f)
            /\ listed'[f] = listed[f] /\ hook'[f] = hook[f]
        BY <1>0, <2>1, <2>2, <2>4, <2>5, <2>6, <3>1
      <4> QED
        BY <2>4, <4>1, SettledFrame
    <3>2. CASE f = c.what
      <4>1. Settled(f) /\ Alters(c, f) /\ Done(c)
        BY <1>0, <2>2, <2>3, <2>4, <2>6, <3>2
      <4>2. /\ \A x \in calls : ~Adds(x, f) /\ (Alters(x, f) => x = c)
            /\ Shown(f) /\ hook[f] = a
        BY <2>3, <4>1 DEF Settled, Shown
      <4>3. \A x \in calls' : ~Adds(x, f) /\ ~Alters(x, f)
        BY <2>1, <4>2
      <4> QED
        BY <2>1, <2>5, <3>2, <4>2, <4>3 DEF Settled, Adds, Alters, Done, Ok
    <3> QED
      BY <3>1, <3>2
  <2>7. /\ listed' \in [Endpoints -> HookStates]
        /\ \A f \in Endpoints : /\ listed[f] # "none" => listed'[f] # "none"
                                /\ listed'[f] # "none" => hook'[f] # "none"
    BY <1>0, <2>1, <2>3, <2>5 DEF HookStates
  <2> QED
    BY <1>0, <2>1, <2>4, <2>6, <2>7, HooksFrame
<1>7. page' = page
  BY DEF AtHooks, AddHook, Toggle, Remove, ChangeHook, ServeAdd, ServeChange,
         HearOfAdd, HearOfChange
<1> QED
  BY <1>1, <1>2, <1>3, <1>4, <1>5, <1>6, <1>7 DEF AtHooks, Toggle, Remove

-----------------------------------------------------------------------------
\* A call that is refused, or lost.

LEMMA RefusedIs ==
  ASSUME NEW p, NEW c \in CallsOf(p)
  PROVE  /\ Served(c, FALSE, Nothing) \in CallsOf(p)
         /\ Served(c, FALSE, Nothing).does = c.does
         /\ Served(c, FALSE, Nothing).what = c.what
         /\ Served(c, FALSE, Nothing).reply # Nothing
         /\ ~Ok(Served(c, FALSE, Nothing))
<1> DEFINE r == [ok |-> FALSE, got |-> Nothing]
<1>1. r \in Answers
  BY DEF Answers
<1>2. r # Nothing /\ ~r.ok
  BY <1>1, ConsoleAssumption
<1> HIDE DEF r
<1>3. [c EXCEPT !.reply = r] \in CallsOf(p)
  BY <1>1 DEF CallsOf
<1>4. /\ [c EXCEPT !.reply = r].does = c.does /\ [c EXCEPT !.reply = r].what = c.what
      /\ [c EXCEPT !.reply = r].reply = r
  BY DEF CallsOf
<1> QED
  BY <1>2, <1>3, <1>4 DEF Served, Ok, r

LEMMA RefuseKept ==
  ASSUME ConsoleType, LoginHeld, KeysHeld, HooksHeld, NEW c \in calls, Refuse(c)
  PROVE  ConsoleType' /\ LoginHeld' /\ KeysHeld' /\ HooksHeld'
<1>0. PICK d : d = Served(c, FALSE, Nothing)
  OBVIOUS
<1>1. /\ calls' = (calls \ {c}) \cup {d} /\ c.reply = Nothing
      /\ UNCHANGED <<page, made, hook, count, busy, email, about, listed, mailed,
                     edited, muddled>>
  BY <1>0 DEF Refuse, Reply, Served, rows, past
<1>2. calls \subseteq CallsOf(page) /\ c \in CallsOf(page) /\ count \in Nat
  BY DEF ConsoleType
<1>3. d \in CallsOf(page)
  BY <1>0, <1>2, RefusedIs
<1>4. d.does = c.does /\ d.what = c.what
  BY <1>0, <1>2, RefusedIs, Zenon
<1>5. ~Ok(d)
  BY <1>0, <1>2, RefusedIs, Zenon
<1>6. ConsoleType'
  BY <1>1, <1>2, <1>3 DEF ConsoleType
<1>7. LoginHeld'
  BY <1>1, <1>4, <1>5 DEF LoginHeld, LinkSentIsTrue
<1>8. CASE page = "keys"
  <2>1. Replaces(c, {d})
    BY <1>1, <1>2, <1>3, <1>4, <1>5, <1>8 DEF Replaces, Brings, Follows, Done, KeysHeld
  <2>2. \A k \in Made : Rank(made[k]) <= Rank(made'[k])
    BY <1>1, RankIs DEF ConsoleType
  <2>3. KeysHeld'
    BY <1>1, <1>2, <1>8, <2>1, <2>2, KeysSwap DEF ConsoleType
  <2> QED
    BY <1>1, <1>6, <1>7, <1>8, <2>3 DEF HooksHeld
<1>9. CASE page = "hooks"
  <2>1. Swaps(c, {d}) /\ ~Done(c) /\ ~Done(d)
    BY <1>1, <1>3, <1>5, <1>9 DEF Swaps, Done
  <2>2. \A f \in Endpoints : /\ ~Adds(c, f) /\ ~Adds(d, f)
                             /\ Alters(c, f) <=> Alters(d, f)
    BY <1>4, <2>1 DEF Adds, Alters
  <2>3. ASSUME ~muddled', NEW f \in Endpoints PROVE Settled(f)'
    <3>0. Settled(f)
      BY <1>1, <1>9, <2>3 DEF HooksHeld
    <3>1. CASE ~Alters(c, f)
      BY <1>1, <2>1, <2>2, <3>0, <3>1, SettledFrame
    <3>2. CASE Alters(c, f)
      <4>1. \A x \in calls : Alters(x, f) => x = c
        BY <3>0, <3>2 DEF Settled
      <4>2. /\ \A x \in calls' : Alters(x, f) => x = d
            /\ \A x \in calls' : Adds(x, f) => x \in calls
            /\ \A x \in calls : Adds(x, f) => x \in calls'
            /\ d \in calls' /\ Alters(d, f)
        BY <1>1, <2>2, <3>2, <4>1
      <4>3. Shown(f) /\ hook[f] = listed[f]
        BY <2>1, <3>0, <3>2 DEF Settled
      <4> QED
        BY <1>1, <2>1, <3>0, <4>2, <4>3 DEF Settled, Adds, Alters, Done, Ok, Shown
    <3> QED
      BY <3>1, <3>2
  <2>4. /\ hook \in [Endpoints -> HookStates] /\ listed \in [Endpoints -> HookStates]
        /\ \A e \in Endpoints : listed[e] # "none" => hook[e] # "none"
        /\ c.does \in Changes => c.what \in Endpoints /\ listed[c.what] # "none"
    BY <1>9 DEF ConsoleType, HooksHeld
  <2>5. HooksHeld'
    BY <1>1, <1>2, <1>4, <1>9, <2>1, <2>3, <2>4, HooksFrame
  <2> QED
    BY <1>1, <1>6, <1>7, <1>9, <2>5 DEF KeysHeld
<1>10. CASE page \notin {"keys", "hooks"}
  BY <1>1, <1>6, <1>7, <1>10 DEF KeysHeld, HooksHeld
<1> QED
  BY <1>8, <1>9, <1>10

LEMMA LoseKept ==
  ASSUME ConsoleType, LoginHeld, KeysHeld, HooksHeld, NEW c \in calls, Lose(c)
  PROVE  ConsoleType' /\ LoginHeld' /\ KeysHeld' /\ HooksHeld'
<1>1. /\ calls' = calls \ {c}
      /\ UNCHANGED <<page, made, hook, count, email, about, listed, mailed, edited>>
  BY DEF Lose, rows
<1>2. muddled'
  BY DEF Lose
<1>3. ConsoleType'
  BY <1>1 DEF ConsoleType
<1>4. LoginHeld'
  <2>1. page = "login" => calls' = {}
    BY <1>1 DEF LoginHeld
  <2> QED
    BY <1>1, <2>1 DEF LoginHeld, LinkSentIsTrue
<1>5. KeysHeld'
  BY <1>1, <1>2 DEF KeysHeld, Done, Ok
<1>6. HooksHeld'
  BY <1>1, <1>2 DEF HooksHeld, Done, Ok
<1> QED
  BY <1>3, <1>4, <1>5, <1>6

-----------------------------------------------------------------------------
LEMMA NextConsole ==
  ConsoleInv /\ [ConsoleNext]_<<vars, consoleVars>> => ConsoleInv'
<1> SUFFICES ASSUME ConsoleInv, [ConsoleNext]_<<vars, consoleVars>>
             PROVE  ConsoleInv'
  OBVIOUS
<1> USE DEF ConsoleInv
<1>1. AccessInv'
  BY ConsoleStep, NextAccess
<1>2. CASE UNCHANGED consoleVars
  <2>0. UNCHANGED <<made, hook, page, calls, count, busy, email, about, listed,
                    mailed, edited, muddled>>
    BY <1>2 DEF consoleVars, rows, view, past
  <2>1. ConsoleType'
    BY <2>0 DEF ConsoleType
  <2>2. LoginHeld'
    BY <2>0 DEF LoginHeld, LinkSentIsTrue, Ok
  <2>3. KeysHeld'
    BY <2>0 DEF KeysHeld, Follows, Done, Ok
  <2>4. HooksHeld'
    <3>1. \A e \in Endpoints : Settled(e)' <=> Settled(e)
      BY <2>0 DEF Settled, Adds, Alters, Shown, Done, Ok
    <3> QED
      BY <2>0, <3>1 DEF HooksHeld, Done, Ok
  <2> QED
    BY <1>1, <2>1, <2>2, <2>3, <2>4
<1>3. CASE page = "login" /\ AtLogin
  BY <1>1, <1>3, AtLoginKept
<1>4. CASE page = "keys" /\ AtKeys
  BY <1>1, <1>4, AtKeysKept DEF LoginHeld, HooksHeld
<1>5. CASE page = "hooks" /\ AtHooks
  BY <1>1, <1>5, AtHooksKept DEF LoginHeld, KeysHeld
<1>6. CASE AnyPage
  BY <1>1, <1>6, RefuseKept, LoseKept DEF AnyPage
<1>7. CASE Deciding
  BY <1>1, <1>7, MountKept DEF Deciding, Authorize, DecideTooLate, Leave
<1>8. CASE OpenLogin \/ \E c \in Codes : OpenConsent(c)
  BY <1>1, <1>8, MountKept DEF OpenLogin, OpenConsent
<1>9. CASE OpenKeys
  <2>1. /\ page' = "keys" /\ calls' = {} /\ count' = 0 /\ listed' = made
        /\ UNCHANGED <<made, hook>> /\ made \in [Made -> KeyStates]
    BY <1>9 DEF OpenKeys, OpenTool, Mount, rows, ConsoleType
  <2>2. ConsoleType'
    BY <2>1 DEF ConsoleType
  <2>3. KeysHeld'
    <3>1. \A k \in Made : Rank(made[k]) <= Rank(made[k])
      BY <2>1, RankIs
    <3> QED
      BY <2>1, <3>1 DEF KeysHeld
  <2> QED
    BY <1>1, <2>1, <2>2, <2>3 DEF LoginHeld, HooksHeld
<1>10. CASE OpenHooks
  <2>1. /\ page' = "hooks" /\ calls' = {} /\ count' = 0 /\ listed' = hook
        /\ UNCHANGED <<made, hook>> /\ hook \in [Endpoints -> HookStates]
    BY <1>10 DEF OpenHooks, OpenTool, Mount, rows, ConsoleType
  <2>2. ConsoleType'
    BY <2>1 DEF ConsoleType
  <2>3. HooksHeld'
    BY <2>1 DEF HooksHeld, Settled
  <2> QED
    BY <1>1, <2>1, <2>2, <2>3 DEF LoginHeld, KeysHeld
<1> QED
  BY <1>1, <1>2, <1>3, <1>4, <1>5, <1>6, <1>7, <1>8, <1>9, <1>10, PageSteps
  DEF Opening

LEMMA InitConsole == ConsoleInit => ConsoleInv
<1> SUFFICES ASSUME ConsoleInit PROVE ConsoleInv
  OBVIOUS
<1>1. AccessInv
  BY InitAccess DEF ConsoleInit
<1>2. ConsoleType
  BY DEF ConsoleInit, ConsoleType, KeyStates, HookStates
<1>3. LoginHeld /\ KeysHeld /\ HooksHeld
  BY DEF ConsoleInit, LoginHeld, KeysHeld, HooksHeld
<1> QED
  BY <1>1, <1>2, <1>3 DEF ConsoleInv

LEMMA ConsoleIsRight == ConsoleInv => ShownIsTrue
<1> SUFFICES ASSUME ConsoleInv PROVE ShownIsTrue
  OBVIOUS
<1>1. LinkSentIsTrue
  BY DEF ConsoleInv, LoginHeld, LinkSentIsTrue
<1>2. ASSUME page = "keys", calls = {}, ~muddled PROVE listed = made
  <2>1. listed \in [Made -> KeyStates] /\ made \in [Made -> KeyStates]
    BY <1>2 DEF ConsoleInv, ConsoleType, KeysHeld
  <2>2. \A k \in Made : listed[k] = made[k]
    BY <1>2 DEF ConsoleInv, KeysHeld
  <2> QED
    BY <2>1, <2>2
<1>3. ASSUME page = "hooks", calls = {}, ~muddled PROVE listed = hook
  <2>1. listed \in [Endpoints -> HookStates] /\ hook \in [Endpoints -> HookStates]
    BY <1>3 DEF ConsoleInv, ConsoleType, HooksHeld
  <2>2. \A e \in Endpoints : listed[e] = hook[e]
    BY <1>3 DEF ConsoleInv, HooksHeld, Settled
  <2> QED
    BY <2>1, <2>2
<1>4. ListIsCurrent
  BY <1>2, <1>3 DEF ListIsCurrent
<1> QED
  BY <1>1, <1>4 DEF ShownIsTrue

\* What the pages do to the account is what Access allows, so all that is true
\* of Access is true of it: every step of sign-in, consent, card and manager is a
\* step of Access, or touches none of its rows.
THEOREM PagesAreAccess == ConsoleSpec => Spec
<1>1. ConsoleInit => ConsoleInv /\ Init
  BY InitConsole DEF ConsoleInit
<1>2. ConsoleInv /\ [ConsoleNext]_<<vars, consoleVars>> => ConsoleInv' /\ [Next]_vars
  BY NextConsole, ConsoleStep DEF ConsoleInv
<1> QED
  BY <1>1, <1>2, PTL DEF ConsoleSpec, Spec

\* For any number of simultaneous logins, signups and links: a link makes one
\* session, and an account one default key, which is missing only while it is
\* being made or if that failed.
THEOREM EachOnce == ConsoleSpec => []OneOfEach
<1>1. ConsoleSpec => []AccessInv
  BY PagesAreAccess, AccessHolds
<1>2. AccessInv => OneOfEach
  BY AccessIsRight
<1> QED
  BY <1>1, <1>2, PTL

\* For any number of clients, grants and token pairs: a grant has one live refresh
\* token and, if no revocation failed, one live access key, as long as no two of
\* its exchanges or rotations overlap, wherever a request dies.
THEOREM PairOfGrant == ConsoleSpec => []OneLivePair
<1>1. ConsoleSpec => []AccessInv
  BY PagesAreAccess, AccessHolds
<1>2. AccessInv => OneLivePair
  BY AccessIsRight
<1> QED
  BY <1>1, <1>2, PTL

\* For any number of addresses, keys, endpoints and calls: what the pages show of a
\* link that was sent, and of keys and endpoints, is so, in whatever order their
\* calls are served and answered.
THEOREM PagesShowTruth == ConsoleSpec => []ShownIsTrue
<1>1. ConsoleInit => ConsoleInv
  BY InitConsole
<1>2. ConsoleInv /\ [ConsoleNext]_<<vars, consoleVars>> => ConsoleInv'
  BY NextConsole
<1>3. ConsoleInv => ShownIsTrue
  BY ConsoleIsRight
<1> QED
  BY <1>1, <1>2, <1>3, PTL DEF ConsoleSpec
===============================================================================
