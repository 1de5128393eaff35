------------------------------- MODULE EmbedHost -------------------------------
(***************************************************************************)
(* A host page that embeds signing pages, with embed() of the JavaScript   *)
(* SDK or of public/embed.js.  An embedded page that completes posts a     *)
(* message to its host, where every listener hears it.                     *)
(***************************************************************************)
EXTENDS SigningPages

VARIABLES
  by,      \* what a page was embedded with
  hears,   \* embeddings with a listener
  posted,  \* pages whose swiftsign:completed is on its way
  told     \* history: onComplete calls, with the page that each is about

host == <<by, hears, posted, told>>

HostInit ==
  /\ Init
  /\ by = [p \in Pages |-> "none"]
  /\ hears = {} /\ posted = {} /\ told = {}

\* embed.
Embed(p, t, how) ==
  /\ OpenEmbed(p, t)
  /\ by' = [by EXCEPT ![p] = how]
  /\ hears' = hears \cup {p}
  /\ UNCHANGED <<posted, told>>

\* handleComplete posts when the answer is there.
PageStep ==
  /\ Next
  /\ posted' = posted \cup {p \in Pages : /\ by[p] # "none"
                                        /\ at[p] # "complete"
                                        /\ at'[p] = "complete"}
  /\ UNCHANGED <<by, hears, told>>

\* onMessage of q: the SDK compares the source, embed.js the origin only.
IsFor(q, p) == q \in hears /\ (by[q] = "sdk" => q = p)

\* embed.js listens once.
Hear(p) ==
  /\ p \in posted
  /\ posted' = posted \ {p}
  /\ LET heard == {q \in Pages : IsFor(q, p)}
     IN  /\ told' = told \cup {<<q, p>> : q \in heard}
         /\ hears' = hears \ {q \in heard : by[q] = "script"}
  /\ UNCHANGED <<vars, by>>

\* The host removes a page that is on the screen, whatever it waits for.
\* destroy of the SDK also removes the listener; embed.js has no destroy.
Destroy(p) ==
  /\ by[p] # "none"
  /\ at[p] \in {"consent", "consenting", "form", "submitting", "complete",
                "card", "expired"}
  /\ Goto(p, "gone")
  /\ hears' = IF by[p] = "sdk" THEN hears \ {p} ELSE hears
  /\ UNCHANGED <<recipient, tracking, tickets, kind, entry, asked, snap, refusal,
                 by, posted, told>>

HostNext ==
  \/ PageStep
  \/ \E p \in Pages :
       \/ \E t \in Tickets, how \in {"sdk", "script"} : Embed(p, t, how)
       \/ Hear(p) \/ Destroy(p)

HostSpec == HostInit /\ [][HostNext]_<<vars, host>>

-----------------------------------------------------------------------------
ToldIsOwn ==
  \A call \in told : author = call[2] /\ (by[call[1]] = "sdk" => call[1] = call[2])

\* Whoever sees "Signing Complete", and every host that is told so, can rely on
\* it: the fields hold the values of the page that shows or posts it and of no
\* other, whatever other pages of the signer submit, or decline, and whatever
\* the host removes meanwhile; with the SDK the call is about the page that was
\* embedded with it.
CompleteIsTrue == CompleteIsOwn /\ ToldIsOwn
===============================================================================
