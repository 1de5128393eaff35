----------------------------- MODULE SigningPages -----------------------------
(***************************************************************************)
(* One signer, several browser pages: the emailed link, the sender's       *)
(* preview of it, and embedded pages that enter by a single-use ticket.    *)
(* A page is rendered from one read of the database, later posts consent,  *)
(* signature or refusal, and reloads; other pages do so at the same time.  *)
(***************************************************************************)
EXTENDS Naturals, FiniteSets

CONSTANTS
  Pages,    \* browser pages that show the signing page
  Tickets,  \* EmbeddedSession rows
  NoPage,
  NoTicket

ASSUME PagesAssumption == NoPage \notin Pages /\ NoTicket \notin Tickets

VARIABLES
  consented,  \* recipient.consentedAt is set
  status,     \* recipient.status
  envelope,   \* envelope.status
  author,     \* the page whose values the fields hold, or NoPage
  viewed,     \* recipient.viewedAt is set
  views,      \* DOCUMENT_VIEWED events, counted up to 2
  emits,      \* envelope.viewed webhooks, counted up to 2
  ticket,     \* the state of the tickets
  kind,       \* what a page was opened as
  entry,      \* the ticket of an embedded page
  at,         \* what a page shows, or the step of its render
  asked,      \* its consent or sign request, as far as the server has come
  snap,       \* what its server render has read
  refusal,    \* its decline request
  together,   \* history: two first views overlapped
  raced,      \* history: tickets that two loads have read as fresh
  entered     \* history: pages that each ticket has let in, counted up to 2

recipient == <<consented, status, envelope, author>>
tracking  == <<viewed, views, emits, together>>
tickets   == <<ticket, raced, entered>>
page      == <<kind, entry, at, asked, snap, refusal>>
vars == <<recipient, tracking, tickets, page>>

TypeOK ==
  /\ consented \in BOOLEAN
  /\ status \in {"SENT", "SIGNED", "DECLINED"}
  /\ envelope \in {"SENT", "VOIDED", "DECLINED", "COMPLETED"}
  /\ author \in Pages \cup {NoPage}
  /\ viewed \in BOOLEAN /\ views \in 0..2 /\ emits \in 0..2
  /\ ticket \in [Tickets -> {"none", "fresh", "used", "expired"}]
  /\ kind \in [Pages -> {"none", "link", "preview", "embed"}]
  /\ entry \in [Pages -> Tickets \cup {NoTicket}]
  /\ at \in [Pages -> {"closed", "load", "reload", "track", "enter", "render",
                       "consent", "consenting", "form", "submitting",
                       "complete", "card", "expired", "gone"}]
  /\ asked \in [Pages -> {"none", "consent sent", "consent checked",
                          "sign sent", "sign checked"}]
  /\ snap \in [Pages -> [consented : BOOLEAN, viewed : BOOLEAN, open : BOOLEAN]]
  /\ refusal \in [Pages -> {"none", "sent", "checked"}]
  /\ together \in BOOLEAN
  /\ raced \subseteq Tickets
  /\ entered \in [Tickets -> 0..2]

Unread == [consented |-> FALSE, viewed |-> FALSE, open |-> FALSE]

Init ==
  /\ consented = FALSE /\ status = "SENT" /\ envelope = "SENT"
  /\ author = NoPage
  /\ viewed = FALSE /\ views = 0 /\ emits = 0 /\ together = FALSE
  /\ ticket = [t \in Tickets |-> "none"]
  /\ raced = {} /\ entered = [t \in Tickets |-> 0]
  /\ kind = [p \in Pages |-> "none"]
  /\ entry = [p \in Pages |-> NoTicket]
  /\ at = [p \in Pages |-> "closed"]
  /\ asked = [p \in Pages |-> "none"]
  /\ snap = [p \in Pages |-> Unread]
  /\ refusal = [p \in Pages |-> "none"]

Add1(n) == IF n < 2 THEN n + 1 ELSE n

Goto(p, where) == at' = [at EXCEPT ![p] = where]

Loading(p) == at[p] \in {"load", "reload"}

-----------------------------------------------------------------------------
\* Opening a page.  Bound: each page is opened once, and then only reloaded.
OpenLink(p, k) ==
  /\ at[p] = "closed"
  /\ kind' = [kind EXCEPT ![p] = k]
  /\ Goto(p, "load")
  /\ UNCHANGED <<recipient, tracking, tickets, entry, asked, snap, refusal>>

\* POST .../embedded-url.
MintTicket(t) ==
  /\ ticket[t] = "none"
  /\ envelope = "SENT" /\ status = "SENT"
  /\ ticket' = [ticket EXCEPT ![t] = "fresh"]
  /\ UNCHANGED <<recipient, tracking, raced, entered, page>>

TicketExpires(t) ==
  /\ ticket[t] = "fresh"
  /\ ticket' = [ticket EXCEPT ![t] = "expired"]
  /\ UNCHANGED <<recipient, tracking, raced, entered, page>>

OpenEmbed(p, t) ==
  /\ at[p] = "closed"
  /\ ticket[t] # "none"
  /\ kind' = [kind EXCEPT ![p] = "embed"]
  /\ entry' = [entry EXCEPT ![p] = t]
  /\ Goto(p, "load")
  /\ UNCHANGED <<recipient, tracking, tickets, asked, snap, refusal>>

-----------------------------------------------------------------------------
\* The server render: one read, whose result the whole page is made of.
Snapshot(p) ==
  snap' = [snap EXCEPT ![p] =
             [consented |-> consented, viewed |-> viewed,
              open |-> envelope = "SENT" /\ status # "SIGNED"]]

\* A card for voided, declined, signed and completed.
LoadLink(p) ==
  /\ Loading(p) /\ kind[p] \in {"link", "preview"}
  /\ Snapshot(p)
  /\ Goto(p, IF ~snap'[p].open THEN "card"
             ELSE IF kind[p] = "preview" THEN "render" ELSE "track")
  /\ together' = (together \/
       \E q \in Pages : at[q] = "track" /\ ~snap[q].viewed /\ at'[p] = "track")
  /\ UNCHANGED <<recipient, viewed, views, emits, tickets, kind, entry, asked,
                 refusal>>

IsFirstView(p) == ~snap[p].viewed

\* viewedAt, DOCUMENT_VIEWED, and envelope.viewed at the first view; a failure
\* skips what is left and the page goes on.
TrackView(p) ==
  /\ at[p] = "track"
  /\ \/ /\ viewed' = TRUE
        /\ views' = Add1(views)
        /\ emits' = IF IsFirstView(p) THEN Add1(emits) ELSE emits
     \/ viewed' = TRUE /\ UNCHANGED <<views, emits>>
     \/ UNCHANGED <<viewed, views, emits>>
  /\ Goto(p, "render")
  /\ UNCHANGED <<recipient, together, tickets, kind, entry, asked, snap,
                 refusal>>

\* Mutation: a used ticket is good for as long as it has not expired.
UsableTwice(t) == ticket[t] \in {"fresh", "used"}

Usable(t) == ticket[t] = "fresh"

LoadEmbed(p) ==
  /\ Loading(p) /\ kind[p] = "embed"
  /\ IF Usable(entry[p])
     THEN /\ Snapshot(p)
          /\ Goto(p, "enter")
          /\ raced' = IF \E q \in Pages : at[q] = "enter" /\ entry[q] = entry[p]
                      THEN raced \cup {entry[p]} ELSE raced
     ELSE /\ Goto(p, "expired")
          /\ UNCHANGED <<snap, raced>>
  /\ UNCHANGED <<recipient, tracking, ticket, entered, kind, entry, asked,
                 refusal>>

\* The ticket is used even if the page ends up with a card.
ConsumeTicket(p) ==
  /\ at[p] = "enter"
  /\ ticket' = [ticket EXCEPT ![entry[p]] = "used"]
  /\ entered' = [entered EXCEPT ![entry[p]] = Add1(@)]
  /\ Goto(p, IF snap[p].open THEN "render" ELSE "card")
  /\ UNCHANGED <<recipient, tracking, raced, kind, entry, asked, snap, refusal>>

\* Documents and fields are in the page only after consent.
Render(p) ==
  /\ at[p] = "render"
  /\ Goto(p, IF snap[p].consented THEN "form" ELSE "consent")
  /\ snap' = [snap EXCEPT ![p] = Unread]
  /\ UNCHANGED <<recipient, tracking, tickets, kind, entry, asked, refusal>>

-----------------------------------------------------------------------------
\* A request takes two steps at the server.  Its page waits for the answer, but
\* may have given up or reloaded by then.
Proceed(p, stage) ==
  /\ asked' = [asked EXCEPT ![p] = stage]
  /\ UNCHANGED at

Answer(p, waiting, next) ==
  /\ asked' = [asked EXCEPT ![p] = "none"]
  /\ IF at[p] = waiting THEN Goto(p, next) ELSE UNCHANGED at

\* handleConsent.  Bound: one request of a page at a time.
IAgree(p) ==
  /\ at[p] = "consent" /\ asked[p] = "none"
  /\ asked' = [asked EXCEPT ![p] = "consent sent"]
  /\ Goto(p, "consenting")
  /\ UNCHANGED <<recipient, tracking, tickets, kind, entry, snap, refusal>>

\* POST consent: refused, already there, or to be recorded.
CheckConsent(p) ==
  /\ asked[p] = "consent sent"
  /\ IF envelope # "SENT" \/ status = "SIGNED"
     THEN Answer(p, "consenting", "consent")
     ELSE IF consented THEN Answer(p, "consenting", "reload")
     ELSE Proceed(p, "consent checked")
  /\ UNCHANGED <<recipient, tracking, tickets, kind, entry, snap, refusal>>

\* recordConsent; the page reloads on success.  A failure may come before the
\* stamp or after it.
RecordConsent(p) ==
  /\ asked[p] = "consent checked"
  /\ \/ consented' = TRUE /\ Answer(p, "consenting", "reload")
     \/ consented' \in {consented, TRUE} /\ Answer(p, "consenting", "consent")
  /\ UNCHANGED <<status, envelope, author, tracking, tickets, kind, entry,
                 snap, refusal>>

\* handleComplete.
Submit(p) ==
  /\ at[p] = "form" /\ asked[p] = "none"
  /\ asked' = [asked EXCEPT ![p] = "sign sent"]
  /\ Goto(p, "submitting")
  /\ UNCHANGED <<recipient, tracking, tickets, kind, entry, snap, refusal>>

\* tokenUsedAt is set with the values.
CheckSign(p) ==
  /\ asked[p] = "sign sent"
  /\ IF envelope = "SENT" /\ status # "SIGNED" /\ consented /\ author = NoPage
     THEN Proceed(p, "sign checked")
     ELSE Answer(p, "submitting", "form")
  /\ UNCHANGED <<recipient, tracking, tickets, kind, entry, snap, refusal>>

\* Mutation: an update instead of the compare-and-set on the status.
Overwrites == TRUE

StatusUnchanged == status = "SENT"

\* The transaction, and sealing if the others have signed; an error may follow
\* the commit.
CommitSign(p) ==
  /\ asked[p] = "sign checked"
  /\ IF StatusUnchanged
     THEN /\ status' = "SIGNED"
          /\ author' = p
          /\ \/ /\ envelope' \in {envelope, "COMPLETED"}
                /\ Answer(p, "submitting", "complete")
             \/ /\ UNCHANGED envelope
                /\ Answer(p, "submitting", "form")
     ELSE /\ Answer(p, "submitting", "form")
          /\ UNCHANGED <<status, author, envelope>>
  /\ UNCHANGED <<consented, tracking, tickets, kind, entry, snap, refusal>>

\* The connection breaks: the request may have got through all the same.
LoseConnection(p) ==
  /\ \/ at[p] = "consenting" /\ Goto(p, "consent")
     \/ at[p] = "submitting" /\ Goto(p, "form")
  /\ asked' \in {asked, [asked EXCEPT ![p] =
       IF @ \in {"consent sent", "sign sent"} THEN "none" ELSE @]}
  /\ UNCHANGED <<recipient, tracking, tickets, kind, entry, snap, refusal>>

-----------------------------------------------------------------------------
\* handleDecline, also while the page waits for another answer.
Decline(p) ==
  /\ at[p] \in {"consent", "consenting", "form", "submitting"}
  /\ refusal[p] = "none"
  /\ refusal' = [refusal EXCEPT ![p] = "sent"]
  /\ UNCHANGED <<recipient, tracking, tickets, kind, entry, at, asked, snap>>

CheckDecline(p) ==
  /\ refusal[p] = "sent"
  /\ refusal' = [refusal EXCEPT ![p] =
       IF status = "SENT" /\ envelope = "SENT" THEN "checked" ELSE "none"]
  /\ UNCHANGED <<recipient, tracking, tickets, kind, entry, at, asked, snap>>

\* Both rows are written whatever they hold by now; the page reloads if it hears
\* of it.
CommitDecline(p) ==
  /\ refusal[p] = "checked"
  /\ status' = "DECLINED" /\ envelope' = "DECLINED"
  /\ refusal' = [refusal EXCEPT ![p] = "none"]
  /\ \/ /\ at[p] \in {"consent", "consenting", "form", "submitting", "complete"}
        /\ Goto(p, "reload")
     \/ UNCHANGED at
  /\ UNCHANGED <<consented, author, tracking, tickets, kind, entry, asked,
                 snap>>

\* The sender voids the envelope.
Void ==
  /\ envelope = "SENT"
  /\ envelope' = "VOIDED"
  /\ UNCHANGED <<consented, status, author, tracking, tickets, page>>

-----------------------------------------------------------------------------
Load(p) ==
  LoadLink(p) \/ TrackView(p) \/ LoadEmbed(p) \/ ConsumeTicket(p) \/ Render(p)

Handle(p) ==
  \/ CheckConsent(p) \/ RecordConsent(p) \/ CheckSign(p) \/ CommitSign(p)
  \/ CheckDecline(p) \/ CommitDecline(p)

Next ==
  \/ \E p \in Pages :
       \/ \E k \in {"link", "preview"} : OpenLink(p, k)
       \/ \E t \in Tickets : OpenEmbed(p, t)
       \/ Load(p) \/ Handle(p)
       \/ IAgree(p) \/ Submit(p) \/ Decline(p) \/ LoseConnection(p)
  \/ \E t \in Tickets : MintTicket(t) \/ TicketExpires(t)
  \/ Void

Spec == Init /\ [][Next]_vars

-----------------------------------------------------------------------------
\* Whoever sees "Signing Complete" has signed: the fields hold the values of
\* that page and of no other, whatever other pages of the signer submit, or
\* decline, at the same time.
CompleteIsOwn == \A p \in Pages : at[p] = "complete" => author = p

TicketEntersOnce == \A t \in Tickets : t \notin raced => entered[t] <= 1

FirstViewOnce ==
  /\ ~together => emits <= 1
  /\ emits <= views
  /\ (\A p \in Pages : kind[p] # "link") => ~viewed

\* A ticket lets one page in, unless two loads overlap.  The first view is
\* announced at most once, unless two overlap, and never without a
\* DOCUMENT_VIEWED event; the sender's preview announces nothing.
EntersAndViewsOnce == TicketEntersOnce /\ FirstViewOnce
===============================================================================
