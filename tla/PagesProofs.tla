------------------------------- MODULE PagesProofs -------------------------------
(***************************************************************************)
(* What one signer's pages and the host that embeds them can rely on, for  *)
(* any number of pages and tickets: "Signing Complete" is shown, and told, *)
(* by the page whose values are saved; a ticket lets one page in; a first  *)
(* view is announced once.                                                 *)
(***************************************************************************)
EXTENDS EmbedHost, TLAPS

-----------------------------------------------------------------------------
\* The inductive invariant of the pages.

\* A page that is not open yet is nobody's.  A ticket is kept by the page that it
\* opened; only a link is tracked, and only a ticket entered by.
PageHeld(p) ==
  /\ at[p] = "closed" => kind[p] = "none"
  /\ kind[p] = "embed" => entry[p] \in Tickets
  /\ at[p] = "enter" => kind[p] = "embed"
  /\ at[p] = "track" => kind[p] = "link"

\* The values are written with the status, and once.
AuthorHeld ==
  /\ status = "SENT" => author = NoPage
  /\ CompleteIsOwn

\* A ticket that no two loads have read as fresh is read by one page at most, and
\* has let nobody in before.
Enters(p, t) == at[p] = "enter" /\ entry[p] = t

EnterHeld(t) ==
  t \notin raced =>
    /\ \A p, q \in Pages : Enters(p, t) /\ Enters(q, t) => p = q
    /\ (\E p \in Pages : Enters(p, t)) => entered[t] = 0
    /\ ticket[t] \in {"none", "fresh"} => entered[t] = 0
    /\ entered[t] <= 1

\* A page that is about to announce a first view.
Announces(p) == at[p] = "track" /\ ~snap[p].viewed

ViewHeld ==
  /\ emits <= views
  /\ emits > 0 => viewed
  /\ viewed => \E p \in Pages : kind[p] = "link"
  /\ ~together =>
       /\ emits <= 1
       /\ \A p, q \in Pages : Announces(p) /\ Announces(q) => p = q
       /\ (\E p \in Pages : Announces(p)) => emits = 0

PagesInv ==
  /\ TypeOK
  /\ AuthorHeld /\ ViewHeld
  /\ \A p \in Pages : PageHeld(p)
  /\ \A t \in Tickets : EnterHeld(t)

LEMMA InitPages == Init => PagesInv
<1> SUFFICES ASSUME Init PROVE PagesInv
  OBVIOUS
<1>1. TypeOK
  <2>1. Unread \in [consented : BOOLEAN, viewed : BOOLEAN, open : BOOLEAN]
    BY DEF Unread
  <2>2. snap \in [Pages -> [consented : BOOLEAN, viewed : BOOLEAN, open : BOOLEAN]]
    BY <2>1 DEF Init
  <2>3. consented \in BOOLEAN /\ viewed \in BOOLEAN /\ together \in BOOLEAN
    BY Zenon DEF Init
  <2> QED
    BY <2>2, <2>3 DEF Init, TypeOK
<1>2. AuthorHeld /\ ViewHeld
  BY DEF Init, AuthorHeld, CompleteIsOwn, ViewHeld, Announces
<1>3. \A p \in Pages : PageHeld(p)
  BY DEF Init, PageHeld
<1>4. \A t \in Tickets : EnterHeld(t)
  BY DEF Init, EnterHeld, Enters
<1> QED
  BY <1>1, <1>2, <1>3, <1>4 DEF PagesInv

-----------------------------------------------------------------------------
\* Types.

LEMMA Add1Type ==
  ASSUME NEW n \in 0..2
  PROVE  Add1(n) \in 0..2 /\ Add1(n) >= n /\ Add1(n) > 0 /\ (n = 0 => Add1(n) = 1)
  BY DEF Add1

Ats == {"closed", "load", "reload", "track", "enter", "render", "consent",
        "consenting", "form", "submitting", "complete", "card", "expired", "gone"}

Stages == {"none", "consent sent", "consent checked", "sign sent", "sign checked"}

LEMMA AnswerType ==
  ASSUME TypeOK, NEW p \in Pages, NEW waiting, NEW next \in Ats,
         Answer(p, waiting, next)
  PROVE  /\ at' \in [Pages -> Ats] /\ asked' \in [Pages -> Stages]
         /\ \A q \in Pages :
              \/ at'[q] = at[q]
              \/ q = p /\ at[q] = waiting /\ at'[q] = next
  BY DEF TypeOK, Answer, Goto, Ats, Stages

LEMMA ProceedType ==
  ASSUME TypeOK, NEW p \in Pages, NEW stage \in Stages, Proceed(p, stage)
  PROVE  at' \in [Pages -> Ats] /\ asked' \in [Pages -> Stages] /\ UNCHANGED at
  BY DEF TypeOK, Proceed, Ats, Stages

LEMMA SnapshotType ==
  ASSUME TypeOK, NEW p \in Pages, Snapshot(p)
  PROVE  /\ snap' \in [Pages -> [consented : BOOLEAN, viewed : BOOLEAN,
                                 open : BOOLEAN]]
         /\ snap'[p].viewed = viewed
         /\ \A q \in Pages \ {p} : snap'[q] = snap[q]
<1>1. PICK o \in BOOLEAN : snap' = [snap EXCEPT ![p] =
        [consented |-> consented, viewed |-> viewed, open |-> o]]
  BY DEF Snapshot
<1>2. consented \in BOOLEAN /\ viewed \in BOOLEAN
  BY DEF TypeOK
<1>3. [consented |-> consented, viewed |-> viewed, open |-> o]
        \in [consented : BOOLEAN, viewed : BOOLEAN, open : BOOLEAN]
  BY <1>2
<1>4. [consented |-> consented, viewed |-> viewed, open |-> o].viewed = viewed
  OBVIOUS
<1>5. /\ snap'[p] = [consented |-> consented, viewed |-> viewed, open |-> o]
      /\ \A q \in Pages \ {p} : snap'[q] = snap[q]
      /\ snap' \in [Pages -> [consented : BOOLEAN, viewed : BOOLEAN, open : BOOLEAN]]
  BY <1>1, <1>3, Zenon DEF TypeOK
<1> QED
  BY <1>4, <1>5, Zenon

-----------------------------------------------------------------------------
\* Steps that no view and no ticket depends on.

\* No page comes to track or to enter, and none opens.
Calm ==
  /\ UNCHANGED <<viewed, views, emits, together, ticket, raced, entered, kind,
                 entry>>
  /\ \A q \in Pages :
       /\ at'[q] = at[q] \/ (at[q] # "closed" /\ at'[q] \notin {"closed", "enter", "track"})
       /\ at'[q] = "track" => snap'[q] = snap[q]

LEMMA CalmKeeps ==
  ASSUME Calm
  PROVE  /\ ViewHeld => ViewHeld'
         /\ \A p \in Pages : PageHeld(p) => PageHeld(p)'
         /\ \A t \in Tickets : EnterHeld(t) => EnterHeld(t)'
<1>1. \A p \in Pages : Announces(p)' => Announces(p)
  BY DEF Calm, Announces
<1>2. \A p \in Pages : \A t \in Tickets : Enters(p, t)' => Enters(p, t)
  BY DEF Calm, Enters
<1>3. ViewHeld => ViewHeld'
  BY <1>1 DEF Calm, ViewHeld
<1>4. \A p \in Pages : PageHeld(p) => PageHeld(p)'
  BY DEF Calm, PageHeld
<1>5. \A t \in Tickets : EnterHeld(t) => EnterHeld(t)'
  BY <1>2 DEF Calm, EnterHeld
<1> QED
  BY <1>3, <1>4, <1>5

LEMMA HandleCalm ==
  ASSUME TypeOK, NEW p \in Pages,
         Handle(p) \/ IAgree(p) \/ Submit(p) \/ Decline(p) \/ LoseConnection(p)
  PROVE  Calm
<1>1. CASE CheckConsent(p)
  BY <1>1, ZenonT(40) DEF CheckConsent, Answer, Proceed, Goto, Calm, TypeOK, tracking, tickets
<1>2. CASE RecordConsent(p)
  BY <1>2, ZenonT(40) DEF RecordConsent, Answer, Goto, Calm, TypeOK, tracking, tickets
<1>3. CASE CheckSign(p)
  BY <1>3 DEF CheckSign, Answer, Proceed, Goto, Calm, TypeOK, tracking, tickets
<1>4. CASE CommitSign(p)
  BY <1>4, ZenonT(40) DEF CommitSign, Answer, Goto, Calm, TypeOK, tracking, tickets
<1>5. CASE CheckDecline(p)
  BY <1>5 DEF CheckDecline, Calm, TypeOK, tracking, tickets
<1>6. CASE CommitDecline(p)
  BY <1>6 DEF CommitDecline, Goto, Calm, TypeOK, tracking, tickets
<1>7. CASE IAgree(p)
  BY <1>7 DEF IAgree, Goto, Calm, TypeOK, tracking, tickets
<1>8. CASE Submit(p)
  BY <1>8 DEF Submit, Goto, Calm, TypeOK, tracking, tickets
<1>9. CASE Decline(p)
  BY <1>9 DEF Decline, Calm, TypeOK, tracking, tickets
<1>10. CASE LoseConnection(p)
  BY <1>10 DEF LoseConnection, Goto, Calm, TypeOK, tracking, tickets
<1> QED
  BY <1>1, <1>2, <1>3, <1>4, <1>5, <1>6, <1>7, <1>8, <1>9, <1>10 DEF Handle

LEMMA VoidCalm == Void => Calm
  BY DEF Void, Calm, tracking, tickets, page

LEMMA RenderCalm ==
  ASSUME TypeOK, NEW p \in Pages, Render(p)
  PROVE  Calm
  BY DEF Render, Goto, Calm, TypeOK, tracking, tickets

-----------------------------------------------------------------------------
\* Every step keeps the types.

Snaps == [consented : BOOLEAN, viewed : BOOLEAN, open : BOOLEAN]

\* The recipient and its envelope.
RecipientTypes ==
  /\ consented \in BOOLEAN
  /\ status \in {"SENT", "SIGNED", "DECLINED"}
  /\ envelope \in {"SENT", "VOIDED", "DECLINED", "COMPLETED"}
  /\ author \in Pages \cup {NoPage}

\* Views and tickets.
EntryTypes ==
  /\ viewed \in BOOLEAN /\ views \in 0..2 /\ emits \in 0..2
  /\ ticket \in [Tickets -> {"none", "fresh", "used", "expired"}]
  /\ together \in BOOLEAN
  /\ raced \subseteq Tickets
  /\ entered \in [Tickets -> 0..2]

PageTypes ==
  /\ kind \in [Pages -> {"none", "link", "preview", "embed"}]
  /\ entry \in [Pages -> Tickets \cup {NoTicket}]
  /\ at \in [Pages -> Ats]
  /\ asked \in [Pages -> Stages]
  /\ snap \in [Pages -> Snaps]
  /\ refusal \in [Pages -> {"none", "sent", "checked"}]

LEMMA TypeParts == TypeOK <=> RecipientTypes /\ EntryTypes /\ PageTypes
  BY Zenon DEF TypeOK, RecipientTypes, EntryTypes, PageTypes, Ats, Stages, Snaps

LEMMA TypePartsNext == TypeOK' <=> RecipientTypes' /\ EntryTypes' /\ PageTypes'
  BY Zenon DEF TypeOK, RecipientTypes, EntryTypes, PageTypes, Ats, Stages, Snaps

LEMMA SameTypes ==
  /\ UNCHANGED recipient /\ RecipientTypes => RecipientTypes'
  /\ UNCHANGED <<tracking, tickets>> /\ EntryTypes => EntryTypes'
<1>1. UNCHANGED recipient /\ RecipientTypes => RecipientTypes'
  BY Zenon DEF RecipientTypes, recipient
<1>2. UNCHANGED <<tracking, tickets>> /\ EntryTypes => EntryTypes'
  BY Zenon DEF EntryTypes, tracking, tickets
<1> QED
  BY <1>1, <1>2

LEMMA HandleTypes ==
  ASSUME TypeOK, NEW p \in Pages,
         Handle(p) \/ IAgree(p) \/ Submit(p) \/ Decline(p) \/ LoseConnection(p)
  PROVE  TypeOK'
<1> USE DEF Goto
<1>0. RecipientTypes /\ EntryTypes /\ PageTypes
  BY TypeParts
<1>e. EntryTypes'
  <2>1. UNCHANGED <<tracking, tickets>>
    BY Zenon DEF Handle, CheckConsent, RecordConsent, CheckSign, CommitSign,
       CheckDecline, CommitDecline, IAgree, Submit, Decline, LoseConnection
  <2> QED
    BY <1>0, <2>1, SameTypes
<1>1. CASE CheckConsent(p)
  <2>1. PageTypes'
    BY <1>0, <1>1 DEF CheckConsent, Answer, Proceed, PageTypes, Ats, Stages
  <2> QED
    BY <1>0, <1>1, <1>e, <2>1, SameTypes, TypePartsNext DEF CheckConsent
<1>2. CASE RecordConsent(p)
  <2>1. PageTypes'
    BY <1>0, <1>2 DEF RecordConsent, Answer, PageTypes, Ats, Stages
  <2>2. consented' \in BOOLEAN
    BY <1>0, <1>2, Zenon DEF RecordConsent, RecipientTypes
  <2>3. RecipientTypes'
    BY <1>0, <1>2, <2>2, Zenon DEF RecordConsent, RecipientTypes
  <2> QED
    BY <1>e, <2>1, <2>3, TypePartsNext
<1>3. CASE CheckSign(p)
  <2>1. PageTypes'
    BY <1>0, <1>3 DEF CheckSign, Answer, Proceed, PageTypes, Ats, Stages
  <2> QED
    BY <1>0, <1>3, <1>e, <2>1, SameTypes, TypePartsNext DEF CheckSign
<1>4. CASE CommitSign(p)
  <2>1. PageTypes'
    BY <1>0, <1>4 DEF CommitSign, Answer, PageTypes, Ats, Stages
  <2>2. RecipientTypes'
    <3>1. consented' \in BOOLEAN
      BY <1>0, <1>4, Zenon DEF CommitSign, RecipientTypes
    <3>2. /\ status' \in {"SENT", "SIGNED", "DECLINED"}
          /\ envelope' \in {"SENT", "VOIDED", "DECLINED", "COMPLETED"}
          /\ author' \in Pages \cup {NoPage}
      BY <1>0, <1>4 DEF CommitSign, RecipientTypes
    <3> QED
      BY <3>1, <3>2, Zenon DEF RecipientTypes
  <2> QED
    BY <1>e, <2>1, <2>2, TypePartsNext
<1>5. CASE CheckDecline(p)
  <2>1. PageTypes'
    BY <1>0, <1>5 DEF CheckDecline, PageTypes
  <2> QED
    BY <1>0, <1>5, <1>e, <2>1, SameTypes, TypePartsNext DEF CheckDecline
<1>6. CASE CommitDecline(p)
  <2>1. PageTypes'
    BY <1>0, <1>6 DEF CommitDecline, PageTypes, Ats
  <2>2. RecipientTypes'
    BY <1>0, <1>6, Zenon DEF CommitDecline, RecipientTypes
  <2> QED
    BY <1>e, <2>1, <2>2, TypePartsNext
<1>7. CASE IAgree(p)
  <2>1. PageTypes'
    BY <1>0, <1>7 DEF IAgree, PageTypes, Ats, Stages
  <2> QED
    BY <1>0, <1>7, <1>e, <2>1, SameTypes, TypePartsNext DEF IAgree
<1>8. CASE Submit(p)
  <2>1. PageTypes'
    BY <1>0, <1>8 DEF Submit, PageTypes, Ats, Stages
  <2> QED
    BY <1>0, <1>8, <1>e, <2>1, SameTypes, TypePartsNext DEF Submit
<1>9. CASE Decline(p)
  <2>1. PageTypes'
    BY <1>0, <1>9 DEF Decline, PageTypes
  <2> QED
    BY <1>0, <1>9, <1>e, <2>1, SameTypes, TypePartsNext DEF Decline
<1>10. CASE LoseConnection(p)
  <2>1. PageTypes'
    BY <1>0, <1>10 DEF LoseConnection, PageTypes, Ats, Stages
  <2> QED
    BY <1>0, <1>10, <1>e, <2>1, SameTypes, TypePartsNext DEF LoseConnection
<1> QED
  BY <1>1, <1>2, <1>3, <1>4, <1>5, <1>6, <1>7, <1>8, <1>9, <1>10 DEF Handle

LEMMA OpenTypes ==
  ASSUME TypeOK,
         \/ \E p \in Pages, k \in {"link", "preview"} : OpenLink(p, k)
         \/ \E p \in Pages, t \in Tickets : OpenEmbed(p, t)
         \/ \E t \in Tickets : MintTicket(t) \/ TicketExpires(t)
         \/ Void
  PROVE  TypeOK'
<1> USE DEF Goto
<1>0. RecipientTypes /\ EntryTypes /\ PageTypes
  BY TypeParts
<1>1. ASSUME NEW p \in Pages, NEW k \in {"link", "preview"}, OpenLink(p, k)
      PROVE  TypeOK'
  <2>1. PageTypes'
    BY <1>0, <1>1 DEF OpenLink, PageTypes, Ats
  <2> QED
    BY <1>0, <1>1, <2>1, SameTypes, TypePartsNext DEF OpenLink
<1>2. ASSUME NEW p \in Pages, NEW t \in Tickets, OpenEmbed(p, t) PROVE TypeOK'
  <2>1. PageTypes'
    BY <1>0, <1>2 DEF OpenEmbed, PageTypes, Ats
  <2> QED
    BY <1>0, <1>2, <2>1, SameTypes, TypePartsNext DEF OpenEmbed
<1>3. ASSUME NEW t \in Tickets, MintTicket(t) \/ TicketExpires(t) PROVE TypeOK'
  <2>1. ticket' \in [Tickets -> {"none", "fresh", "used", "expired"}]
    BY <1>0, <1>3 DEF EntryTypes, MintTicket, TicketExpires
  <2>2. EntryTypes'
    BY <1>0, <1>3, <2>1, Zenon DEF EntryTypes, MintTicket, TicketExpires, tracking
  <2>3. PageTypes'
    BY <1>0, <1>3, Zenon DEF PageTypes, MintTicket, TicketExpires, page
  <2> QED
    BY <1>0, <1>3, <2>2, <2>3, SameTypes, TypePartsNext DEF MintTicket, TicketExpires
<1>4. CASE Void
  <2>1. RecipientTypes'
    BY <1>0, <1>4, Zenon DEF RecipientTypes, Void
  <2>2. PageTypes'
    BY <1>0, <1>4, Zenon DEF PageTypes, Void, page
  <2> QED
    BY <1>0, <1>4, <2>1, <2>2, SameTypes, TypePartsNext DEF Void
<1> QED
  BY <1>1, <1>2, <1>3, <1>4

LEMMA LoadTypes ==
  ASSUME TypeOK, NEW p \in Pages, Load(p), PageHeld(p)
  PROVE  TypeOK'
<1> USE DEF Goto
<1>0. RecipientTypes /\ EntryTypes /\ PageTypes
  BY TypeParts
<1>r. RecipientTypes'
  <2>1. UNCHANGED recipient
    BY Zenon DEF Load, LoadLink, TrackView, LoadEmbed, ConsumeTicket, Render
  <2> QED
    BY <1>0, <2>1, SameTypes
<1>1. CASE LoadLink(p)
  <2>1. snap' \in [Pages -> Snaps]
    BY <1>1, SnapshotType DEF LoadLink, Snaps
  <2>2. at' \in [Pages -> Ats]
    BY <1>0, <1>1 DEF LoadLink, PageTypes, Ats
  <2>3. PageTypes'
    BY <1>0, <1>1, <2>1, <2>2, Zenon DEF LoadLink, PageTypes
  <2>4. together' \in BOOLEAN
    BY <1>1, Zenon DEF LoadLink
  <2>5. EntryTypes'
    BY <1>0, <1>1, <2>4, Zenon DEF LoadLink, EntryTypes, tickets
  <2> QED
    BY <1>r, <2>3, <2>5, TypePartsNext
<1>2. CASE TrackView(p)
  <2>1. PageTypes'
    BY <1>0, <1>2 DEF TrackView, PageTypes, Ats
  <2>2. viewed' \in BOOLEAN
    BY <1>0, <1>2, Zenon DEF TrackView, EntryTypes
  <2>3. views' \in 0..2 /\ emits' \in 0..2
    BY <1>0, <1>2, Add1Type DEF TrackView, EntryTypes
  <2>4. EntryTypes'
    BY <1>0, <1>2, <2>2, <2>3, Zenon DEF TrackView, EntryTypes, tickets
  <2> QED
    BY <1>r, <2>1, <2>4, TypePartsNext
<1>3. CASE LoadEmbed(p)
  <2>0. entry[p] \in Tickets
    BY <1>3 DEF LoadEmbed, PageHeld
  <2>1. snap' \in [Pages -> Snaps]
    BY <1>0, <1>3, SnapshotType DEF LoadEmbed, Snaps, PageTypes
  <2>2. at' \in [Pages -> Ats]
    BY <1>0, <1>3 DEF LoadEmbed, PageTypes, Ats
  <2>3. PageTypes'
    BY <1>0, <1>3, <2>1, <2>2, Zenon DEF LoadEmbed, PageTypes
  <2>4. raced' \subseteq Tickets
    BY <1>0, <1>3, <2>0 DEF LoadEmbed, EntryTypes
  <2>5. EntryTypes'
    BY <1>0, <1>3, <2>4, Zenon DEF LoadEmbed, EntryTypes, tracking
  <2> QED
    BY <1>r, <2>3, <2>5, TypePartsNext
<1>4. CASE ConsumeTicket(p)
  <2>0. entry[p] \in Tickets
    BY <1>4 DEF ConsumeTicket, PageHeld
  <2>1. PageTypes'
    BY <1>0, <1>4 DEF ConsumeTicket, PageTypes, Ats
  <2>2. ticket' \in [Tickets -> {"none", "fresh", "used", "expired"}]
    BY <1>0, <1>4, <2>0 DEF ConsumeTicket, EntryTypes
  <2>3. entered' \in [Tickets -> 0..2]
    BY <1>0, <1>4, <2>0, Add1Type DEF ConsumeTicket, EntryTypes
  <2>4. EntryTypes'
    BY <1>0, <1>4, <2>2, <2>3, Zenon DEF ConsumeTicket, EntryTypes, tracking
  <2> QED
    BY <1>r, <2>1, <2>4, TypePartsNext
<1>5. CASE Render(p)
  <2>1. Unread \in Snaps
    BY DEF Unread, Snaps
  <2>2. snap' \in [Pages -> Snaps]
    BY <1>0, <1>5, <2>1 DEF Render, PageTypes
  <2>3. at' \in [Pages -> Ats]
    BY <1>0, <1>5 DEF Render, PageTypes, Ats
  <2>4. PageTypes'
    BY <1>0, <1>5, <2>2, <2>3, Zenon DEF Render, PageTypes
  <2> QED
    BY <1>0, <1>5, <1>r, <2>4, SameTypes, TypePartsNext DEF Render
<1> QED
  BY <1>1, <1>2, <1>3, <1>4, <1>5 DEF Load

-----------------------------------------------------------------------------
\* Every step keeps the author.

LEMMA SameAuthor ==
  ASSUME AuthorHeld, UNCHANGED author, status' \in {status, "DECLINED"},
         \A q \in Pages : at'[q] = "complete" => at[q] = "complete"
  PROVE  AuthorHeld'
  BY DEF AuthorHeld, CompleteIsOwn

LEMMA HandleAuthor ==
  ASSUME TypeOK, AuthorHeld, NEW p \in Pages,
         Handle(p) \/ IAgree(p) \/ Submit(p) \/ Decline(p) \/ LoseConnection(p)
  PROVE  AuthorHeld'
<1> USE DEF Goto
<1>1. CASE CheckConsent(p)
  BY <1>1, SameAuthor DEF CheckConsent, Answer, Proceed, TypeOK, recipient
<1>2. CASE RecordConsent(p)
  BY <1>2, SameAuthor, ZenonT(40) DEF RecordConsent, Answer, TypeOK
<1>3. CASE CheckSign(p)
  BY <1>3, SameAuthor DEF CheckSign, Answer, Proceed, TypeOK, recipient
<1>4. CASE CommitSign(p)
  <2>1. CASE StatusUnchanged
    <3>1. \A q \in Pages : at[q] # "complete"
      BY <2>1, PagesAssumption DEF StatusUnchanged, AuthorHeld, CompleteIsOwn
    <3>2. \A q \in Pages : at'[q] = "complete" => q = p
      BY <1>4, <2>1, <3>1 DEF CommitSign, Answer, TypeOK
    <3>3. author' = p /\ status' = "SIGNED"
      BY <1>4, <2>1 DEF CommitSign
    <3> QED
      BY <3>2, <3>3 DEF AuthorHeld, CompleteIsOwn
  <2>2. CASE ~StatusUnchanged
    BY <1>4, <2>2, SameAuthor DEF CommitSign, Answer, TypeOK
  <2> QED
    BY <2>1, <2>2
<1>5. CASE CheckDecline(p)
  BY <1>5, SameAuthor DEF CheckDecline, recipient
<1>6. CASE CommitDecline(p)
  BY <1>6, SameAuthor DEF CommitDecline, TypeOK
<1>7. CASE IAgree(p)
  BY <1>7, SameAuthor DEF IAgree, TypeOK, recipient
<1>8. CASE Submit(p)
  BY <1>8, SameAuthor DEF Submit, TypeOK, recipient
<1>9. CASE Decline(p)
  BY <1>9, SameAuthor DEF Decline, recipient
<1>10. CASE LoseConnection(p)
  BY <1>10, SameAuthor DEF LoseConnection, TypeOK, recipient
<1> QED
  BY <1>1, <1>2, <1>3, <1>4, <1>5, <1>6, <1>7, <1>8, <1>9, <1>10 DEF Handle

-----------------------------------------------------------------------------
\* Steps that open, load, enter or track.

LEMMA OpenHeld ==
  ASSUME PagesInv, NEW p \in Pages, NEW what \in {"link", "preview", "embed"},
         at[p] = "closed", Goto(p, "load"), kind' = [kind EXCEPT ![p] = what],
         \/ what # "embed" /\ UNCHANGED entry
         \/ \E t \in Tickets : entry' = [entry EXCEPT ![p] = t],
         UNCHANGED <<recipient, tracking, tickets, snap>>
  PROVE  /\ AuthorHeld' /\ ViewHeld'
         /\ \A q \in Pages : PageHeld(q)'
         /\ \A t \in Tickets : EnterHeld(t)'
<1>0. /\ kind \in [Pages -> {"none", "link", "preview", "embed"}]
      /\ entry \in [Pages -> Tickets \cup {NoTicket}]
      /\ at \in [Pages -> Ats]
  BY DEF PagesInv, TypeOK, Ats
<1>1. /\ at'[p] = "load" /\ kind'[p] = what /\ kind[p] = "none"
      /\ what = "embed" => entry'[p] \in Tickets
      /\ \A q \in Pages \ {p} :
           at'[q] = at[q] /\ kind'[q] = kind[q] /\ entry'[q] = entry[q]
  BY <1>0 DEF Goto, PagesInv, PageHeld
<1>2. AuthorHeld'
  <2>1. \A q \in Pages : at'[q] = "complete" => at[q] = "complete"
    BY <1>1
  <2> QED
    BY <2>1, SameAuthor DEF PagesInv, recipient
<1>3. ViewHeld'
  <2>1. \A q \in Pages : Announces(q)' => Announces(q)
    BY <1>1 DEF Announces
  <2>2. \A q \in Pages : kind[q] = "link" => kind'[q] = "link"
    BY <1>1
  <2>3. UNCHANGED <<viewed, views, emits, together>> /\ ViewHeld
    BY DEF tracking, PagesInv
  <2> QED
    BY <2>1, <2>2, <2>3 DEF ViewHeld
<1>4. \A q \in Pages : PageHeld(q)'
  BY <1>1 DEF PagesInv, PageHeld
<1>5. \A t \in Tickets : EnterHeld(t)'
  <2>1. \A t \in Tickets : \A q \in Pages : Enters(q, t)' => Enters(q, t)
    BY <1>1 DEF Enters
  <2>2. UNCHANGED <<ticket, raced, entered>>
    BY DEF tickets
  <2> QED
    BY <2>1, <2>2 DEF PagesInv, EnterHeld
<1> QED
  BY <1>2, <1>3, <1>4, <1>5

LEMMA TicketHeld ==
  ASSUME PagesInv, NEW t \in Tickets, MintTicket(t) \/ TicketExpires(t)
  PROVE  /\ AuthorHeld' /\ ViewHeld'
         /\ \A q \in Pages : PageHeld(q)'
         /\ \A u \in Tickets : EnterHeld(u)'
<1>1. UNCHANGED <<recipient, tracking, page, raced, entered>>
  BY DEF MintTicket, TicketExpires
<1>2. AuthorHeld'
  BY <1>1 DEF AuthorHeld, CompleteIsOwn, PagesInv, recipient, page
<1>3. ViewHeld'
  BY <1>1 DEF ViewHeld, Announces, PagesInv, tracking, page
<1>4. \A q \in Pages : PageHeld(q)'
  BY <1>1 DEF PageHeld, PagesInv, page
<1>5. \A u \in Tickets : EnterHeld(u)'
  <2>1. \A u \in Tickets : ticket'[u] \in {"none", "fresh"} =>
                            ticket[u] \in {"none", "fresh"}
    BY DEF MintTicket, TicketExpires, PagesInv, TypeOK
  <2>2. \A u \in Tickets : \A q \in Pages : Enters(q, u)' <=> Enters(q, u)
    BY <1>1 DEF Enters, page
  <2> QED
    BY <1>1, <2>1, <2>2 DEF PagesInv, EnterHeld
<1> QED
  BY <1>2, <1>3, <1>4, <1>5

\* A page that loads goes on to "track" or "enter" only as its kind says.
LEMMA LoadAt ==
  ASSUME TypeOK, NEW p \in Pages,
         LoadLink(p) \/ TrackView(p) \/ LoadEmbed(p) \/ ConsumeTicket(p)
  PROVE  /\ at[p] # "closed" /\ at'[p] \notin {"closed", "complete"}
         /\ at'[p] = "track" => LoadLink(p) /\ kind[p] = "link"
         /\ at'[p] = "enter" => LoadEmbed(p) /\ kind[p] = "embed"
         /\ \A q \in Pages \ {p} : at'[q] = at[q]
         /\ UNCHANGED <<kind, entry, recipient>>
<1> USE DEF Goto, Loading, TypeOK
<1>1. CASE LoadLink(p)
  <2>1. at'[p] \in {"card", "render", "track"} /\ UNCHANGED <<kind, entry, recipient>>
    BY <1>1 DEF LoadLink
  <2>2. at'[p] = "track" => kind[p] = "link"
    BY <1>1 DEF LoadLink
  <2> QED
    BY <1>1, <2>1, <2>2 DEF LoadLink
<1>2. CASE TrackView(p)
  BY <1>2 DEF TrackView
<1>3. CASE LoadEmbed(p)
  BY <1>3 DEF LoadEmbed, tracking
<1>4. CASE ConsumeTicket(p)
  BY <1>4 DEF ConsumeTicket
<1> QED
  BY <1>1, <1>2, <1>3, <1>4

LEMMA LoadKeepsPages ==
  ASSUME PagesInv, NEW p \in Pages,
         LoadLink(p) \/ TrackView(p) \/ LoadEmbed(p) \/ ConsumeTicket(p)
  PROVE  AuthorHeld' /\ \A q \in Pages : PageHeld(q)'
<1>1. /\ at[p] # "closed" /\ at'[p] \notin {"closed", "complete"}
      /\ at'[p] = "track" => kind[p] = "link"
      /\ at'[p] = "enter" => kind[p] = "embed"
      /\ \A q \in Pages \ {p} : at'[q] = at[q]
      /\ UNCHANGED <<kind, entry, recipient>>
  BY LoadAt DEF PagesInv
<1>2. AuthorHeld'
  <2>1. \A q \in Pages : at'[q] = "complete" => at[q] = "complete"
    BY <1>1
  <2> QED
    BY <1>1, <2>1, SameAuthor DEF PagesInv, recipient
<1>3. \A q \in Pages : PageHeld(q)'
  BY <1>1 DEF PagesInv, PageHeld
<1> QED
  BY <1>2, <1>3

LEMMA LoadLinkHeld ==
  ASSUME PagesInv, NEW p \in Pages, LoadLink(p)
  PROVE  ViewHeld' /\ \A t \in Tickets : EnterHeld(t)'
<1>0. TypeOK /\ ViewHeld
  BY DEF PagesInv
<1>1. /\ at'[p] # "enter" /\ UNCHANGED <<kind, entry>>
      /\ \A q \in Pages \ {p} : at'[q] = at[q]
  <2>1. ~(at'[p] = "enter")
    BY DEF LoadLink, Goto, PagesInv, TypeOK
  <2> QED
    BY <1>0, <2>1, LoadAt
<1>2. UNCHANGED <<viewed, views, emits, ticket, raced, entered>>
  BY DEF LoadLink, tickets
<1>3. /\ snap'[p].viewed = viewed
      /\ \A q \in Pages \ {p} : snap'[q] = snap[q]
  BY <1>0, SnapshotType DEF LoadLink
<1>4. \A q \in Pages \ {p} : Announces(q)' <=> Announces(q)
  BY <1>1, <1>3 DEF Announces
<1>5. /\ ~together' => ~together
      /\ ~together' /\ at'[p] = "track" => \A q \in Pages : ~Announces(q)
  BY Zenon DEF LoadLink, Announces
<1>6. Announces(p)' => at'[p] = "track" /\ ~viewed
  BY <1>3, Zenon DEF Announces
<1>7. ViewHeld'
  <2>1. /\ emits' <= views'
        /\ emits' > 0 => viewed'
        /\ viewed' => \E q \in Pages : kind'[q] = "link"
    BY <1>0, <1>1, <1>2 DEF ViewHeld
  <2>2. ASSUME ~together'
        PROVE  /\ emits' <= 1
               /\ \A q, r \in Pages : Announces(q)' /\ Announces(r)' => q = r
               /\ (\E q \in Pages : Announces(q)') => emits' = 0
    <3>1. ~together /\ emits <= 1
      BY <1>0, <1>5, <2>2 DEF ViewHeld
    <3>2. CASE Announces(p)'
      <4>1. \A q \in Pages \ {p} : ~Announces(q)'
        BY <1>4, <1>5, <1>6, <2>2, <3>2
      <4>2. emits = 0
        <5>1. ~(emits > 0)
          BY <1>0, <1>6, <3>2, Zenon DEF ViewHeld
        <5>2. emits \in 0..2
          BY <1>0, Zenon DEF TypeOK
        <5> QED
          BY <5>1, <5>2
      <4> QED
        BY <1>2, <4>1, <4>2
    <3>3. CASE ~Announces(p)'
      <4>1. \A q \in Pages : Announces(q)' => Announces(q)
        BY <1>4, <3>3
      <4> QED
        BY <1>0, <1>2, <3>1, <4>1 DEF ViewHeld
    <3> QED
      BY <3>2, <3>3
  <2> QED
    BY <2>1, <2>2 DEF ViewHeld
<1>8. \A t \in Tickets : EnterHeld(t)'
  <2>1. \A t \in Tickets : \A q \in Pages : Enters(q, t)' => Enters(q, t)
    BY <1>1 DEF Enters
  <2> QED
    BY <1>2, <2>1 DEF PagesInv, EnterHeld
<1> QED
  BY <1>7, <1>8

LEMMA TrackViewHeld ==
  ASSUME PagesInv, NEW p \in Pages, TrackView(p)
  PROVE  ViewHeld' /\ \A t \in Tickets : EnterHeld(t)'
<1>0. TypeOK /\ ViewHeld
  BY DEF PagesInv
<1>1. /\ at[p] = "track" /\ at'[p] = "render"
      /\ \A q \in Pages \ {p} : at'[q] = at[q]
      /\ UNCHANGED <<kind, entry, snap, together, ticket, raced, entered>>
  BY <1>0 DEF TrackView, Goto, TypeOK, tickets
<1>2. kind[p] = "link"
  BY <1>1 DEF PagesInv, PageHeld
<1>3. \A q \in Pages : Announces(q)' => Announces(q) /\ q # p
  BY <1>1 DEF Announces
<1>4. /\ views \in 0..2 /\ emits \in 0..2 /\ emits <= views
  BY <1>0 DEF TypeOK, ViewHeld
<1>5. \/ viewed' /\ emits' = emits /\ views' \in {views, Add1(views)}
      \/ viewed' /\ Announces(p) /\ emits' = Add1(emits) /\ views' = Add1(views)
      \/ UNCHANGED <<viewed, views, emits>>
  BY <1>1, Zenon DEF TrackView, Announces, IsFirstView
<1>6. emits' <= views'
  BY <1>4, <1>5 DEF Add1
<1>7. (emits' > 0 => viewed') /\ (viewed' => \E q \in Pages : kind'[q] = "link")
  BY <1>0, <1>1, <1>2, <1>5 DEF ViewHeld
<1>8. ASSUME ~together'
      PROVE  /\ emits' <= 1
             /\ \A q, r \in Pages : Announces(q)' /\ Announces(r)' => q = r
             /\ (\E q \in Pages : Announces(q)') => emits' = 0
  <2>1. ~together
    BY <1>1, <1>8
  <2>2. /\ emits <= 1
        /\ \A q, r \in Pages : Announces(q) /\ Announces(r) => q = r
        /\ (\E q \in Pages : Announces(q)) => emits = 0
    BY <1>0, <2>1 DEF ViewHeld
  <2>3. CASE emits' = emits
    BY <1>3, <2>2, <2>3
  <2>4. CASE Announces(p) /\ emits' = Add1(emits)
    <3>1. emits = 0 /\ emits' = 1
      BY <2>2, <2>4 DEF Add1
    <3>2. \A q \in Pages : ~Announces(q)'
      BY <1>3, <2>2, <2>4
    <3> QED
      BY <3>1, <3>2
  <2> QED
    BY <1>5, <2>3, <2>4
<1>9. \A t \in Tickets : EnterHeld(t)'
  <2>1. \A t \in Tickets : \A q \in Pages : Enters(q, t)' => Enters(q, t)
    BY <1>1 DEF Enters
  <2> QED
    BY <1>1, <2>1 DEF PagesInv, EnterHeld
<1> QED
  BY <1>6, <1>7, <1>8, <1>9 DEF ViewHeld

\* The views do not change, and no page comes to track.
LEMMA SameViews ==
  ASSUME ViewHeld, UNCHANGED <<viewed, views, emits, together, kind>>,
         \A q \in Pages : Announces(q)' => Announces(q)
  PROVE  ViewHeld'
  BY DEF ViewHeld

LEMMA LoadEmbedHeld ==
  ASSUME PagesInv, NEW p \in Pages, LoadEmbed(p)
  PROVE  ViewHeld' /\ \A t \in Tickets : EnterHeld(t)'
<1>0. TypeOK /\ ViewHeld /\ PageHeld(p)
  BY DEF PagesInv
<1>1. /\ at[p] # "enter" /\ at'[p] \in {"enter", "expired"}
      /\ at'[p] = "enter" <=> Usable(entry[p])
      /\ \A q \in Pages \ {p} : at'[q] = at[q]
      /\ UNCHANGED <<viewed, views, emits, together, kind, entry, ticket, entered>>
      /\ entry[p] \in Tickets
  BY <1>0 DEF LoadEmbed, Goto, Loading, TypeOK, tracking, PageHeld
<1>2. \A q \in Pages \ {p} : snap'[q] = snap[q]
  BY <1>0, SnapshotType DEF LoadEmbed
<1>3. ViewHeld'
  <2>1. \A q \in Pages : Announces(q)' => Announces(q)
    BY <1>1, <1>2 DEF Announces
  <2> QED
    BY <1>0, <1>1, <2>1, SameViews
<1>4. raced \subseteq raced'
  BY DEF LoadEmbed
<1>5. ASSUME NEW t \in Tickets PROVE EnterHeld(t)'
  <2>0. EnterHeld(t)
    BY DEF PagesInv
  <2>1. \A q \in Pages \ {p} : Enters(q, t)' <=> Enters(q, t)
    BY <1>1 DEF Enters
  <2>2. ~Enters(p, t)
    BY <1>1 DEF Enters
  <2>3. CASE t = entry[p] /\ Usable(t)
    <3>1. SUFFICES ASSUME t \notin raced' PROVE EnterHeld(t)'
      BY DEF EnterHeld
    <3>2. \A q \in Pages : ~Enters(q, t)
      BY <2>3, <3>1 DEF LoadEmbed, Enters
    <3>3. t \notin raced /\ entered[t] = 0
      BY <1>4, <2>0, <2>3, <3>1 DEF EnterHeld, Usable
    <3>4. entered'[t] = 0
      BY <1>1, <3>3
    <3>5. \A q \in Pages : Enters(q, t)' => q = p
      BY <2>1, <3>2
    <3> QED
      BY <3>4, <3>5 DEF EnterHeld
  <2>4. CASE ~(t = entry[p] /\ Usable(t))
    <3>1. ~Enters(p, t)'
      BY <1>1, <2>4 DEF Enters
    <3>2. \A q \in Pages : Enters(q, t)' => Enters(q, t)
      BY <2>1, <3>1
    <3> QED
      BY <1>1, <1>4, <2>0, <3>2 DEF EnterHeld
  <2> QED
    BY <2>3, <2>4
<1> QED
  BY <1>3, <1>5

LEMMA ConsumeTicketHeld ==
  ASSUME PagesInv, NEW p \in Pages, ConsumeTicket(p)
  PROVE  ViewHeld' /\ \A t \in Tickets : EnterHeld(t)'
<1>0. TypeOK /\ ViewHeld /\ PageHeld(p)
  BY DEF PagesInv
<1>1. /\ at[p] = "enter" /\ at'[p] \notin {"enter", "track"}
      /\ \A q \in Pages \ {p} : at'[q] = at[q]
      /\ UNCHANGED <<viewed, views, emits, together, kind, entry, snap, raced>>
      /\ entry[p] \in Tickets
  BY <1>0 DEF ConsumeTicket, Goto, TypeOK, tracking, PageHeld
<1>2. /\ ticket'[entry[p]] = "used" /\ entered'[entry[p]] = Add1(entered[entry[p]])
      /\ \A t \in Tickets \ {entry[p]} : ticket'[t] = ticket[t] /\ entered'[t] = entered[t]
  BY <1>0, <1>1 DEF ConsumeTicket, TypeOK
<1>3. ViewHeld'
  <2>1. \A q \in Pages : Announces(q)' => Announces(q)
    BY <1>1 DEF Announces
  <2> QED
    BY <1>0, <1>1, <2>1, SameViews
<1>4. ASSUME NEW t \in Tickets PROVE EnterHeld(t)'
  <2>0. EnterHeld(t)
    BY DEF PagesInv
  <2>1. \A q \in Pages : Enters(q, t)' => Enters(q, t) /\ q # p
    BY <1>1 DEF Enters
  <2>2. CASE t = entry[p]
    <3>1. SUFFICES ASSUME t \notin raced PROVE EnterHeld(t)'
      BY <1>1 DEF EnterHeld
    <3>2. Enters(p, t)
      BY <1>1, <2>2 DEF Enters
    <3>3. entered[t] = 0 /\ \A q \in Pages : Enters(q, t) => q = p
      BY <2>0, <3>1, <3>2 DEF EnterHeld
    <3>4. entered'[t] = 1 /\ ticket'[t] = "used"
      BY <1>2, <2>2, <3>3 DEF Add1
    <3>5. \A q \in Pages : ~Enters(q, t)'
      BY <2>1, <3>3
    <3> QED
      BY <3>4, <3>5 DEF EnterHeld
  <2>3. CASE t # entry[p]
    BY <1>1, <1>2, <2>0, <2>1, <2>3 DEF EnterHeld
  <2> QED
    BY <2>2, <2>3
<1> QED
  BY <1>3, <1>4

-----------------------------------------------------------------------------
\* Every step of the pages keeps their invariant.

LEMMA VoidKeeps ==
  ASSUME PagesInv, Void
  PROVE  PagesInv'
<1>1. TypeOK'
  BY OpenTypes DEF PagesInv
<1>2. AuthorHeld'
  BY DEF PagesInv, Void, AuthorHeld, CompleteIsOwn, page
<1> QED
  BY <1>1, <1>2, VoidCalm, CalmKeeps DEF PagesInv

LEMMA OpenKeeps ==
  ASSUME PagesInv,
         \/ \E p \in Pages, k \in {"link", "preview"} : OpenLink(p, k)
         \/ \E p \in Pages, t \in Tickets : OpenEmbed(p, t)
  PROVE  PagesInv'
<1>1. TypeOK'
  BY OpenTypes DEF PagesInv
<1>2. ASSUME NEW p \in Pages, NEW k \in {"link", "preview"}, OpenLink(p, k)
      PROVE  PagesInv'
  <2>1. /\ at[p] = "closed" /\ Goto(p, "load") /\ kind' = [kind EXCEPT ![p] = k]
        /\ k # "embed" /\ k \in {"link", "preview", "embed"}
        /\ UNCHANGED <<recipient, tracking, tickets, snap>> /\ UNCHANGED entry
    BY <1>2 DEF OpenLink
  <2> QED
    BY <1>1, <2>1, OpenHeld DEF PagesInv
<1>3. ASSUME NEW p \in Pages, NEW t \in Tickets, OpenEmbed(p, t)
      PROVE  PagesInv'
  <2>1. /\ at[p] = "closed" /\ Goto(p, "load") /\ kind' = [kind EXCEPT ![p] = "embed"]
        /\ entry' = [entry EXCEPT ![p] = t]
        /\ UNCHANGED <<recipient, tracking, tickets, snap>>
    BY <1>3 DEF OpenEmbed
  <2> QED
    BY <1>1, <2>1, OpenHeld DEF PagesInv
<1> QED
  BY <1>2, <1>3

LEMMA LoadKeeps ==
  ASSUME PagesInv, NEW p \in Pages, Load(p)
  PROVE  PagesInv'
<1>1. TypeOK'
  BY LoadTypes DEF PagesInv
<1>2. CASE Render(p)
  <2>1. AuthorHeld'
    <3>1. \A q \in Pages : at'[q] = "complete" => at[q] = "complete"
      BY <1>2 DEF Render, Goto, PagesInv, TypeOK
    <3> QED
      BY <1>2, <3>1, SameAuthor DEF PagesInv, Render, recipient
  <2>2. Calm
    BY <1>2, RenderCalm DEF PagesInv
  <2> QED
    BY <1>1, <2>1, <2>2, CalmKeeps DEF PagesInv
<1>3. CASE LoadLink(p) \/ TrackView(p) \/ LoadEmbed(p) \/ ConsumeTicket(p)
  <2>1. AuthorHeld' /\ \A q \in Pages : PageHeld(q)'
    BY <1>3, LoadKeepsPages
  <2>2. ViewHeld' /\ \A t \in Tickets : EnterHeld(t)'
    BY <1>3, LoadLinkHeld, TrackViewHeld, LoadEmbedHeld, ConsumeTicketHeld
  <2> QED
    BY <1>1, <2>1, <2>2 DEF PagesInv
<1> QED
  BY <1>2, <1>3 DEF Load

LEMMA HandleKeeps ==
  ASSUME PagesInv, NEW p \in Pages,
         Handle(p) \/ IAgree(p) \/ Submit(p) \/ Decline(p) \/ LoseConnection(p)
  PROVE  PagesInv'
<1>0. TypeOK /\ AuthorHeld
  BY DEF PagesInv
<1>1. TypeOK'
  BY <1>0, HandleTypes
<1>2. AuthorHeld'
  BY <1>0, HandleAuthor
<1>3. Calm
  BY <1>0, HandleCalm
<1> QED
  BY <1>1, <1>2, <1>3, CalmKeeps DEF PagesInv

LEMMA NextPages == PagesInv /\ [Next]_vars => PagesInv'
<1> SUFFICES ASSUME PagesInv, [Next]_vars PROVE PagesInv'
  OBVIOUS
<1>1. ASSUME NEW p \in Pages,
             \/ \E k \in {"link", "preview"} : OpenLink(p, k)
             \/ \E t \in Tickets : OpenEmbed(p, t)
      PROVE  PagesInv'
  BY <1>1, OpenKeeps
<1>2. ASSUME NEW t \in Tickets, MintTicket(t) \/ TicketExpires(t)
      PROVE  PagesInv'
  <2>1. TypeOK'
    BY <1>2, OpenTypes DEF PagesInv
  <2> QED
    BY <1>2, <2>1, TicketHeld DEF PagesInv
<1>3. CASE UNCHANGED vars
  <2>1. TypeOK'
    BY <1>3, Zenon DEF PagesInv, TypeOK, vars, recipient, tracking, tickets, page
  <2>2. Calm /\ AuthorHeld'
    BY <1>3 DEF Calm, PagesInv, AuthorHeld, CompleteIsOwn, vars, recipient, tracking,
       tickets, page
  <2> QED
    BY <2>1, <2>2, CalmKeeps DEF PagesInv
<1> QED
  BY <1>1, <1>2, <1>3, LoadKeeps, HandleKeeps, VoidKeeps DEF Next

-----------------------------------------------------------------------------
\* The host page.

HostTypeOK ==
  /\ by \in [Pages -> {"none", "sdk", "script"}]
  /\ hears \subseteq Pages /\ posted \subseteq Pages
  /\ told \subseteq Pages \X Pages

\* Whoever listens has been embedded, and what is posted or told is of the page
\* whose values are saved.
HostHeld ==
  /\ HostTypeOK
  /\ \A p \in Pages : at[p] = "closed" => by[p] = "none"
  /\ \A p \in hears : by[p] # "none"
  /\ \A p \in posted : author = p
  /\ \A call \in told : by[call[1]] # "none"
  /\ ToldIsOwn

HostInv == PagesInv /\ HostHeld

LEMMA HostInitInv == HostInit => HostInv
<1> SUFFICES ASSUME HostInit PROVE HostInv
  OBVIOUS
<1>1. PagesInv
  BY InitPages DEF HostInit
<1>2. HostHeld
  BY DEF HostInit, HostHeld, HostTypeOK, ToldIsOwn
<1> QED
  BY <1>1, <1>2 DEF HostInv

\* A page that an author was saved for keeps it.
LEMMA AuthorStays ==
  ASSUME PagesInv, Next, author # NoPage
  PROVE  author' = author
<1>1. ASSUME NEW p \in Pages, CommitSign(p) PROVE author' = author
  <2>1. ~StatusUnchanged
    BY DEF PagesInv, AuthorHeld, StatusUnchanged
  <2> QED
    BY <1>1, <2>1 DEF CommitSign
<1> QED
  BY <1>1, Zenon DEF Next, OpenLink, OpenEmbed, Load, LoadLink, TrackView, LoadEmbed, ConsumeTicket,
     Render, Handle, CheckConsent, RecordConsent, CheckSign, CheckDecline,
     CommitDecline, IAgree, Submit, Decline, LoseConnection, MintTicket,
     TicketExpires, Void, recipient

\* No page closes.
LEMMA ClosedBefore ==
  ASSUME PagesInv, Next, NEW p \in Pages, at'[p] = "closed"
  PROVE  at[p] = "closed"
<1>0. TypeOK /\ at \in [Pages -> Ats]
  BY DEF PagesInv, TypeOK, Ats
<1>1. ASSUME NEW q \in Pages,
             \/ \E k \in {"link", "preview"} : OpenLink(q, k)
             \/ \E t \in Tickets : OpenEmbed(q, t)
      PROVE  at[p] = "closed"
  BY <1>0, <1>1 DEF OpenLink, OpenEmbed, Goto
<1>2. ASSUME NEW t \in Tickets, MintTicket(t) \/ TicketExpires(t)
      PROVE  at[p] = "closed"
  BY <1>2 DEF MintTicket, TicketExpires, page
<1>3. ASSUME Calm PROVE at[p] = "closed"
  BY <1>3 DEF Calm
<1>4. ASSUME NEW q \in Pages,
             LoadLink(q) \/ TrackView(q) \/ LoadEmbed(q) \/ ConsumeTicket(q)
      PROVE  at[p] = "closed"
  BY <1>0, <1>4, LoadAt
<1> QED
  BY <1>0, <1>1, <1>2, <1>3, <1>4, RenderCalm, HandleCalm, VoidCalm DEF Next, Load

LEMMA PageStepKeeps ==
  ASSUME HostInv, PageStep
  PROVE  HostInv'
<1>0. PagesInv /\ HostHeld /\ Next /\ UNCHANGED <<by, hears, told>>
  BY DEF HostInv, PageStep
<1>1. PagesInv'
  BY <1>0, NextPages
<1>2. HostTypeOK'
  BY <1>0 DEF PageStep, HostHeld, HostTypeOK
<1>3. \A p \in Pages : at'[p] = "closed" => by'[p] = "none"
  BY <1>0, ClosedBefore DEF HostHeld
<1>4. \A p \in Pages : author = p => author' = p
  BY <1>0, AuthorStays, PagesAssumption
<1>5. \A p \in posted' : author' = p
  <2>1. \A p \in Pages : at'[p] = "complete" => author' = p
    BY <1>1 DEF PagesInv, AuthorHeld, CompleteIsOwn
  <2>2. \A p \in posted' : p \in Pages /\ (p \in posted \/ at'[p] = "complete")
    BY <1>0 DEF PageStep, HostHeld, HostTypeOK
  <2> QED
    BY <1>0, <1>4, <2>1, <2>2 DEF HostHeld
<1>6. ToldIsOwn'
  <2>1. \A call \in told : call[2] \in Pages
    BY <1>0 DEF HostHeld, HostTypeOK
  <2> QED
    BY <1>0, <1>4, <2>1 DEF HostHeld, ToldIsOwn
<1> QED
  BY <1>0, <1>1, <1>2, <1>3, <1>5, <1>6 DEF HostInv, HostHeld

LEMMA EmbedKeeps ==
  ASSUME HostInv, NEW p \in Pages, NEW t \in Tickets, NEW how \in {"sdk", "script"},
         Embed(p, t, how)
  PROVE  HostInv'
<1>0. PagesInv /\ HostHeld /\ OpenEmbed(p, t) /\ UNCHANGED <<posted, told, author>>
  BY DEF HostInv, Embed, OpenEmbed, recipient
<1>1. PagesInv'
  BY <1>0, OpenKeeps
<1>2. /\ at[p] = "closed" /\ at'[p] = "load" /\ by[p] = "none" /\ by'[p] = how
      /\ \A q \in Pages \ {p} : at'[q] = at[q] /\ by'[q] = by[q]
  <2>1. at \in [Pages -> Ats] /\ by \in [Pages -> {"none", "sdk", "script"}]
    BY <1>0, Zenon DEF HostHeld, HostTypeOK, PagesInv, TypeOK, Ats
  <2>2. at[p] = "closed" /\ at' = [at EXCEPT ![p] = "load"] /\ by' = [by EXCEPT ![p] = how]
    BY <1>0 DEF OpenEmbed, Goto, Embed
  <2>3. by[p] = "none"
    BY <1>0, <2>2 DEF HostHeld
  <2> QED
    BY <2>1, <2>2, <2>3
<1>3. HostTypeOK'
  BY <1>0 DEF Embed, HostHeld, HostTypeOK
<1>4. \A q \in Pages : at'[q] = "closed" => by'[q] = "none"
  BY <1>0, <1>2 DEF HostHeld
<1>5. \A q \in hears' : by'[q] # "none"
  BY <1>0, <1>2 DEF Embed, HostHeld, HostTypeOK
<1>6. \A call \in told : call[1] \in Pages \ {p}
  BY <1>0, <1>2 DEF HostHeld, HostTypeOK
<1>7. ToldIsOwn' /\ \A call \in told' : by'[call[1]] # "none"
  BY <1>0, <1>2, <1>6 DEF HostHeld, ToldIsOwn
<1> QED
  BY <1>0, <1>1, <1>3, <1>4, <1>5, <1>7 DEF HostInv, HostHeld

LEMMA SamePages ==
  ASSUME PagesInv, UNCHANGED vars
  PROVE  PagesInv'
  BY NextPages

LEMMA HearKeeps ==
  ASSUME HostInv, NEW p \in Pages, Hear(p)
  PROVE  HostInv'
<1>0. PagesInv /\ HostHeld /\ UNCHANGED <<by, at, author>> /\ p \in posted
  BY DEF HostInv, Hear, vars, recipient, page
<1>1. PagesInv'
  BY <1>0, SamePages DEF Hear
<1>2. posted' \subseteq posted /\ hears' \subseteq hears
  BY DEF Hear
<1>3. \A call \in told' :
        \/ call \in told
        \/ \E q \in Pages : IsFor(q, p) /\ call = <<q, p>>
  BY DEF Hear
<1>4. HostTypeOK'
  BY <1>0, <1>2, <1>3 DEF HostHeld, HostTypeOK
<1>5. \A call \in told' :
        /\ by[call[1]] # "none"
        /\ author = call[2] /\ (by[call[1]] = "sdk" => call[1] = call[2])
  BY <1>0, <1>3 DEF HostHeld, IsFor, ToldIsOwn
<1> QED
  BY <1>0, <1>1, <1>2, <1>4, <1>5 DEF HostInv, HostHeld, ToldIsOwn

LEMMA DestroyKeeps ==
  ASSUME HostInv, NEW p \in Pages, Destroy(p)
  PROVE  HostInv'
<1>0. PagesInv /\ HostHeld /\ UNCHANGED <<by, posted, told, recipient>>
  BY DEF HostInv, Destroy
<1>1. /\ at' \in [Pages -> Ats] /\ at[p] # "closed" /\ at'[p] = "gone"
      /\ \A q \in Pages \ {p} : at'[q] = at[q]
  BY <1>0 DEF Destroy, Goto, PagesInv, TypeOK, Ats
<1>2. TypeOK'
  <2>1. PageTypes'
    BY <1>0, <1>1, TypeParts, Zenon DEF PagesInv, Destroy, PageTypes
  <2> QED
    BY <1>0, <2>1, TypeParts, TypePartsNext, SameTypes DEF PagesInv, Destroy
<1>3. AuthorHeld'
  <2>1. \A q \in Pages : at'[q] = "complete" => at[q] = "complete"
    BY <1>1
  <2> QED
    BY <1>0, <2>1, SameAuthor DEF PagesInv, recipient
<1>4. Calm
  BY <1>1 DEF Calm, Destroy, tracking, tickets
<1>5. PagesInv'
  BY <1>0, <1>2, <1>3, <1>4, CalmKeeps DEF PagesInv
<1>6. HostHeld'
  <2>1. hears' \subseteq hears
    BY DEF Destroy
  <2>2. author' = author
    BY <1>0 DEF recipient
  <2> QED
    BY <1>0, <1>1, <2>1, <2>2 DEF HostHeld, HostTypeOK, ToldIsOwn
<1> QED
  BY <1>5, <1>6 DEF HostInv

LEMMA HostNextInv == HostInv /\ [HostNext]_<<vars, host>> => HostInv'
<1> SUFFICES ASSUME HostInv, [HostNext]_<<vars, host>> PROVE HostInv'
  OBVIOUS
<1>1. CASE UNCHANGED <<vars, host>>
  <2>1. PagesInv'
    BY <1>1, SamePages DEF HostInv
  <2>2. UNCHANGED <<by, hears, posted, told, at, author>>
    BY <1>1 DEF vars, host, recipient, page
  <2>3. HostHeld'
    BY <2>2 DEF HostInv, HostHeld, HostTypeOK, ToldIsOwn
  <2> QED
    BY <2>1, <2>3 DEF HostInv
<1> QED
  BY <1>1, PageStepKeeps, EmbedKeeps, HearKeeps, DestroyKeeps DEF HostNext

\* Every reachable state of the pages and their host satisfies the invariant.
THEOREM PagesHold == HostSpec => []HostInv
<1> QED
  BY HostInitInv, HostNextInv, PTL DEF HostSpec

\* Whoever sees "Signing Complete", and every host that is told so, can rely on
\* it, for any number of pages: handleComplete shows and posts it only after the
\* compare-and-set on the recipient's status saved that page's values.
THEOREM CompleteHolds == HostSpec => []CompleteIsTrue
<1>1. HostInv => CompleteIsTrue
  BY DEF HostInv, PagesInv, AuthorHeld, HostHeld, CompleteIsTrue
<1> QED
  BY <1>1, PagesHold, PTL

\* A ticket of an embedded page lets one page in, and a first view is announced
\* once, for any number of pages and tickets, unless two loads overlap.
THEOREM EntersOnce == HostSpec => []EntersAndViewsOnce
<1>1. ASSUME HostInv PROVE EntersAndViewsOnce
  <2>1. TicketEntersOnce
    BY <1>1 DEF HostInv, PagesInv, EnterHeld, TicketEntersOnce
  <2>2. FirstViewOnce
    BY <1>1 DEF HostInv, PagesInv, ViewHeld, FirstViewOnce
  <2> QED
    BY <2>1, <2>2 DEF EntersAndViewsOnce
<1> QED
  BY <1>1, PagesHold, PTL
=================================================================================
