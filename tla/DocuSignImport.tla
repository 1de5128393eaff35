----------------------------- MODULE DocuSignImport -----------------------------
(***************************************************************************)
(* swiftsign-mcp import-docusign: sign in, list the templates of an        *)
(* account page by page, and for each fetch, convert and create it.  The   *)
(* account changes meanwhile, requests are limited or fail, the answer to  *)
(* a creation may be lost, and the user may stop the run and start again.  *)
(* What is imported becomes envelopes that are signed and sealed.          *)
(***************************************************************************)
EXTENDS Templates

CONSTANTS
  Source,      \* templates that the DocuSign account holds at some time
  Detail,      \* their documents and recipients
  Accounts,    \* what it may hold at first
  Selections,  \* values of --templates; {} selects everything
  Coerced,     \* types of tabs that become text fields
  Dropped,     \* types of tabs, and groups without options, that are skipped
  NoDocument,  \* a tab that names no document
  Listing,     \* templates in one page of the listing, 100 in the code
  MaxRetries,  \* after an answer 429, 3 in the code
  MaxRuns,     \* bound on runs of the importer
  MaxChanges   \* bound on changes of the account

WellFormed(d) ==
  /\ d.docs \in Seq(Range(d.docs)) /\ d.signers \in Seq(Range(d.signers))
  /\ d.ccs \in Seq(Range(d.ccs))
  /\ \A k \in DOMAIN d.docs : d.docs[k].file \in DOMAIN Pdf
  /\ \A i \in DOMAIN d.signers : \A j \in DOMAIN d.signers[i].tabs :
       LET tab == d.signers[i].tabs[j]
       IN  {tab.page, tab.x, tab.y, tab.w, tab.h} \subseteq Int

ASSUME ImportAssumption ==
  /\ "none" \notin TemplateSlots
  /\ Listing \in Nat \ {0}
  /\ \A a \in Accounts : a \in Seq(Source) /\ IsInjective(a)
  /\ \A s \in Source : WellFormed(Detail[s])

VARIABLES
  account,     \* the templates DocuSign lists now, in its order
  step,        \* the next step of the importer
  dry, only,   \* its options
  start,       \* start_position
  listed,      \* what the pages have shown
  todo,        \* those that are selected
  current,     \* the place there of the one at work
  file,        \* the document of it that is downloaded next
  attempt,     \* retries of the present request
  report,
  runs,        \* runs begun
  changes,     \* changes of the account
  moved,       \* history: the account changed while it was listed
  made,        \* history: templates created by this run
  unheard      \* history: those whose answer was lost

options  == <<dry, only>>
progress == <<start, listed, todo, current, file, attempt>>
history  == <<moved, made, unheard>>
server   == <<template, envelope>>
importVars == <<server, account, step, options, progress, report, runs, changes,
          history>>

ImportInit ==
  /\ TemplatesInit
  /\ account \in Accounts
  /\ step = "idle" /\ dry = FALSE /\ only = {}
  /\ start = 0 /\ listed = <<>> /\ todo = <<>> /\ current = 1 /\ file = 1
  /\ attempt = 0 /\ report = <<>>
  /\ runs = 0 /\ changes = 0
  /\ moved = FALSE /\ made = {} /\ unheard = {}

-----------------------------------------------------------------------------
\* mapTemplate.
Roles(d) ==
  [i \in 1..(Len(d.signers) + Len(d.ccs)) |->
     IF i <= Len(d.signers)
     THEN [name |-> d.signers[i].role, routing |-> d.signers[i].routing,
           type |-> "SIGNER"]
     ELSE [name |-> d.ccs[i - Len(d.signers)].role,
           routing |-> d.ccs[i - Len(d.signers)].routing, type |-> "CC"]]

DocumentsOf(tab, d) ==
  IF tab.doc = NoDocument THEN {1} \cap DOMAIN d.docs
  ELSE {k \in DOMAIN d.docs : d.docs[k].id = tab.doc}

\* What becomes a field: a tab with a counterpart, on a known document.
Importable(tab, d) == tab.type \notin Dropped /\ DocumentsOf(tab, d) # {}

TabNumbers(d) ==
  UNION {{<<i, j>> : j \in DOMAIN d.signers[i].tabs} : i \in DOMAIN d.signers}

TabAt(n, d) == d.signers[n[1]].tabs[n[2]]

\* A tab with an anchor is left to it: page 1, at the top left.
Place(tab, pdf) ==
  IF tab.anchor # NoAnchor THEN [page |-> 1, x |-> 0, y |-> 0, w |-> 0, h |-> 0]
  ELSE FixedPlace(tab, pdf)

Field(n, d) ==
  LET tab   == TabAt(n, d)
      k     == CHOOSE k \in DocumentsOf(tab, d) : TRUE
      place == Place(tab, Pdf[d.docs[k].file])
  IN  [no |-> n, role |-> n[1], document |-> k,
       type |-> IF tab.type \in Coerced THEN "TEXT" ELSE tab.type,
       required |-> tab.required, anchor |-> tab.anchor,
       page |-> place.page, x |-> place.x, y |-> place.y,
       w |-> place.w, h |-> place.h]

Convert(d) ==
  [docs   |-> [k \in DOMAIN d.docs |-> d.docs[k].file],
   roles  |-> Roles(d),
   fields |-> {Field(n, d) : n \in {m \in TabNumbers(d) :
                                      Importable(TabAt(m, d), d)}}]

-----------------------------------------------------------------------------
\* Somebody adds or removes a template in DocuSign.
ChangeAccount ==
  /\ changes < MaxChanges
  /\ step \in {"list", "fetch", "download"}
  /\ \/ \E i \in DOMAIN account : account' = RemoveAt(account, i)
     \/ \E s \in Source \ Range(account), i \in 1..(Len(account) + 1) :
          account' = InsertAt(account, i, s)
  /\ changes' = changes + 1
  /\ moved' = (moved \/ step = "list")
  /\ UNCHANGED <<server, step, options, progress, report, runs, made, unheard>>

\* Options are read, the user signs in and picks an account.
BeginRun ==
  /\ step \in {"idle", "ended"}
  /\ runs < MaxRuns
  /\ runs' = runs + 1
  /\ dry' \in BOOLEAN
  /\ only' \in Selections
  /\ step' = "list"
  /\ start' = 0 /\ listed' = <<>> /\ todo' = <<>> /\ current' = 1 /\ file' = 1
  /\ attempt' = 0 /\ report' = <<>>
  /\ moved' = FALSE /\ made' = {} /\ unheard' = {}
  /\ UNCHANGED <<server, account, changes>>

\* matchesOnly, for the templates that were listed.
Wanted(t) == only = {} \/ t \in only

Selected(s) ==
  LET kept[n \in 0..Len(s)] ==
        IF n = 0 THEN <<>>
        ELSE IF Wanted(s[n]) THEN Append(kept[n - 1], s[n]) ELSE kept[n - 1]
  IN  kept[Len(s)]

\* Mutation: start_position counts pages.
NextPage(items) == start + (IF items = <<>> THEN 0 ELSE 1)

NextStart(items) == start + Len(items)

\* One page of the listing.
ListPage ==
  /\ step = "list"
  /\ LET items == SubSeq(account, start + 1, Min({Len(account), start + Listing}))
     IN  /\ listed' = listed \o items
         /\ start' = NextStart(items)
         /\ IF items = <<>> \/ start' >= Len(account)
            THEN /\ todo' = Selected(listed')
                 /\ step' = IF todo' = <<>> THEN "idle" ELSE "confirm"
            ELSE UNCHANGED <<todo, step>>
  /\ attempt' = 0
  /\ UNCHANGED <<server, account, options, current, file, report, runs, changes,
                 history>>

\* The prompt, unless --yes or --dry-run.
Confirm ==
  /\ step = "confirm"
  /\ step' \in (IF dry THEN {"fetch"} ELSE {"fetch", "idle"})
  /\ UNCHANGED <<server, account, options, progress, report, runs, changes,
                 history>>

\* 429: the same request again after a while.
Retry ==
  /\ step \in {"list", "fetch", "download"}
  /\ attempt < MaxRetries
  /\ attempt' = attempt + 1
  /\ UNCHANGED <<server, account, step, options, start, listed, todo, current, file,
                 report, runs, changes, history>>

\* A listing that fails ends the run, without a report.
ListFails ==
  /\ step = "list"
  /\ step' = "idle"
  /\ UNCHANGED <<server, account, options, progress, report, runs, changes,
                 history>>

\* One entry, and on to the next template, or to the report.
Conclude(entry) ==
  /\ report' = Append(report, entry)
  /\ current' = current + 1
  /\ file' = 1 /\ attempt' = 0
  /\ step' = IF current = Len(todo) THEN "write" ELSE "fetch"

Entered(status, id) == [source |-> todo[current], status |-> status, id |-> id]

\* getTemplate; a template that is gone, or has no documents, fails.
Fetch ==
  /\ step = "fetch"
  /\ todo[current] \in Range(account)
  /\ Detail[todo[current]].docs # <<>>
  /\ step' = "download"
  /\ attempt' = 0
  /\ UNCHANGED <<server, account, options, start, listed, todo, current, file,
                 report, runs, changes, history>>

\* Whatever fails is caught and reported, and the loop goes on.
FetchFails ==
  /\ step \in {"fetch", "download"}
  /\ Conclude(Entered("failed", "none"))
  /\ UNCHANGED <<server, account, options, start, listed, todo, runs, changes,
                 history>>

DownloadFile ==
  /\ step = "download"
  /\ todo[current] \in Range(account)
  /\ attempt' = 0
  /\ IF file = Len(Detail[todo[current]].docs)
     THEN step' = "create" /\ UNCHANGED file
     ELSE file' = file + 1 /\ UNCHANGED step
  /\ UNCHANGED <<server, account, options, start, listed, todo, current, report,
                 runs, changes, history>>

Payload == Convert(Detail[todo[current]])

\* Nothing is created for a dry run, or without roles.
NothingToCreate ==
  /\ step = "create"
  /\ \/ Payload.roles = <<>> /\ Conclude(Entered("failed", "none"))
     \/ Payload.roles # <<>> /\ dry /\ Conclude(Entered("dry-run", "none"))
  /\ UNCHANGED <<server, account, options, start, listed, todo, runs, changes,
                 history>>

\* Mutation: reported as imported before the answer is known.
CreateReported(t) ==
  /\ step = "create"
  /\ Payload.roles # <<>> /\ ~dry
  /\ Conclude(Entered("imported", t))
  /\ \/ /\ PostTemplate(t, Payload, todo[current])
        /\ made' = made \cup {<<todo[current], t>>}
     \/ UNCHANGED <<template, made>>
  /\ UNCHANGED <<envelope, account, options, start, listed, todo, runs, changes,
                 moved, unheard>>

\* createSwiftSignTemplate.  If the answer is lost the entry says failed.
Create(t) ==
  /\ step = "create"
  /\ Payload.roles # <<>> /\ ~dry
  /\ PostTemplate(t, Payload, todo[current])
  /\ made' = made \cup {<<todo[current], t>>}
  /\ \/ Conclude(Entered("imported", t)) /\ UNCHANGED unheard
     \/ Conclude(Entered("failed", "none")) /\ unheard' = unheard \cup {t}
  /\ UNCHANGED <<envelope, account, options, start, listed, todo, runs, changes,
                 moved>>

\* Refused, too large, not rendered, or never arrived.
CreateFails ==
  /\ step = "create"
  /\ Payload.roles # <<>> /\ ~dry
  /\ Conclude(Entered("failed", "none"))
  /\ UNCHANGED <<server, account, options, start, listed, todo, runs, changes,
                 history>>

\* import-report.json.
WriteReport ==
  /\ step = "write"
  /\ step' = "ended"
  /\ UNCHANGED <<server, account, options, progress, report, runs, changes,
                 history>>

\* The user stops the run: there is no report.
Interrupt ==
  /\ step \notin {"idle", "ended"}
  /\ step' = "idle"
  /\ UNCHANGED <<server, account, options, progress, report, runs, changes,
                 history>>

-----------------------------------------------------------------------------
ServerStep ==
  \/ \E t \in TemplateSlots : DeleteTemplate(t)
  \/ \E e \in EnvelopeSlots, t \in TemplateSlots : LoadTemplate(e, t)
  \/ \E e \in EnvelopeSlots, s \in Source : CreateInline(e, Convert(Detail[s]), s)
  \/ \E e \in EnvelopeSlots : CommitEnvelope(e) \/ SealEnvelope(e)

Importer ==
  \/ BeginRun \/ ListPage \/ Confirm \/ Retry \/ ListFails
  \/ Fetch \/ FetchFails \/ DownloadFile
  \/ NothingToCreate \/ CreateFails \/ WriteReport \/ Interrupt
  \/ \E t \in TemplateSlots : Create(t)

ImportNext ==
  \/ Importer
  \/ ChangeAccount
  \/ ServerStep /\ UNCHANGED <<account, step, options, progress, report, runs,
                               changes, history>>

ImportSpec == ImportInit /\ [][ImportNext]_importVars

-----------------------------------------------------------------------------
\* The report is true: what it calls imported was created by this run, one
\* template for each, and what was created is called so, unless the answer was
\* lost.  And it is complete: every selected template of the account has one entry,
\* unless the account changed while it was listed, when the pages may skip one or
\* show it twice.
ReportIsTrue ==
  step = "ended" =>
    /\ \A i \in DOMAIN report : report[i].status = "imported" =>
         <<report[i].source, report[i].id>> \in made
    /\ \A m \in made : m[2] \notin unheard =>
         Cardinality({i \in DOMAIN report : report[i].id = m[2]}) = 1
    /\ ~moved => \A s \in Source :
         Cardinality({i \in DOMAIN report : report[i].source = s}) =
           IF s \in Range(listed) /\ (only = {} \/ s \in only) THEN 1 ELSE 0

\* Within the rounding to a hundredth of a per cent of the page.
Between(low, ink, high, dim) == 2 * (low - ink) <= dim /\ 2 * (ink - high) <= dim

\* The ink of an imported field is where its tab was, within the rounding, and is
\* that of the person who has the role of the tab: for a tab on its page, if that
\* is upright and its size could be read.  A signature may reach 3 points below the
\* foot of its tab, and a picture whose tab reaches below the page is raised to
\* the page's edge.
InkWhereTabsWere ==
  \A e \in EnvelopeSlots : \A i \in envelope[e].ink :
    LET d    == Detail[envelope[e].source]
        tab  == TabAt(i.field.no, d)
        pdf  == Pdf[envelope[e].docs[i.field.document]]
        size == pdf.pages[i.field.page]
    IN  /\ i.who = d.signers[i.field.no[1]].role
        /\ (/\ tab.anchor = NoAnchor /\ pdf.readable /\ size.rotation = 0
            /\ tab.page >= 1 /\ tab.x \in 0..size.w /\ tab.y \in 0..size.h) =>
             LET foot == Full * (size.h - tab.y) - i.field.h * size.h
                 hang == IF i.field.type = "SIGNATURE" THEN 3 * Full ELSE 0
             IN  /\ i.field.page = tab.page
                 /\ Between(Full * tab.x, i.box.left, Full * tab.x, size.w)
                 /\ IF i.field.type \in Pictures
                    THEN Between(Larger(0, foot - hang), i.box.bottom,
                                 Larger(0, foot), size.h)
                    ELSE Between(foot, i.box.bottom, foot, size.h)
================================================================================
