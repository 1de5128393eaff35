# SwiftSign: a TLA+ model

SwiftSign is an e-signature service: a Next.js application over Postgres
(through Prisma) and an R2 bucket. A sender uploads PDFs, places fields for
recipients and sends signing links. Recipients accept the ESIGN disclosure,
fill their fields and sign; the last signature seals the documents, writes a
certificate of completion and mails the result. An API, an MCP server, two
SDKs and an importer drive the same routes; Stripe decides the plan and a cron
retries webhooks.

No server process keeps state in memory. Every route handler reads rows,
decides, and writes rows, objects and emails **one statement at a time**, at
Postgres' READ COMMITTED, while other requests do the same. Most of what can
go wrong comes from that: a decision taken on a row that has changed since, or
a handler that dies between two writes. The rest comes from clients that hold
their own copy of that state: pages, SDKs, agents, Stripe. The server modules
are therefore built at the grain of one statement, transaction, upload or
email; the client modules at the grain of one event of the page or one request
and one answer, each of which may be lost, late or overtaken.

## 1. Inventory

`lib`, `app` and `components` are those of the repository's `src/`; other paths
are from its root. `PROJECT.json` lists every hazard with the line where it
bites, and the property that would catch it.

| Component | State it keeps | Operations | What is hard | Modules | Status |
|---|---|---|---|---|---|
| Envelope store (`prisma/schema.prisma`, `app/api/v1/envelopes`, `app/api/documents`) | Envelope, Recipient, Document, Field, ConsentRecord, AuditLog rows; R2 objects | create, read, list, send, void, serve files | rows shared by all handlers, few transactions | `EnvelopeStore`, `Api`, `Creation`, `Clients` | modelled |
| Signing ceremony (`app/api/sign/[token]/**`, `lib/consent.ts`) | recipient status, consent stamp, values, `tokenUsedAt` | consent, sign, decline, invite the next order | two signers at once, stale batches, partial failures | `Signing` | modelled |
| Sealing and flattening (`lib/seal-and-complete.ts`, `lib/flatten-between-signers.ts`) | objects, `signedKey`, `documentHash`, certificate, `completedAt` | `sealAndComplete`, `flattenForNextSigner` | two sealings, a flattening that ends after a sealing, death half way | `Sealing` | modelled |
| Sending and voiding (`app/api/v1/envelopes/[id]/route.ts`) | envelope status, first batch | send, void | the audit row escapes its transaction; void over anything | `Sending` | modelled |
| Audit hash chain (`lib/audit.ts`, `audit-hash.ts`, `audit-verify.ts`) | `seq`, `prevHash`, `rowHash` | append, verify | `FOR UPDATE` on a row that is no longer the last | `AuditChain` | modelled |
| Webhooks (`lib/webhooks.ts`, `webhook-retry.ts`, cron, endpoint routes) | WebhookEndpoint, WebhookDelivery | emit, first attempt in `after()`, retry, switch off, delete | overlapping crons, deaths, lost answers | `Webhooks` | modelled |
| Idempotency and quota (`lib/idempotency.ts`, `quota.ts`, `POST /api/v1/envelopes`) | IdempotencyKey rows, counted envelopes | claim, run, store, replay, prune; count and create | a claim that is never resolved; check then act | `Creation` | modelled |
| OAuth tokens (`lib/oauth.ts`, `app/api/oauth`) | codes, access and refresh tokens | authorise, exchange, rotate, revoke, expire | single use without a condition on the write | `Access`, `Console` | modelled |
| Accounts, magic links, API keys (`lib/auth.ts`, `lib/api-key.ts`, `app/api/auth`, `app/api/v1/signup`) | User, Session, VerificationToken, ApiKey | request a link, log in, sign up, create and revoke keys | races of first logins; pages with old lists | `Access`, `Console` | partly |
| Billing (`app/api/stripe/webhook`, `app/api/v1/billing`, `app/api/cron/billing-sweep`, `lib/plans.ts`) | Subscription, `User.plan` | upgrade, apply events, sweep | events repeated and out of order | `Billing` | modelled |
| Embedded signing and views (`app/sign/[token]/page.tsx`, embed routes, `public/embed.js`, SDK `embed()`) | EmbeddedSession, `viewedAt` | enter by ticket, view, preview, tell the host | read-then-write tickets and views; two embeddings | `SigningPages`, `EmbedHost` | modelled |
| Signing UI (`components/signing-form.tsx`, `components/signature-modal.tsx`, `lib/signature-image.ts`) | the page's own state | fill, adopt, confirm, POST, decline | timers and promises that end late; retry after a lost answer | `SigningForm`, `SignatureModal`, `SignatureImage` | partly, with the dashboard |
| Dashboard (`app/dashboard`, `app/oauth/authorize`) | the page's own lists | keys, endpoints, sign-in, consent screen | answers out of order | `Console` | partly |
| Pagination (`lib/pagination.ts`) | none; cursors held by clients | page through a list | ties, rows that come and go | `Api` | modelled |
| MCP server, SDKs (`mcp/`, `sdk-js/`, `sdk-python/`) | one call at a time | every tool and method | lost and late answers, live keys | `Clients` | modelled |
| DocuSign import (`mcp/src/import-docusign.ts`, `docusign/`) | a report | list, fetch, convert, create | an account that changes while it is listed | `DocuSignImport` | modelled |
| Templates and anchors (`app/api/v1/templates`, `lib/templates.ts`, `lib/pdf-renderer.ts`) | Template rows | create, delete, instantiate, resolve anchors | units, rounding, turned pages | `Placement`, `Templates` | partly |
| Certificates, PAdES, storage, completion emails (`lib/certificate.ts`, `lib/signing`, `lib/storage.ts`, `lib/email.ts`, `app/verify`) | files, certificate, EMAIL rows | sign, stamp, certify, mail, verify | fallbacks, hand-made page breaks, same names | `Certificate`, `Evidence` | partly |
| Rate limiting (`lib/rate-limit.ts`, `lib/token-bucket.ts`) | Upstash, or buckets in memory | take, refill, prune | limits of the map, restarts | `RateLimit` | partly |
| Marketing, scripts, OpenAPI | none | - | - | - | not modelled |

What makes the core correct: nobody signs without an accepted disclosure;
nothing is signed before the send is on record; an envelope is complete only
when every signer has signed and every document carries all of their values;
it does become complete then; the audit chain of an envelope never forks, skips
or changes, and verifies; the file, its published hash, the certificate
and the mailed copies agree; invitations follow the routing order; webhooks
announce only what has happened. Around it: whatever is repeated (a key, a
link, a code, an event, a delivery, a page of a list) has its effect once, and
whatever a page, a report or an answer says is true of the server.

## 2. Modules

### The core

| Module | What it is |
|---|---|
| `EnvelopeStore` | The state: one envelope's rows and objects, and the slots of requests in flight. `Init` is the draft that `POST /api/v1/envelopes` commits. |
| `Signing` | consent, sign, decline, and the notification loop at the end of the sign route. |
| `Sealing` | `sealAndComplete`, `flattenForNextSigner`. |
| `Sending` | `handleSend`, `handleVoid`. |
| `EnvelopeSystem` | Composes the three handler modules over the store; crashes, expiry, fairness, and the properties. |
| `Ceremony` | The abstract specification: what the core promises however its requests interleave or fail. |
| `EnvelopeInvariant` | The inductive invariant `IInv`. |
| `MCEnvelope` | Routing orders, document names and field owners for TLC's instances. |
| `EnvelopeProofs` | Theorems and proofs. |

A **slot** is one request in flight. `pc[s]` is its next statement, `who[s]`
the recipient it acts for (or, in the notification loop, notifies);
`batch`, `view`, `listed`, `doc` and `run` are what the handler has read and
still relies on. `Begin` is the head of a handler, where its checks are made;
`Finish` is its answer. A request refused by its checks changes nothing and is
no step at all.

| Variable | Code |
|---|---|
| `status`, `completedAt` | `Envelope.status`, `Envelope.completedAt` (0 is null, else the sealing run that set it) |
| `rstatus`, `consentedAt`, `expired` | `Recipient.status`, `.consentedAt`, `.tokenExpiresAt` passed |
| `consents` | number of `ConsentRecord` rows |
| `signings` | committed signing transactions of a recipient: `tokenUsedAt` and `signedAt` are set iff positive, and the number is the version of its field values |
| `signedKey`, `documentHash`, `objects`, `certificate` | `Document.signedKey`, `.documentHash`, the objects under `sealed/` and `certificates/` |
| `audit` | AuditLog rows as facts; the hash chain is another component |
| `scheduled` | events handed to `emit()` |
| `mailed`, `delivered` | signing links and completion attachments that went out |
| `runs` | sealing runs started; a run's number stands for its PAdES signature and timestamp |

`SignCommit` is the signing transaction (conditional `updateMany`, field
values, audit, event); `SignRecheck` the re-fetch that decides between sealing
and flattening and computes the next batch; `NotifySend`/`NotifyMark`/
`NotifyAudit` one turn of the loop. The sealing actions follow
`sealAndComplete` write by write. `SendAudit` and `SendCommit` are apart
because `logAudit` is called inside the send's transaction without `tx`: its
row commits by itself, before the transaction does (or although it does not).
`RecipientFree` and `EnvelopeFree` are the row locks that transaction holds
meanwhile.

- A Prisma query with nested includes is one read. A signing replaces all of a
  signer's values at once, so a version number stands for them.
- `FIELD_COMPLETED` rows and the signature adoption cache are left out; views
  are in `SigningPages`. Account limits of `handleSend` refuse without effect.
- `emit()` means "handed to `after()`"; there is no `await` between the write
  it reports and the call, so the two are one step. Delivery is `Webhooks`.
- The invitations of a send, and the completion emails, are `allSettled`
  batches: one step whose outcome is any combination (the completion emails
  are taken apart in `Evidence`). The emails of the notification loop are
  awaited one by one and are separate steps.
- A PDF is which values are baked in and which run signed it. The hash of a
  file is the file.
- `Abort` is a thrown error or the death of the process at any point. What a
  `catch` of the sign route does after a failed sealing is to answer.
- Two envelopes share no state that the core reads, so one is modelled.

### Audit chain

`AuditChain` is concurrent appends to one envelope's chain and what the verifier
accepts; `AppendOnlyLog` is the abstract trail; `MCAuditChain` the instance; the
theorems are the first part of `EvidenceProofs`. A slot there is a
**transaction** that calls `appendAudit` one or more times. `rows` are the
AuditLog rows by `seq` (`by` is the writer until it commits), `locked` the rows
held `FOR UPDATE`, `todo` the appends left, `seen` and `head` the `prevSeq` and
`prevHash` of the one under way. `Read` is the snapshot of the `SELECT`, `Lock`
its wait: at READ COMMITTED a waiter keeps the row it waited for, because that
row was only locked and not updated, although a later one may be committed by
then. `Insert` waits for an uncommitted row of its number and `Refuse` is the
unique index `(envelopeId, seq)`. A hash is the sequence of what was hashed;
`Stored[e]` is what the JSON column gives back for an entry `e`. The core does
not import the chain: its `audit` is the set of rows that were kept, and with
"abort" among the faults any append of the core may be refused. `Evidence` does
import it.

### Server components beside the core

| Module | State and actions |
|---|---|
| `Webhooks` | `endpoint` rows, `task` and `first` (the `after()` task and its first attempts), `row` (WebhookDelivery), and per cron run `pc`, `work`, `cur`, `attempt`, `answer`. `Emit`, `Match`, `FirstPost`, `PersistDelivery`, `EndTask` are `emit` and its task; `CronStart`, `CronTake`, `CronPost`, `CronUpdate` are the retry run; `PatchEndpoint`, `DeleteEndpoint` the routes. An attempt (`DeliverOnce`) is a POST (`Posted`) or the refusal of the SSRF guard to send one (`Refused`). Backoff lengths are "later", until `Elapse`. |
| `Creation` | Per request `pc`, `key`, `body`, `result`, `answer`; per key `held`, `stored`; `env`, `counted`, `audited`. Rate limit, quota check, look-up, claim, run, audit, store and replay of `POST /api/v1/envelopes`, with the unique index on the claim, throws and deaths, the daily prune, and the turn of the month. Template existence is nondeterministic. |
| `Billing` | External `stripe`, `sessions`, `outbox` (at least once, any order); `row`, `plan`, `sweep`. One action per event handler of the webhook (the checkout handler's retrieve and write apart), the upgrade route, the sweep's read and two writes. |
| `Access` | Magic links, first logins, signup, the default key, OAuth codes and pairs; each route goes from await to await (`pc`, `arg`, `new`), and may die. |
| `SigningPages` | The server side of the signing page: render (reads, then the three writes of a view), tickets, consent, signature, refusal, for several pages of one signer. |
| `Api` | One account's envelopes and templates as one set of rows; a request on its way, its reply, writes that arrive late; cursors. A handler is one step here, since `Creation` and the core say what happens inside. `LastSigns`, `Declines` are what signers do to an envelope, `ForgetKey` the prune of a key after its day. |
| `Placement`, `Templates` | The arithmetic from DocuSign points to per cents to PDF points, anchors, pages; template rows, envelopes from templates or inline, the ink on the sealed file: `Drawn` is the corner of a picture (signatures and initials, with the overhang of a signature and the stop at the foot of the page) or of the box of another value. |
| `RateLimit` | The fallback of the limiters while Upstash does not answer: the `buckets` of one process, `now`; history of what was let through, forgotten and restarted. `Allow` and `Throttle` are `takeToken` with its refill, the second with `pruneBuckets`; `Tick`, `Restart`. |
| `Certificate`, `Evidence` | The certificate's page breaks as a fold over marks; one run of `sealAndComplete` with signing and stamping that may fail, the chain (EXTENDS `AuditChain`), certificate, completion emails, and `/verify`. |

### Clients and pages

| Module | State and actions |
|---|---|
| `SigningForm` | One page: `step`, `value`, the dialogs, `adopting`, `posts`, `pending`; the server as `status`, `recorded`. Mouse and keyboard reach different things. |
| `SignatureImage`, `SignatureModal` | Strokes, background removal and cropping as operators on small grey pictures; one opening of the modal in detail: canvas, text and fonts, file reads and decodes that end in any order. |
| `EmbedHost` | The host page with `embed()` of the SDK or `embed.js` over `SigningPages`: listeners, `postMessage`, `onComplete`, destroy. |
| `Console` | Sign-in, consent screen, API key card, webhook manager over `Access`: the page's lists and the calls whose answers it has not seen. |
| `Clients` | MCP tools and SDK methods over `Api`: calls, `confirm`, retries, pages. |
| `DocuSignImport` | The importer over `Templates`: listing, selection, fetch with retries after 429, conversion, creation, report, interruption and a second run. |

`MCSignatureModal`, `MCDocuSignImport`, `MCEvidence`, `MCCreation` define the
instances that a `.cfg` cannot: pictures, DocuSign documents, events, rates.
`MCCreation` puts a limiter beside the requests it limits: `Arrive` takes either
answer of it and they share no state, so one of them moves while the other rests.

Proofs are kept apart: `EnvelopeProofs` (the core), `EvidenceProofs` (chain and
evidence), `WebhookProofs`, `PlanProofs` (`Creation`, `Billing` and `RateLimit`:
what a plan lets through, what it is, and how fast), `AccessProofs` (`Access`
with `Console`), `PagesProofs` (`SigningPages` with `EmbedHost`), `FormProofs`
(`SigningForm` with `SignatureModal` and `SignatureImage`) and `ClientProofs`
(`Clients` over `Api`, and `DocuSignImport` over `Templates` and `Placement`).
The definitions of `Billing`, `RateLimit` and `DocuSignImport` carry their names
(`BillingInit`, `LimitNext`, ...) so that they can stand beside `Creation` and
`Clients` there.

Abstractions common to these: names, addresses and payloads are members of
small sets; a schema or permission check that refuses without effect is no
step; every rate-limited route may refuse. Per module:

- **Webhooks**: an endpoint is changed only while a task is still to read it,
  since nothing else looks; `tries` and `acks` saturate. `tries` counts attempts
  as `deliverOnce` makes them, those the guard refuses to send included: the row
  counts them too. A switched-off
  endpoint still gets its retries, as in the code.
- **Creation**: keys are not pruned while a request that holds them runs (it
  would have to run for a day).
- **SigningForm**: posts that were handled are forgotten unless they are the
  last; the decline dialog is one flag. The normalisation of saved signatures
  at mount time is left out. While a modal is followed in detail the form
  rests, and only an opening of a form with nothing but signatures on it is.
- **SignatureImage**: pictures of 5 x 3 pixels, one grey level for three equal
  colours, no scaling, padding 1. The texts of upload errors are left out.
- **SigningPages**: one signer; a page is opened once and then reloaded; one
  request per page at a time; sealing is folded into the signature.
- **EmbedHost**: the return URL is left out, and a page is not destroyed while
  the server renders it.
- **Access**: expiry is an end that may come at any time. PKCE, redirect URIs,
  scopes and client registration refuse or insert without effect here.
- **Console**: pages are opened only while no request of `Access` runs; the
  card of keys and the webhook manager are opened last, and left no more. The
  activity feed, the session card and new terms are left out.
- **DocuSignImport**: per cents are integers in hundredths, points are integers.
  The ranks of documents and roles are their order in the database; `InkWhereTabsWere`
  speaks of a tab on its page (page 1 or later, its corner on the paper) that is
  upright and readable: what lies outside is clamped, and turned pages are not drawn
  as they are shown (section 5). It allows what `seal.ts:249-257` does to a picture:
  a signature may hang 3 points below the foot of its tab, and one whose tab
  reaches below the page is raised to the page's edge. A picture takes one of the
  `Shares` (per cent) of its box's height, its width aside. A signature submitted as
  text, which the page never does, is drawn in its box like the other values.
- **Clients**: a program makes one call at a time; a program that reads a list
  does nothing else meanwhile, while the rest of the world does. Date and
  recipient filters are one `query`; signup and upgrade have no effect here. Ids
  are random, so a new row takes any free one; `Existing` are the rows the account
  may have at first, any of them. A key is not forgotten while a request with it is
  awaited (it would have to be for a day); one that arrives late may come after.
- **Evidence**: one sealing run (competing runs are `Sealing`), from an empty
  chain; a file is checked after the run has ended, unless the row of an email had
  thrown (`unlogged`). The mail service takes an email, refuses it in an answer that
  nobody reads (`refused`), or the call throws; an append may be refused, or
  committed with its answer lost. The widths of printed lines are not modelled.

- **RateLimit**: a token has `Part` parts so that a tick adds a whole number of
  them; the code's tokens are floating point numbers. The clock does not go
  back. What Upstash lets through touches no bucket and is no step.

## 3. Runs

All runs are exhaustive. `CHECK_DEADLOCK FALSE` is set everywhere because every
system here does come to rest: an envelope is completed, declined or voided and
every link is used; the bounded inputs (events, requests, calls, runs) are used
up; a page says "complete" and nothing else happens to it.

| Run | Instance | Properties | Shows |
|---|---|---|---|
| `core_interleaved` | 3 signers in 3 orders, 1 document, 2 requests at once, no failures, fairness | `CompletionIsEarned`, `NoLostCompletion`, `NotifiedInTurn`, `ConsentBeforeSigning`, `KeepsPromise`, `SignedCompletesOrReset` | Completion is earned, never left to nobody and, unless a stale write put a signed row back, reached; stale batches are still in turn; consent precedes signatures; the core implements `Ceremony`. |
| `core_serial` | 3 signers (two, then one), 2 documents, 1 request at a time; decline, void, expired links, abort anywhere | `CompletedIsConsistent`, `EventsAreTrue`, `NextSignerSeesPrior` | When requests do not overlap, even if they die half way, database, bucket and emails agree about a completion, events are true, and each later signer is shown what was signed. |
| `audit_chain` | 3 transactions of 1 or 2 appends, any may fail, fairness | `ChainIntact`, `KeepsLog`, `AppendEnds` | Whatever appends at once, the committed rows are one unbroken chain that only grows, and appends do not deadlock. |
| `webhooks` | 1 event, 2 endpoints, 2 crons that may overlap, 3 attempts, deaths, fairness | `NotSentAgain`, `EveryDeliverySettles` | No answered delivery is sent again and no more than `MaxAttempts` attempts are made, POSTs or refusals of the guard, while runs neither overlap nor die; every row is settled in the end. |
| `creation` | 3 requests, 2 of them live, 1 key, quota 1, deaths, fairness; 2 limiters, one slow, a map that is full with 1 bucket, 5 ticks, 1 restart | `OncePerKey`, `AnswerIsOwn`, `OvershootBounded`, `NoKeyStuck`, `RateIsKept` | A key creates once, answers are the caller's own, the quota is exceeded only by overlapping requests and by no more than those, no key is stuck for ever. A limiter in memory lets through no more than a full bucket and its refill in any span of time, but for a restart and a slow bucket that was pruned, and nobody who asks stays refused. |
| `billing` | 2 subscriptions, 4 changes, 3 events under way, fairness | `PaysForPlan`, `LapsedIsSwept` | Events handled in order, repeated or not, give exactly the plan that is paid for; a lapsed user is downgraded in the end whatever the order. |
| `access` | 2 requests, 2 links, 1 code, 3 pairs; the pages with 4 calls, 2 keys, 2 endpoints | `OneOfEach`, `OneLivePair`, `ShownIsTrue` | A link logs in once, an account has one default key, a grant one live pair unless its own exchanges overlap; the pages show what is true. |
| `signing_form` | 5 fields, 2 POSTs, 5 photos, 2 texts and an empty one, 2 fonts, 5 edits, 2 jobs | `CompleteIsRecorded`, `RequiredFilled`, `InkWhereAdopted`, `InkIsKept`, `PreviewIsChosen` | The page is right about what is recorded; signatures stand, in any field, only where they were put or where the keyboard had strayed beneath the modal, with all their ink and no paper. |
| `signing_pages` | 2 pages, 2 tickets, either snippet | `CompleteIsTrue`, `EntersAndViewsOnce` | Completion is shown and told only where it is true; a ticket lets one page in; a first view is announced once. |
| `docusign_import` | 4 templates, pages of 2, 1 retry, 2 runs, 1 change, pictures as high as their box or a tenth of it | `ReportIsTrue`, `InkWhereTabsWere` | The report says what was created, and names each selected template once; ink lands where the tabs were, but for the overhang and the foot of the page. |
| `clients` | 3 rows, 2 of which may be there at first, 2 times, 1 key that may be forgotten, limits 1 and 2, 1 late write, 2 calls | `LiveNeedsConfirmation`, `WalkIsComplete`, `RetryMakesOne` | Nothing live is emailed unconfirmed, a list read page by page is complete, a create repeated with its key while the key is kept makes one envelope. |
| `evidence` | 2 documents of one name or two, 1 to 4 signers, 0 to 16 old rows, 1 view, 2 emails, 2 files checked | `CertificateIsTrue`, `CertificateFits`, `MailIsOnRecord`, `VerdictIsOfFile` | The certificate is true and fits its pages, the rows tell which emails were handed to the mail service, a verdict is that on the file beside it. |

### Bounds, and why they are enough

- **Core.** `Slots` is the number of overlapping requests: two reach every race
  between a pair of handlers. Three signers is the least for which "the order
  between" exists and for which a batch can have two members; two documents the
  least for which a sealing can stop between two. Interleaving together with
  failures is not one run (its state space is beyond five minutes with three
  signers); the theorems cover the combination. `MaxConsents` and `MaxExpired`
  bound `ConsentRecord` rows and expired links.
- **Chain.** `MaxRows` stops new transactions once the chain has 2 rows; those
  under way still append. `MaxBatch` 2 is the least for which a transaction
  finds its own uncommitted row. Three transactions are the least for which one
  waits while another overtakes it.
- **Webhooks.** 3 attempts stand for 6: a first, a middle and a last one. A
  batch of 2 with two deliveries lets two crons hold the same rows in different
  order. The theorems hold for any number.
- **Creation.** Two requests race for a key while a third overlaps either; the
  theorems hold for any number.
- **Billing.** Two subscriptions are the least for which an event of an old one
  can disturb the new; 4 changes reach the failure and cancellation of both.
- **Access, Console.** Three pairs are an exchange and two rotations, the least
  for which an older token could come back. 4 calls are two changes with the
  fetches that follow them, in any order.
- **SigningForm, SignatureModal.** Two POSTs: a lost one and its retry. Two
  signature fields so that an adoption can end at the wrong one; a second edit
  to overtake a job, and three more to choose, switch and return.
- **SigningPages, EmbedHost.** Two pages race for a ticket, a signature or a
  message; with a second ticket both may be inside.
- **Import.** Pages of 2 and up to four templates: a page that is full, one that is not,
  and a change in between. Two runs: one interrupted, one repeated. `Shares` 10 and
  100 are on either side of where the picture's height decides the overhang.
- **Clients.** Two times for three rows, so that rows tie across the end of a
  page; limits of 1 and 2 stand for 25 and 100. The three ids are in any order with
  the times, since they are random.
- **RateLimit.** `MaxAge` 2 is between the time the quick limiter takes to fill
  up and the time the slow one takes (in the code: 1 minute, 10, and an hour or
  a day); a map that is full with one bucket is pruned by the other key. Four
  parts make refills that do not divide a token. The theorems hold for any.
- **Evidence.** Signers and rows vary one by one past the end of a page; the
  same names and different names for two documents, which are only compared, so
  that they are symmetric. `MaxRows` stops new transactions at 6 rows: a view, the
  completion, and two rows for each of two emails.

### Fairness

Weak fairness of a running step, everywhere it is assumed: `Step(s)` of the
core and of `AuditChain` (a statement that need not wait is answered), the
tasks and crons of `Webhooks`, requests of `Creation`. The runtime schedules
what runs, and each of its I/O calls answers or throws. Besides: time passes
(`Elapse`, `GraceElapses`), and the daily sweep comes (`Prune`, `SweepRead`).
The two writes of the sweep have strong fairness: a sweep may throw before it
reaches this user, but not every day for ever. Nothing is
assumed of people, clients, Stripe or endpoints: no one has to sign, retry, pay
or answer. `EveryDeliverySettles` and `AppendEnds` except behaviours in which
processes die, or transactions fail, for ever. The pages have no liveness
property: nobody has to press a button.

## 4. Proofs

All theorems are checked by TLAPS for every value of the constants, from the
`ASSUME` of the component and from the hypotheses named here.

| Theorem | States | Hypothesis |
|---|---|---|
| `EnvelopeProofs!TypeCorrect` | `Spec => []TypeOK` | |
| `EnvelopeProofs!SignedWithConsent` | `Spec => []ConsentBeforeSigning` | |
| `EnvelopeProofs!SentIsOnRecord` | `Spec => []EvidenceFollowsSend` | |
| `EnvelopeProofs!CompletionEarned` | `Spec => []CompletionIsEarned` | |
| `EnvelopeProofs!InvitedInTurn` | `Spec => []NotifiedInTurn` | |
| `EnvelopeProofs!TrueEvents` | `Spec => []EventsAreTrue` | |
| `EnvelopeProofs!ImplementsCeremony` | `Spec => KeepsPromise` | |
| `EnvelopeProofs!CompletionNotLost` | `Spec => []NoLostCompletion` | nothing aborts |
| `EnvelopeProofs!CompletedConsistent` | `Spec => []CompletedIsConsistent` | one request at a time, distinct names |
| `EnvelopeProofs!NextSeesPrior` | `Spec => NextSignerSeesPrior` | one request at a time, distinct names |
| `EvidenceProofs!TypeCorrect` | `Spec => []TypeOK` | |
| `EvidenceProofs!ChainStaysIntact` | `Spec => []ChainIntact` | |
| `EvidenceProofs!ChainIsAppendOnly` | `Spec => KeepsLog` | |
| `EvidenceProofs!ChainVerifies` | `Spec => []Verifies` | entries are stored as hashed |
| `EvidenceProofs!EvidenceHolds` | `EvidenceSpec => []EvidenceInv` | entries are stored as hashed |
| `EvidenceProofs!EvidenceKeepsChain` | `EvidenceSpec => Spec` (the chain's) | |
| `EvidenceProofs!CertificateHolds` | `EvidenceSpec => []CertificateIsTrue` | entries are stored as hashed |
| `EvidenceProofs!MailHolds` | `EvidenceSpec => []MailIsOnRecord` | entries are stored as hashed |
| `EvidenceProofs!VerdictHolds` | `EvidenceSpec => []VerdictIsOfFile` | entries are stored as hashed |
| `EvidenceProofs!CertificateFitsPages` | `EvidenceSpec => []CertificateFits` | |
| `EvidenceProofs!EvidenceTypes` | `EvidenceSpec => []EvidenceTypeOK` | entries are stored as hashed |
| `WebhookProofs!TypeCorrect` | `Spec => []TypeOK` | |
| `WebhookProofs!DeliveredReceived` | `Spec => []DeliveredIsReceived` | |
| `WebhookProofs!NoneInvented` | `Spec => []NoAttemptInvented` | |
| `WebhookProofs!AnsweredOnce` | `Spec => []NotSentAgain` | |
| `PlanProofs!TypeCorrect` | `Spec => []TypeOK` (of `Creation`) | |
| `PlanProofs!OneEnvelopePerKey` | `Spec => []OncePerKey` | |
| `PlanProofs!AnsweredWithOwn` | `Spec => []AnswerIsOwn` | |
| `PlanProofs!QuotaWithin` | `Spec => []OvershootBounded` | |
| `PlanProofs!PlanHolds` | `BillingSpec => []BillingInv` | |
| `PlanProofs!PlanTypes` | `BillingSpec => []BillingTypeOK` | |
| `PlanProofs!PlanIsPaid` | `BillingSpec => []PaysForPlan` | |
| `PlanProofs!LimitHolds` | `LimitSpec => []LimitInv` | |
| `PlanProofs!RateKept` | `LimitSpec => []RateIsKept` | |
| `AccessProofs!AccessHolds` | `Spec => []AccessInv` | |
| `AccessProofs!PagesAreAccess` | `ConsoleSpec => Spec` (of `Access`) | |
| `AccessProofs!EachOnce` | `ConsoleSpec => []OneOfEach` | |
| `AccessProofs!PairOfGrant` | `ConsoleSpec => []OneLivePair` | |
| `AccessProofs!PagesShowTruth` | `ConsoleSpec => []ShownIsTrue` | |
| `PagesProofs!PagesHold` | `HostSpec => []HostInv` | |
| `PagesProofs!CompleteHolds` | `HostSpec => []CompleteIsTrue` | |
| `PagesProofs!EntersOnce` | `HostSpec => []EntersAndViewsOnce` | |
| `FormProofs!ModalIsForm` | `ModalSpec => Spec` (of `SigningForm`) | |
| `FormProofs!FormHolds` | `Spec => []FormInv` | |
| `FormProofs!CompleteRecorded` | `ModalSpec => []CompleteIsRecorded` | |
| `FormProofs!RequiredHolds` | `ModalSpec => []RequiredFilled` | |
| `FormProofs!InkHolds` | `ModalSpec => []InkWhereAdopted` | |
| `FormProofs!PreviewHolds` | `ModalSpec => []PreviewIsChosen` | |
| `FormProofs!InkKept` | `ModalSpec => []InkIsKept` | a bounded canvas, legible photos |
| `ClientProofs!ClientHolds` | `Spec => []ClientInv` | |
| `ClientProofs!SendIsConfirmed` | `Spec => []LiveNeedsConfirmation` | |
| `ClientProofs!RetryIsOne` | `Spec => []RetryMakesOne` | |
| `ClientProofs!WalkMissesNone` | `Spec => []WalkIsComplete` | |
| `ClientProofs!ImportHolds` | `ImportSpec => []RunHeld` | |
| `ClientProofs!ReportHolds` | `ImportSpec => []ReportIsTrue` | |
| `ClientProofs!TabInkHolds` | `ImportSpec => []InkWhereTabsWere` | |

None of the properties is inductive by itself: what a row says was decided on by
a handler, a page or a client that read something long before. Every proof
states what each of them may rely on between its steps, and shows that no step
of another takes it away.

**The core**, for every set of recipients and signers, every routing order,
number of documents, field layout, number of concurrent requests and choice of
faults, from `CoreAssumption` (signers are recipients, orders are numbers,
there is at least one document). `Recipients` and `Slots` need not be finite.
`IInv` adds:

- `ConsentHeld`: the request about to stamp a consent has written the row, the
  one about to sign has seen the stamp. Neither is ever taken away.
- `SentHeld`: whoever runs a consent, or the tail of a send, runs after the
  audit row of the send.
- `SealHeld`: a sealing run knows every signer has signed, has loaded a
  positive version of each one's values, and all documents before its current
  one are sealed. This survives other sealing runs because those write files
  that also carry every signer, and survives resets of rows because it speaks
  of `signings`, which only grow, never of statuses.
- `SealingHeld` needs `SignedNow \subseteq HasSigned`: a row can lose SIGNED,
  but nothing else sets it.
- `TurnHeld`: a batch in a slot is in turn. Signatures only grow, and a
  recipient that was not PENDING never becomes so again.
- `EventsAreTrue` rests on the run having stamped the envelope, or on having
  read it stamped.

`SignaturesFrame`, `FilesFrame` and `OutsideFiles` are frame lemmas for the many
actions that touch none of it. The refinement maps `sent` to the audit row
rather than to the status, because the status moves on while the row stays.
`NoLostCompletion` is proved on top of `IInv`: the transaction that makes the
last row SIGNED leaves its own slot at `sign_recheck`, and a slot leaves the
path to completion only when the envelope is complete or some row is not SIGNED.

The two serial theorems are `core_serial` for any number of recipients and
documents, with every fault. `OneAtATime` says any two slots are one;
`DistinctNames` that documents do not share an object key, without which one
sealed file replaces another (section 5). `SerialInv` follows a sealing run
(`RunHeld`: the documents behind it are `SealedAs` this run would have them), a
flattening and the invitations after it (`FlattenHeld`: the files behind it show
everything signed so far), keeps the steps that overwrite a recipient's status
away from signers (`MarkHeld`), and says what rows and objects amount to
whichever request has died in between (`SignedHeld`, `CompletedHeld`).

**The chain**, for any number of transactions, batch sizes and entries, from
`ChainAssumption` (the JSON column maps entries to entries, and no transaction
is called `Nobody`). `ChainInv` says of all rows, uncommitted ones included,
that there is no gap below one (`DownClosed`), that everything above an
uncommitted row is of the same transaction (`OneWriter`), that each is linked
to the one before (`Linked`), and that a transaction about to insert holds the
hash of a row that cannot vanish under it (`ReadHeld`). No part mentions
`locked`: the unique index alone carries the proof, the row lock contributes
nothing to safety. `ChainVerifies` has the hypothesis that what is stored is
what was hashed; section 5 has the entry for which it is not.

**Evidence**, for any documents (of one name or several), jobs, entries and
overlapping appends. `EvidenceKeepsChain` shows the sealing run and its emails
take only steps of the chain, so `ChainInv` is theirs. `HashesNest`, that the
hash of a row begins with the hash of each row before it, is an induction along
the rows, made as a minimal counterexample; `Covers` and `HeadCovers` draw from
it that the chain head read after the rows covers them whichever rows were added
in between. `FilesHeld`, `ObjectsHeld` and `RolledHeld` follow the documents,
their objects and the best signature; `ReportHeld` and `CertificateHeld` the two
reads and what is printed; `MailHeld` and `RowsHeld` say which email a slot
works for and how far its email is (`StageHeld`), that a row not yet committed
is what its slot wants to tell (`OpenHeld`), and that a committed one is true of
its email (`ToldHeld`), which stays so since what was handed over or has thrown
is never taken back (`Firm`, `TrueStays`); `PageHeld` that the page waits only
when nothing changes any more. The proof found two definitions that said less
than they meant: `Wanted` and the profile in `CertificateIsTrue` were CASEs
whose guards overlapped, of which TLA+ does not say which arm is taken, while
TLC takes the first. They are exclusive now.

**Webhooks**, for any events, endpoints, crons, attempts and batch sizes. A row
says delivered because some process saw an answer; between the answer and the
write that process only holds a flag. `RowHeld` ties rows to answers and
attempts, `FirstHeld` a first attempt in `after()`, `RetryHeld` a cron run: the
attempt it is about to write has been made, and its flag is true only of an
answer. `attempt` is one more than a row that may since have changed, so
`NoAttemptInvented` needs that attempts are counted before any write.
`AnsweredOnce` says that while runs do not overlap a delivery is in one hand at a
time: not yet sent, with its first attempt, with one cron, or with nobody and
then a row that knows of every attempt and answer. The guard's refusals are
attempts in all of this: a row may count six of which none was posted.

**Creation**, for any requests and keys. `OneHolder` and `AtMostOne`: of
requests between claim and store at most one holds a key, thanks to the unique
index, and pruning cannot happen under it. `KeyHeld`, `ResultHeld` and
`StoredHeld` follow the envelope from the run to the answer stored; `OwnHeld`
that a replay compares the body before it reads the answer. `QuotaWithin` counts
together the envelopes and the requests past the check: those are at most the
quota plus the peak, less one, because whoever passes has seen a free place.

**Billing**, for any number of subscriptions, changes and events under way.
`KnownHeld` needs no order: a subscription Stripe has sold is the row's, or an
event that will make it so is still under way. In order, an event about a
subscription without a row has the one that makes the row before it
(`FirstHeld`); the last event that tells of a subscription (updated, deleted)
carries what it is, and a failed payment, or the checkout of a subscription
since canceled, is followed by one (`LastHeld`); the row is settled or told of
again (`RowHeld`), what the checkout handler retrieved is so or told again
(`FetchedHeld`), and the sweep takes a plan only of a row that is not active
(`SweepHeld`). `ChangeHeld` is one lemma for all of Stripe's changes,
`HandledHeld` for the handlers, `QuietHeld` for everything else.

**Access and its pages**, for any number of requests, links, codes and pairs.
`LinkHeld`: only one request is past the deletion of a link, and it has not
logged in yet; `DefaultHeld` ties default keys to the request that made the
user; `PairHeld` says what a request of the token endpoint was sent and mints;
`GrantHeld` that a grant whose exchanges do not overlap has one worker or one
live token (`OneWorker`), begins with its code and has one live key.
`PagesAreAccess` lets the pages inherit these. `ConsoleInv` adds, per page, what
a call whose answer is not seen yet will bring (`LoginHeld`, `KeysHeld`,
`HooksHeld`): a list on its way is what the server has, or another follows.
`AccessAssumption` and `ConsoleAssumption` say that the values standing for
"nothing" are no codes, pairs, rows or answers.

**Signing pages and their host**, for any number of pages, tickets and
messages. `AuthorHeld`: the values are written with the status, and once;
`EnterHeld`: a ticket that no two loads have read as fresh is read by one page,
and has let nobody in before; `ViewHeld` says the same of first views;
`HostHeld`: what is posted or told is of the page whose values are saved.

**Signing form and modal.** `FormInv`, for any fields and any number of posts:
every post under way, and the record, is sound (`Sound`: required fields filled
unless the keyboard slipped, signatures only where adopted or strayed), a form
says complete of its last post and nothing is recorded after it (`AnswerHeld`),
the dialog opens over a filled form, and a signature that waits for its font
waits on a field it was put on (`ModalHeld`). `ModalIsForm` lets the detailed
modal inherit it. `PhotoHeld`: without an overlap at most one job matters, and
it is of the last photo and choice. `InkKept` rests on lemmas about the
pictures, for any size of picture: cropping keeps the ink (`CropKeepsInk`),
removing the background keeps what is far enough from the paper (`StrippedInk`),
a stroke marks the canvas where it runs. `Legible` says what a photo must be for
the question to make sense: its pen marks are ink, and on light paper nothing
else is, within the threshold of the code. `FormAssumption` says that signatures
are neither boxes nor dates.

**Clients**, for any rows, keys, times and limits; `Ids` is finite because
cardinalities are taken. `NetHeld` says of every request on its way, awaited or
given up, that it fits the rows (`Fits`): a send on the way was confirmed or is
not live. `SendHeld` follows the tools that make two requests, `KeysHeld` ties
envelopes to the keys they were made under while these are remembered,
`WalkHeld` and `PageHeld` say that what is due is ahead of the cursor, in an
order that breaks ties of time by id. `ApiAssumption` says that limits are
positive.

**Rate limits**, for any limiters, sizes of the map and ages. `BudgetHeld` is
`WithinBudget`, the first half of `RateIsKept`, with what the bucket holds by now
added to what was let through: only so is it inductive, since a full bucket must
not have saved up more than is due. `FilledUp` says a bucket nothing was taken
from is full or has all of the refill since. The step that matters is a prune
(`OldIsFull`): a bucket that is old enough is full again and loses nothing, unless
it is a slow one. `LimitAssumption` says a bucket holds at least one token; the
refill may be 0.

**Import**, for any account, templates, files and page sizes, any size of the
pages of the listing, any number of runs, retries and changes, from
`ImportAssumption` (templates have documents, signers and copies in a row, the
coordinates of tabs are integers, an account lists no template twice, "none" is
no id, pages of the listing are not empty) `PdfAssumption` (pages have an
extent) and `SharesAssumption` (a picture's share of its box is a natural
number). `RunHeld` has two halves, checked by TLC before the proof.
`TemplatesHeld` says a template that is kept is what its source converts to,
that a field of an envelope is that of a tab of its source (`FieldHeld`:
document, role and place), and that ink is where its field is (`InkHeld`). The
hard lemma is `ResolveIs`: what the rows of a template, which only order
distinguishes, give back when they are sorted and the indices of documents and
roles are looked up is what they were made of. `Rounded` and `Upright` are the
arithmetic. The other half follows a run: `Listed` (until the account changes
the pages are a prefix of it), `Reached` (the templates before the current one
are in the report) and `Reported` (an entry says imported of a template that was
created for it; what was created is in one entry or its answer was lost).
`Reported` is inductive only because a template that was created is never on a
free row again, so that no later id repeats it. `SelectedIs` says of the filter
that it keeps what is wanted, all of it, once.

The **certificate** is laid out by `Certificate`, mark by mark as `certificate.ts`
moves its cursor down and breaks its pages. A page is sound (`Sound`) if nothing on
it is in the footer and no heading is torn; `Free(lo)` and `Headed(lo)` say besides
that the cursor is no lower than `lo`, with no heading open or with one opened on
this page. Each kind of block `Leads` from one of these to another, rows and
headings because of the `Need` before them; `Lays` says so of a sequence of
blocks of any length, and `LayoutFits` of the certificate. `EvidenceTypes` gives
ranges to the fields of a completion; `RestTyped` has those that `EvidenceInv` has
not.

**Only model-checked.** `SignedCompletesOrReset`, `AppendEnds`,
`EveryDeliverySettles`, `NoKeyStuck` and `LapsedIsSwept`: liveness properties, which
need fairness and ENABLED, out of this prover's reach. Every invariant and every
action property of a run is proved. Recursive functions (`Selected`, the hash of a
row, the layout of the certificate) are reasoned about by the least index that
would go wrong, since induction over data is out of reach too.

## 5. Where code, comments and expectations part

The models were written from the code, so each of these is a behaviour a model
has; the properties state them as exceptions (a history variable such as
`overlap`, `raced`, `orderly`, `slipped`, `strayed`, `overtaken`, `muddled` marks the
behaviours) or do not promise more.

**Core and chain**

- A notifier that chose its batch before a signature sets that row back to SENT
  (`app/api/sign/[token]/route.ts:364`), so a second submission matches again,
  although the comment at 168-170 says a signature is never overwritten. A
  fully signed envelope may then never see all rows SIGNED
  (`SignedCompletesOrReset`).
- A void that overlaps may overwrite COMPLETED
  (`app/api/v1/envelopes/[id]/route.ts:285`), and a request past its status
  check signs, and even completes, an envelope voided meanwhile.
- A flattening that began before the last signature may end after the sealing
  and point `signedKey` back to an unsealed file.
- A sealing that throws is not retriable: every signer is refused from then on
  and nothing else calls `sealAndComplete`.
- Two appends can compute the same `seq`: one that waited for the last row
  keeps it although it is no longer the last. The unique index refuses its
  insert, and the handler fails after its other writes. A refused append is
  not made up for: a consent whose row was refused stays stamped without it.
- A decline without a reason is hashed with `reason: undefined`, which the JSON
  column drops: verification then reports the envelope as broken.
- The send's `logAudit` runs inside its transaction without `tx`: its row
  survives a rollback, and it takes a second connection of the pool while the
  first is held, so enough sends at once may exhaust the pool.
- Two consent posts of one signer write two `ConsentRecord` rows; two last
  signers may both pass the guard of the sealing, so the certificate and
  `completedAt` are written twice; parallel signers may leave the older of two
  flattened files in place.

**Webhooks, creation, billing, access**

- A delivery row is written only after its first attempt, in `after()`: a
  process that dies in between loses the event. Overlapping crons post one
  attempt twice. A retry carries another event id than the first attempt, so a
  receiver cannot drop it by id. `vercel.json` runs the cron daily, `README.md:58`
  says every 5 minutes.
- An attempt that the SSRF guard refuses (`lib/webhooks.ts:37-43`) counts like one
  that was posted: a delivery may be given up although nothing was ever sent.
- A replay is refused at the quota, or by the rate limit, before its key is
  looked up.
- `Subscription.userId` is unique, so the row of a second subscription is
  refused while the first one's remains. Events out of order can restore a paid
  plan or keep a lapsed one (`PaysForPlan` needs `orderly`).
- A code is marked used, and a refresh token revoked, without a condition: two
  overlapping requests both mint pairs (`OneLivePair` needs `raced` empty).
- Revoking the access key of an MCP client in the dashboard leaves its refresh
  token, although `app/oauth/authorize/page.tsx:86` calls it revocable.

- A prune (`lib/token-bucket.ts:37`) forgets buckets after 10 minutes, which
  `oauthDcr`, `signup` and `youngLiveSend` need hours to fill: their keys begin
  with a full bucket again (`WithinBudget` excepts a slow limiter). It happens
  only when a request is refused: keys that are let through once grow the map
  although line 32 says it cannot grow unbounded. The fallback lets
  `envelope:free` through 5 times a minute, where Upstash allows 10 an hour,
  although `rate-limit.ts:26-27` speaks of tighter limits.

**Pages**

- An embedded page reloads after consent (`signing-form.tsx:258`) and then
  presents its single-use ticket again, which is used.
- The keyboard reaches a required input beneath the confirm dialog, which does
  not look again (`RequiredFilled` needs `slipped` false).
- The keyboard reaches the inputs beneath the open signature modal as well: a
  focus makes its field the active one (`pdf-viewer.tsx:170`,
  `signing-form.tsx:290`), and adopting stamps the active field
  (`signing-form.tsx:341-344`), so the picture may end up as the value of a text
  field. `InkWhereAdopted` speaks of the values of all fields and excepts the
  inputs in `strayed`, those that were focused so.
- "Nothing you do here is saved" of the sender's preview is not so: it posts
  like any other page.
- `signature-image.ts:4-6` says every adopted signature is transparent and
  ink-tight. A photo on dark paper, one whose background is kept and an image
  that is more than 2% transparent keep what surrounds the ink.
- Overlapping uploads and switches may show another photo or choice than the
  last; choosing the same file again fires no event; a stroke under way is not
  rescaled on resize, not exported, and survives a change of tab.
- `embed.js` does not compare `event.source`: of two embeddings the other's
  `onComplete` may be called, and it stops listening after the first message.
- The webhook manager shows a switch or a removal as done whatever was
  answered. A key whose answer is lost is live with a secret nobody saw.
- The login page names an address edited while it loads, and tells an address
  that the beta does not admit "Link sent". A consent decision without a
  session loses the request.

**Clients, import, templates**

- `sdk-js/src/client.ts:474`, `sdk-python/swiftsign/client.py:175-176` and
  `sdk-python/README.md:66` say a retried call will not create a duplicate: the
  generated key is fresh in every call, so only a caller's own key helps
  (`RetryMakesOne`), and that for a day: the sweep prunes keys older than that
  (`lib/idempotency.ts:6`, `ForgetKey`), and a repeat that comes later makes another
  envelope. The MCP tools send none.
- `tools.ts` says "Scoped to your key's mode" of templates, which have no mode.
- A listing by offset skips or repeats templates when the account changes; an
  answer to a creation that is lost is reported as failed, and the next run
  creates it again.
- An imported tab that hangs on an anchor ends at page 1, (0,0): the comment at
  `mcp/src/docusign/map.ts:376` leaves it to the server, but an envelope from a
  template does not resolve the anchors of its fields. Turned pages are turned
  by the importer and the signing page, and sealed unturned.
- Pictures are not drawn where the other values are (`seal.ts:249-257`): a
  signature hangs below its box by 12 % of the box, 18 % of the picture or 3
  points, whichever is least, and a box that reaches below the page has its
  picture raised to the page's edge, while the text of other fields stays low.

**Evidence**

- Documents of one name share object keys and one entry of `documentHashes`.
  With two documents or more the printed line of hashes runs over the margin.
- The certificate states the best signature of any document, although another
  may be unsigned; the comment at `seal-and-complete.ts:55-56` says "otherwise
  the last document's profile", but an unsigned last document leaves that of one
  before; "drawn" also for typed and uploaded signatures; one IP for two signers
  of one email; and a time stamp that is the application's clock.
- Resend answers a refused email with an `error` in its result, which
  `auth/send/route.ts:42` reads and `sendCompleted` (`email.ts:84`) drops: the trail
  says EMAIL_SENT of an email that never left (`seal-and-complete.ts:300-314`).
  `MailIsOnRecord` promises that it was handed over and had a file or links in it,
  not that it left.
- Completion emails append to one chain at once: one that went out may have its
  row refused, or the answer to its COMMIT lost, and then be logged as bounced.
  A refused `ENVELOPE_COMPLETED` row, or a link that cannot be made, means no
  completion emails at all.
- `/verify` shows the last answer beside the last file dropped.

## 6. Plan

What is left: the liveness properties for every value of the constants, with a
prover that has ENABLED and fairness.

## 7. Not modelled

- **Rate limiting.** The sliding windows are Upstash's; in the other models every
  limited route may refuse. Which header names the client's address and the
  headers of the reply (`reset` is always a minute ahead in the fallback) are not
  modelled.
- **Bytes.** Rendering of pages, fonts, ASN.1 of signatures and tokens, image
  re-encoding, the widths of printed lines: no protocol state.
- **Adapters.** The clients of R2, Resend and DNS are thin; their failures are
  aborts and bounces. Resend may return an error instead of throwing
  (`refused` of `Evidence`); the other emails of `email.ts` drop it too, and the core
  calls an email mailed when its call has returned.
- **Dashboard lists and feed, pricing, guides, docs, OpenAPI, scripts**: they
  show rows or text.
- **Renaming a template**, accepting new terms, the session card: single writes
  that nothing modelled reads.
- **Sign-in of the importer** (OAuth against DocuSign): part of `BeginRun`.
