------------------------------- MODULE Evidence -------------------------------
(***************************************************************************)
(* What is left of a completed envelope for others to rely on: the signed  *)
(* files, the certificate that describes them, the rows and emails that    *)
(* report the completion, and the public page that checks a file.          *)
(*                                                                         *)
(* One run of sealAndComplete, step by step, while other requests append   *)
(* to the same audit chain; its completion emails go out in parallel and   *)
(* append to it too.  (Runs that compete are the subject of Sealing.)      *)
(***************************************************************************)
EXTENDS AuditChain, Certificate, FiniteSets

CONSTANTS
  DocCount,    \* documents of the envelope
  FileNames,   \* their names, part of the object keys
  Jobs,        \* the slots of the completion emails, one for each reader
  Own,         \* the one that sealAndComplete itself logs with
  MaxSigners,  \* bounds on the signers, on the rows from before the chain,
  MaxLegacy,   \* on the rows that other requests add
  MaxVisits,
  MaxDrops,    \* and on the files dropped on the page that verifies them
  Nothing

Docs == 1..DocCount

Profiles == {"unsigned", "CAdES-BES", "CAdES-T"}
Files    == [doc : Docs, sig : Profiles \cup {"original"}]

ASSUME EvidenceAssumption ==
  /\ DocCount \in Nat \ {0}
  /\ Own \in Jobs /\ Jobs \subseteq Slots
  /\ Nothing \notin Files
  /\ MaxSigners \in Nat /\ MaxRows \in Nat /\ MaxLegacy \in Nat

VARIABLES
  name,         \* Document.name
  signs,        \* SIGNING_ENABLED, and the envelope is a live one
  at,           \* the next step of sealAndComplete
  doc,          \* its current document
  final,        \* finalPdf: the bytes of that document
  rolled,       \* certSignatureProfile and certTsaTime
  objects,      \* the bucket's objects under sealed/{envelopeId}/
  signedKey,    \* the documents whose signedKey is set
  recorded,     \* Document.documentHash, as the bytes that were hashed
  hashes,       \* documentHashes, by name
  trail,        \* the chained rows that the run has read for the certificate
  chainHead,    \* and the head of the chain, as verifyChain gave it
  certificate,  \* the certificate in the bucket
  completed,    \* the envelope is COMPLETED
  letter,       \* what the completion emails carry
  mail,         \* how far each of them is
  left,         \* those that the mail service has taken
  refused,      \* those it has refused in its answer, which nobody reads
  unlogged,     \* history: those whose EMAIL_SENT has thrown
  page          \* the page /verify in someone's browser

files  == <<objects, signedKey, recorded, hashes>>
report == <<trail, chainHead, certificate>>
post   == <<letter, mail, left, refused, unlogged>>
setup  == <<name, signs>>
sealing == <<at, doc, final, rolled>>
evidenceVars == <<setup, sealing, files, report, completed, post, page, vars>>

-----------------------------------------------------------------------------
\* Files are told apart by the document, and by the signature they carry.
File(d, sig) == [doc |-> d, sig |-> sig]
Original(d)  == File(d, "original")

EvidenceInit ==
  /\ Init
  /\ name \in [Docs -> FileNames]
  /\ signs \in BOOLEAN
  /\ at = "sign" /\ doc = 1 /\ final = Nothing
  /\ rolled = [profile |-> "unsigned", stamp |-> 0]
  /\ objects = [f \in FileNames |-> Nothing]
  /\ signedKey = {}
  /\ recorded = [d \in Docs |-> Nothing]
  /\ hashes = [f \in FileNames |-> Nothing]
  /\ trail = {} /\ chainHead = Genesis /\ certificate = Nothing
  /\ completed = FALSE
  /\ letter = [attached |-> {}, links |-> {}]
  /\ mail = [j \in Jobs |-> "due"]
  /\ left = {} /\ refused = {} /\ unlogged = {}
  /\ page = [named |-> Nothing, asked |-> {}, shown |-> Nothing, drops |-> 0,
             overlapped |-> FALSE]

\* The order of the steps once the last document is done.
After(step) ==
  CASE step = "documents" -> "trail" [] step = "trail" -> "head"
    [] step = "head" -> "certify" [] step = "certify" -> "complete"
    [] step = "complete" -> "log" [] step = "log" -> "load"

-----------------------------------------------------------------------------
\* requestOne: a time-stamp authority answers with a token, or it does not: it
\* is slow, unreachable, or its answer is an error or cannot be read.
Answered == BOOLEAN

\* getTimestampToken: the second authority is asked if the first fails.
Timestamped(primary, fallback) == primary \/ fallback

\* loadSigningCert finds the PKCS#12 file, or throws.
Found == BOOLEAN

\* embedTimestampToken finds the place of the token in the signature, or throws.
Embedded == BOOLEAN

\* PadesSigner: without its key nothing is signed; without a time stamp, or if
\* it cannot be embedded, the signature stays at CAdES-BES.
Signature(found, timestamped, embedded) ==
  CASE ~found                              -> "unsigned"
    [] found /\ timestamped /\ embedded    -> "CAdES-T"
    [] found /\ ~(timestamped /\ embedded) -> "CAdES-BES"

\* signPdfBuffer, whose result may also be too long for the placeholder.
SignPdfBuffer ==
  {"unsigned"} \cup
  {Signature(found, Timestamped(primary, fallback), embedded) :
     found \in Found, primary \in Answered, fallback \in Answered,
     embedded \in Embedded}

\* Mutation: the last signed document counts.
RollUpLast(r, f) ==
  [profile |-> f.sig, stamp |-> IF f.sig = "CAdES-T" THEN f.doc ELSE 0]

\* CAdES-T is sticky; the time is that of the document it was achieved for.
RollUp(r, f) ==
  IF r.profile = "CAdES-T" THEN r
  ELSE [profile |-> f.sig, stamp |-> IF f.sig = "CAdES-T" THEN f.doc ELSE 0]

\* Documents of a sandbox envelope are not signed.  An error leaves the flattened
\* bytes, and the certificate says nothing of it.
Sign ==
  /\ at = "sign"
  /\ \E sig \in IF signs THEN SignPdfBuffer ELSE {"unsigned"} :
       /\ final' = File(doc, sig)
       /\ rolled' = IF sig = "unsigned" THEN rolled ELSE RollUp(rolled, final')
  /\ at' = "upload"
  /\ UNCHANGED <<setup, doc, files, report, completed, post, page, vars>>

Upload ==
  /\ at = "upload"
  /\ objects' = [objects EXCEPT ![name[doc]] = final]
  /\ at' = "record"
  /\ UNCHANGED <<setup, doc, final, rolled, signedKey, recorded, hashes,
                 report, completed, post, page, vars>>

Record ==
  /\ at = "record"
  /\ signedKey' = signedKey \cup {doc}
  /\ recorded' = [recorded EXCEPT ![doc] = final]
  /\ hashes' = [hashes EXCEPT ![name[doc]] = final]
  /\ at' = IF doc < DocCount THEN "sign" ELSE After("documents")
  /\ doc' = IF doc < DocCount THEN doc + 1 ELSE doc
  /\ UNCHANGED <<setup, final, rolled, objects, report, completed, post, page,
                 vars>>

-----------------------------------------------------------------------------
\* getAuditTrail; rows from before the chain are counted in Certify.
ReadTrail ==
  /\ at = "trail"
  /\ trail' = Committed
  /\ at' = After("trail")
  /\ UNCHANGED <<setup, doc, final, rolled, files, chainHead, certificate,
                 completed, post, page, vars>>

ChainOk == \A n \in Committed : RowVerifies(n)

\* No head if the chain is broken, or empty.
ReadHead ==
  /\ at = "head"
  /\ chainHead' = IF ~ChainOk \/ Committed = {} THEN Genesis
                  ELSE rows[CHOOSE n \in Committed :
                              \A m \in Committed : m <= n].rowHash
  /\ at' = After("head")
  /\ UNCHANGED <<setup, doc, final, rolled, files, trail, certificate,
                 completed, post, page, vars>>

\* Everything that can be printed, and how it turns out.
Printed(signers, lines, profile, hasHead) ==
  LET layout == Layout(signers, lines, profile, hasHead)
  IN  [lines |-> lines, profile |-> profile, hasHead |-> hasHead,
       fits |-> layout.low > FooterTop, torn |-> layout.torn]

Prints == {Printed(signers, lines, profile, hasHead) :
             signers \in 1..MaxSigners, lines \in 0..(MaxRows + MaxLegacy),
             profile \in Profiles, hasHead \in BOOLEAN}

\* For any number of signers and of rows from before the chain.
Certify ==
  /\ at = "certify"
  /\ \E p \in Prints :
       /\ p.profile = rolled.profile /\ p.hasHead = (chainHead # Genesis)
       /\ p.lines \in Cardinality(trail)..(Cardinality(trail) + MaxLegacy)
       /\ certificate' = [fits |-> p.fits, torn |-> p.torn,
                          profile |-> rolled.profile, stamp |-> rolled.stamp,
                          rows |-> trail, head |-> chainHead]
  /\ at' = After("certify")
  /\ UNCHANGED <<setup, doc, final, rolled, files, trail, chainHead, completed,
                 post, page, vars>>

Complete ==
  /\ at = "complete"
  /\ completed' = TRUE
  /\ at' = After("complete")
  /\ UNCHANGED <<setup, doc, final, rolled, files, report, post, page, vars>>

\* Any of these steps may throw: nothing catches it and nobody tries again.
Fail ==
  /\ at \in {"sign", "upload", "record", "trail", "head", "certify",
             "complete", "log", "load"}
  /\ at' = "failed"
  /\ UNCHANGED <<setup, doc, final, rolled, files, report, completed, post,
                 page, vars>>

-----------------------------------------------------------------------------
\* What each slot appends to the chain.
Visits == {n \in DOMAIN rows : rows[n].entry[1] = "DOCUMENT_VIEWED"}

Wanted(t) ==
  IF t \notin Jobs THEN <<"DOCUMENT_VIEWED", t>>
  ELSE CASE at = "logging"                      -> <<"ENVELOPE_COMPLETED", t>>
         [] at = "mail" /\ mail[t] = "sending"  -> <<"EMAIL_SENT", t>>
         [] at = "mail" /\ mail[t] = "bouncing" -> <<"EMAIL_BOUNCED", t>>

Begin(t) == Start(t) /\ todo'[t] = 1

Append1(t) ==
  \/ Read(t) \/ Lock(t)
  \/ Insert(t) /\ rows'[seen[t] + 1].entry = Wanted(t)

NotAdded(t) == Refuse(t) \/ Abort(t)

\* Another request, whenever it comes.
Visit(t) ==
  /\ t \notin Jobs
  /\ \/ Begin(t) /\ Cardinality(Visits) < MaxVisits
     \/ Append1(t) \/ Commit(t) \/ NotAdded(t)
  /\ UNCHANGED <<setup, sealing, files, report, completed, post, page>>

\* logAudit ENVELOPE_COMPLETED.  It throws if its row is refused or the answer to
\* its COMMIT is lost, and then no email goes out at all.
LogCompleted ==
  /\ \/ at = "log" /\ Begin(Own) /\ at' = "logging"
     \/ at = "logging" /\ Append1(Own) /\ UNCHANGED at
     \/ at = "logging" /\ Commit(Own) /\ at' \in {After("log"), "failed"}
     \/ at = "logging" /\ NotAdded(Own) /\ at' = "failed"
  /\ UNCHANGED <<setup, doc, final, rolled, files, report, completed, post,
                 page>>

\* Mutation: the links are for files that are too large, only.
LinksIfLarge(loaded, large) ==
  IF large THEN [attached |-> {}, links |-> signedKey]
  ELSE [attached |-> loaded, links |-> {}]

\* What the emails carry: the files that could be read back, if they are small
\* enough; a link to each if they are not, or if none could be read.
Carried(loaded, large) ==
  IF large \/ loaded = {} THEN [attached |-> {}, links |-> signedKey]
  ELSE [attached |-> loaded, links |-> {}]

LoadAttachments ==
  /\ at = "load"
  /\ \E loaded \in SUBSET signedKey, large \in BOOLEAN :
       letter' = Carried(loaded, large)
  /\ at' = "mail"
  /\ UNCHANGED <<setup, doc, final, rolled, files, report, completed, mail,
                 left, refused, unlogged, page, vars>>

\* sendCompleted returns, even if the service has answered with an error; or
\* it throws.
Send(j) ==
  \/ /\ mail' = [mail EXCEPT ![j] = "sent"]
     /\ \/ left' = left \cup {j} /\ UNCHANGED refused
        \/ refused' = refused \cup {j} /\ UNCHANGED left
  \/ mail' = [mail EXCEPT ![j] = "failed"] /\ UNCHANGED <<left, refused>>

\* EMAIL_SENT for an email whose call has returned, EMAIL_BOUNCED for the others.
LogEmail(j) ==
  /\ mail[j] \in {"sent", "failed"} /\ Begin(j)
  /\ mail' = [mail EXCEPT ![j] = IF @ = "sent" THEN "sending" ELSE "bouncing"]
  /\ UNCHANGED unlogged

\* If EMAIL_SENT throws, its row refused or the answer to its COMMIT lost, then
\* EMAIL_BOUNCED is tried, for an email that has gone out; if that throws, nothing.
LogFails(j) ==
  /\ mail[j] \in {"sending", "bouncing"}
  /\ NotAdded(j) \/ Commit(j)
  /\ mail' = [mail EXCEPT ![j] = IF @ = "sending" THEN "failed" ELSE "ended"]
  /\ unlogged' = IF mail[j] = "sending" THEN unlogged \cup {j} ELSE unlogged

Logged(j) ==
  /\ mail[j] \in {"sending", "bouncing"} /\ Commit(j)
  /\ mail' = [mail EXCEPT ![j] = "ended"]
  /\ UNCHANGED unlogged

LogGoesOn(j) ==
  /\ mail[j] \in {"sending", "bouncing"} /\ Append1(j)
  /\ UNCHANGED <<mail, unlogged>>

\* An email, and its row.
Email(j) ==
  /\ at = "mail"
  /\ \/ mail[j] = "due" /\ Send(j) /\ UNCHANGED <<unlogged, vars>>
     \/ /\ LogEmail(j) \/ LogGoesOn(j) \/ Logged(j) \/ LogFails(j)
        /\ UNCHANGED <<left, refused>>
  /\ UNCHANGED <<setup, sealing, files, report, completed, letter, page>>

-----------------------------------------------------------------------------
\* What the document and download routes hand out of a sealed envelope.
HandedOut == {objects[name[d]] : d \in signedKey}

\* POST /api/verify, by file.
VerifyFile(f) ==
  [matched |-> \E d \in Docs : recorded[d] = f, intact |-> ChainOk]

\* Mutation: the verdict on the file before stays on the page.
ClearedNot(shown) == shown
Cleared(shown) == Nothing

\* Someone drops a file on the page, which takes another while it waits.
DropFile(f) ==
  /\ page.drops < MaxDrops /\ f \notin page.asked
  /\ page' = [page EXCEPT !.named = f, !.asked = @ \cup {f},
                          !.shown = Cleared(@), !.drops = @ + 1,
                          !.overlapped = @ \/ page.asked # {}]
  /\ UNCHANGED <<setup, sealing, files, report, completed, post, vars>>

\* An answer, or an error; it is not compared with the file last dropped.
ShowVerdict(f) ==
  /\ f \in page.asked
  /\ \E shown \in {VerifyFile(f), Nothing} :
       page' = [page EXCEPT !.asked = @ \ {f}, !.shown = shown]
  /\ UNCHANGED <<setup, sealing, files, report, completed, post, vars>>

\* Bound: files are checked once the run has ended, while nobody appends, and
\* every email that went out is in the trail (the page knows of none).
Check ==
  /\ at = "failed" \/ \A j \in Jobs : mail[j] = "ended"
  /\ unlogged = {}
  /\ \A t \in Slots : pc[t] = "idle"
  /\ \E f \in {Original(1)} \cup HandedOut : DropFile(f) \/ ShowVerdict(f)

EvidenceNext ==
  \/ Sign \/ Upload \/ Record \/ ReadTrail \/ ReadHead \/ Certify \/ Complete
  \/ Fail \/ LogCompleted \/ LoadAttachments
  \/ \E t \in Slots : Visit(t)
  \/ \E j \in Jobs : Email(j)
  \/ Check

EvidenceSpec == EvidenceInit /\ [][EvidenceNext]_evidenceVars

-----------------------------------------------------------------------------
EvidenceTypeOK ==
  /\ TypeOK
  /\ name \in [Docs -> FileNames] /\ signs \in BOOLEAN
  /\ doc \in Docs
  /\ rolled.profile \in Profiles
  /\ rolled.stamp \in 0..DocCount
  /\ signedKey \subseteq Docs
  /\ trail \subseteq Nat /\ chainHead \in Hashes
  /\ completed \in BOOLEAN
  /\ left \subseteq Jobs /\ refused \subseteq Jobs /\ unlogged \subseteq Jobs
  /\ mail \in [Jobs -> {"due", "sent", "failed", "sending", "bouncing",
                        "ended"}]

Sigs == {recorded[d].sig : d \in signedKey}

\* What the certificate states is true of the files and of the chain.  It claims
\* the best signature that any document got and a time that goes with it, never
\* one that none has; and its chain head covers each row it lists and is that of
\* a row the chain still has, although rows are added while it is made.
CertificateIsTrue ==
  certificate # Nothing =>
    /\ certificate.profile =
         IF "CAdES-T" \in Sigs THEN "CAdES-T"
         ELSE IF "CAdES-BES" \in Sigs THEN "CAdES-BES" ELSE "unsigned"
    /\ certificate.profile = "CAdES-T" =>
         recorded[certificate.stamp].sig = "CAdES-T"
    /\ \A n \in certificate.rows :
         /\ n <= Len(certificate.head)
         /\ SubSeq(certificate.head, 1, n) = rows[n].rowHash
    /\ certificate.head # Genesis =>
         rows[Len(certificate.head)].rowHash = certificate.head

\* With any number of signers and rows nothing is printed over the footer, and
\* no section or signer has its heading on one page and its lines on the next.
CertificateFits ==
  certificate # Nothing => certificate.fits /\ ~certificate.torn

\* The trail says EMAIL_SENT of an email only if it has left, or if the service
\* refused it and that answer was dropped, and the email had a file or a link to
\* each in it.  It says EMAIL_BOUNCED of one that was handed to the service only if
\* the append of EMAIL_SENT had thrown before: otherwise no email has both rows,
\* and none that has left is said to have bounced, whichever appends of other
\* requests get in between or are refused.
MailIsOnRecord ==
  \A n \in Committed :
    LET j == rows[n].entry[2]
    IN  /\ rows[n].entry[1] = "EMAIL_SENT" =>
             /\ j \in left \cup refused
             /\ letter.attached # {} \/ letter.links = Docs
        /\ (rows[n].entry[1] = "EMAIL_BOUNCED" /\ j \in left \cup refused) =>
             j \in unlogged

\* The verdict on the page is that on the file it names, unless another file was
\* dropped while it waited: a file of a completed envelope is recognised, one
\* that was never sealed is not.
VerdictIsOfFile ==
  (page.shown # Nothing /\ ~page.overlapped) =>
    /\ page.shown.matched => page.named.sig # "original"
    /\ (completed /\ page.named \in HandedOut) =>
         page.shown.matched /\ page.shown.intact
===============================================================================
