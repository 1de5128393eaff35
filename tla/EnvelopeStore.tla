---------------------------- MODULE EnvelopeStore ----------------------------
(***************************************************************************)
(* What one envelope leaves in Postgres and in the R2 bucket, and the      *)
(* requests in flight on it.  Every handler module of the signing core     *)
(* extends this one: the handlers share no memory, they meet only here.    *)
(*                                                                         *)
(* A step is one database statement, one database transaction, one object  *)
(* upload or one email, the grain at which requests interleave (Postgres   *)
(* runs them at READ COMMITTED).  What a handler read and still relies on  *)
(* is kept in its slot: that is where stale reads come from.               *)
(***************************************************************************)
EXTENDS Naturals, FiniteSets

CONSTANTS
  Recipients,   \* the envelope's Recipient rows
  Signers,      \* those with role SIGNER; the others are CC
  Order,        \* routingOrder of each recipient
  DocCount,     \* number of Document rows, numbered 1..DocCount by `order`
  Name,         \* file name of each document, part of its object keys
  Owners,       \* for each document, the recipients owning a field on it
  Slots,        \* requests that may be in flight at once
  Kinds,        \* the requests clients issue in this instance
  Faults,       \* "abort": a request may throw or die; "expire": links expire
  MaxConsents,  \* bound on the ConsentRecord rows of one recipient
  MaxExpired,   \* bound on the links that expire
  NoOne         \* the actor of a request made by the sender

Docs == 1..DocCount

ASSUME CoreAssumption ==
  /\ Signers \subseteq Recipients
  /\ NoOne \notin Recipients
  /\ Order \in [Recipients -> Nat]
  /\ DocCount \in Nat \ {0}
  /\ Owners \in [Docs -> SUBSET Recipients]

VARIABLES
  status,       \* Envelope.status
  completedAt,  \* Envelope.completedAt: 0 is null, else the sealing run
  rstatus,      \* Recipient.status
  consentedAt,  \* recipients whose consentedAt is set
  consents,     \* number of ConsentRecord rows of each recipient
  signings,     \* signing transactions each recipient has committed: the
                \* version of its field values; > 0 iff tokenUsedAt is set
  expired,      \* recipients whose tokenExpiresAt has passed
  signedKey,    \* Document.signedKey
  documentHash, \* Document.documentHash, as the bytes that were hashed
  objects,      \* the bucket's PDFs under sealed/{envelopeId}/
  certificate,  \* the bucket's certificates/{envelopeId}/certificate.pdf
  audit,        \* the AuditLog rows, as a set of facts <<event, actor>>
  scheduled,    \* webhook events handed to emit()
  mailed,       \* recipients whose signing link has been emailed
  delivered,    \* PDFs attached to completion emails that went out
  runs,         \* sealing runs started so far (each stamps its own bytes)
  pc, who,      \* a slot's next step, and the recipient it acts for
  batch,        \* recipients a send or a notifier still has to process
  view,         \* field values a sealing or flattening run has loaded
  listed,       \* signers a sealing run will print on the certificate
  doc, run      \* its current document, and its run number

row    == <<status, completedAt>>
people == <<rstatus, consentedAt, consents, signings, expired>>
files  == <<signedKey, documentHash, objects, certificate, delivered, runs>>
log    == <<audit, scheduled, mailed>>
load   == <<view, listed, doc, run>>
slot   == <<pc, who, batch, view, listed, doc, run>>
vars   == <<row, people, files, log, slot>>

-----------------------------------------------------------------------------
Statuses  == {"DRAFT", "SENT", "COMPLETED", "DECLINED", "VOIDED"}
RStatuses == {"PENDING", "SENT", "SIGNED", "DECLINED"}
Folders   == {"flattened", "sealed"}
Names     == {Name[d] : d \in Docs}
Keys      == Folders \X Names

\* The bytes of a PDF: whose field values are baked in, at which version, and
\* which sealing run signed and timestamped it (0: none).
Contents == [baked : [Recipients -> Nat], run : Nat]
NoValues == [r \in Recipients |-> 0]

\* The original file.  It also stands for a null hash and for an object that
\* was never uploaded; a sealed file differs from it by its run.
Original == [baked |-> NoValues, run |-> 0]

\* A run bakes into document d the loaded values of the fields that lie on it.
Baked(d, values, n) ==
  [baked |-> [r \in Recipients |-> IF r \in Owners[d] THEN values[r] ELSE 0],
   run   |-> n]

\* AuditEvent; COMPLETION_* stand for EMAIL_* rows whose metadata says
\* type: completion.
Facts == {"ENVELOPE_SENT", "ESIGN_CONSENT_ACCEPTED", "RECIPIENT_SIGNED",
          "EMAIL_SENT", "EMAIL_BOUNCED", "COMPLETION_SENT",
          "COMPLETION_BOUNCED", "ENVELOPE_COMPLETED", "ENVELOPE_DECLINED",
          "ENVELOPE_VOIDED"}
Events == {"envelope.sent", "envelope.signed", "envelope.completed",
           "envelope.declined", "envelope.voided"}
Actors == Recipients \cup {NoOne}

SigningSteps == {"sign_commit", "sign_recheck"}
SealSteps    == {"seal_load", "seal_upload", "seal_record", "seal_certify",
                 "seal_complete", "seal_audit", "seal_mail"}
FlattenSteps == {"flatten_load", "flatten_doc", "flatten_record"}
NotifySteps  == {"notify_send", "notify_mark", "notify_audit"}
SenderSteps  == {"send_audit", "send_commit", "send_mail",
                 "void_commit", "void_audit"}
Steps == SigningSteps \cup SealSteps \cup FlattenSteps \cup NotifySteps
           \cup SenderSteps
           \cup {"idle", "consent_record", "consent_stamp", "consent_audit",
                 "decline_commit", "decline_audit"}

\* The types of what is stored ...
StoreTypeOK ==
  /\ status \in Statuses
  /\ completedAt \in Nat
  /\ rstatus \in [Recipients -> RStatuses]
  /\ consentedAt \subseteq Recipients
  /\ consents \in [Recipients -> Nat]
  /\ signings \in [Recipients -> Nat]
  /\ expired \subseteq Recipients
  /\ signedKey \in [Docs -> Folders \cup {"none"}]
  /\ documentHash \in [Docs -> Contents]
  /\ objects \in [Keys -> Contents]
  /\ certificate \in [run : Nat, listed : SUBSET Recipients]
  /\ audit \subseteq Facts \X Actors
  /\ scheduled \subseteq Events \X Actors
  /\ mailed \subseteq Recipients
  /\ delivered \subseteq Docs \X Contents
  /\ runs \in Nat

\* ... and of what the requests in flight hold.
SlotTypeOK ==
  /\ pc \in [Slots -> Steps]
  /\ who \in [Slots -> Actors]
  /\ batch \in [Slots -> SUBSET Recipients]
  /\ view \in [Slots -> [Recipients -> Nat]]
  /\ listed \in [Slots -> SUBSET Recipients]
  /\ doc \in [Slots -> Nat]
  /\ run \in [Slots -> Nat]

TypeOK == StoreTypeOK /\ SlotTypeOK

-----------------------------------------------------------------------------
\* POST /api/v1/envelopes has just committed a draft.
Init ==
  /\ status = "DRAFT" /\ completedAt = 0
  /\ rstatus = [r \in Recipients |-> "PENDING"]
  /\ consentedAt = {} /\ consents = NoValues /\ signings = NoValues
  /\ expired = {}
  /\ signedKey = [d \in Docs |-> "none"]
  /\ documentHash = [d \in Docs |-> Original]
  /\ objects = [k \in Keys |-> Original]
  /\ certificate = [run |-> 0, listed |-> {}]
  /\ audit = {} /\ scheduled = {} /\ mailed = {} /\ delivered = {} /\ runs = 0
  /\ pc = [s \in Slots |-> "idle"]
  /\ who = [s \in Slots |-> NoOne]
  /\ batch = [s \in Slots |-> {}]
  /\ view = [s \in Slots |-> NoValues]
  /\ listed = [s \in Slots |-> {}]
  /\ doc = [s \in Slots |-> 0]
  /\ run = [s \in Slots |-> 0]

\* A request of kind k by actor a enters slot s and will continue at step.
Begin(s, k, a, step) ==
  /\ k \in Kinds
  /\ pc[s] = "idle"
  /\ pc' = [pc EXCEPT ![s] = step]
  /\ who' = [who EXCEPT ![s] = a]

Goto(s, from, to) ==
  /\ pc[s] = from
  /\ pc' = [pc EXCEPT ![s] = to]
  /\ UNCHANGED who

\* The request in slot s answers; the slot forgets what it had read.
Finish(s) ==
  /\ pc' = [pc EXCEPT ![s] = "idle"]
  /\ who' = [who EXCEPT ![s] = NoOne]
  /\ batch' = [batch EXCEPT ![s] = {}]
  /\ view' = [view EXCEPT ![s] = NoValues]
  /\ listed' = [listed EXCEPT ![s] = {}]
  /\ doc' = [doc EXCEPT ![s] = 0]
  /\ run' = [run EXCEPT ![s] = 0]

\* A send in its transaction holds the row locks of its first batch.
RecipientFree(r) == \A t \in Slots : pc[t] = "send_commit" => r \notin batch[t]

\* ... and the lock of the envelope row.
EnvelopeFree == \A t \in Slots : pc[t] # "send_commit"

Log(event, a)  == audit' = audit \cup {<<event, a>>}
Emit(event, a) == scheduled' = scheduled \cup {<<event, a>>}

SignedNow == {r \in Recipients : rstatus[r] = "SIGNED"}
HasSigned == {r \in Recipients : signings[r] > 0}

\* The signers of the lowest routing order.
FirstBatch == {r \in Signers : \A q \in Signers : Order[r] <= Order[q]}

\* What the file and download routes stream for document d.
Served(d) == IF signedKey[d] = "none" THEN Original
             ELSE objects[<<signedKey[d], Name[d]>>]
=============================================================================
