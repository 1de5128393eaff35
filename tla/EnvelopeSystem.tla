---------------------------- MODULE EnvelopeSystem ----------------------------
(***************************************************************************)
(* The signing core of one envelope: its sender and its recipients issue   *)
(* requests, each request runs in a slot, and slots interleave between any *)
(* two database statements.                                                *)
(***************************************************************************)
EXTENDS Signing, Sealing, Sending

\* A request throws (a failed query, a refused audit row, an upload or email
\* error) or its process dies: what it has committed stays, the rest is lost.
Abort(s) ==
  /\ "abort" \in Faults
  /\ pc[s] # "idle"
  /\ Finish(s)
  /\ UNCHANGED <<row, people, files, log>>

\* A signing link passes its tokenExpiresAt.
Expire(r) ==
  /\ "expire" \in Faults
  /\ Cardinality(expired) < MaxExpired
  /\ r \notin expired
  /\ expired' = expired \cup {r}
  /\ UNCHANGED <<row, rstatus, consentedAt, consents, signings, files, log,
                 slot>>

RecipientStep(s) ==
  \/ ConsentRecord(s) \/ ConsentStamp(s) \/ ConsentAudit(s)
  \/ SignCommit(s) \/ SignLose(s) \/ SignRecheck(s)
  \/ NotifySend(s) \/ NotifyMark(s) \/ NotifyAudit(s)
  \/ DeclineCommit(s) \/ DeclineAudit(s)

SealingStep(s) ==
  \/ SealSkip(s) \/ SealLoad(s) \/ SealUpload(s) \/ SealRecord(s)
  \/ SealCertify(s) \/ SealComplete(s) \/ SealAudit(s) \/ SealMail(s)
  \/ FlattenLoad(s) \/ FlattenSkip(s) \/ FlattenUpload(s)
  \/ FlattenRecord(s) \/ FlattenEnd(s)

SenderStep(s) ==
  \/ SendAudit(s) \/ SendCommit(s) \/ SendMail(s)
  \/ VoidCommit(s) \/ VoidAudit(s)

\* The request in slot s takes its next step.
Step(s) == RecipientStep(s) \/ SealingStep(s) \/ SenderStep(s)

\* A client issues a request that passes its checks.
Request(s) ==
  \/ SendBegin(s) \/ VoidBegin(s)
  \/ \E r \in Recipients : ConsentBegin(s, r) \/ SignBegin(s, r)
                           \/ DeclineBegin(s, r)

Next ==
  \/ \E s \in Slots : Request(s) \/ Step(s) \/ Abort(s)
  \/ \E r \in Recipients : Expire(r)

Spec == Init /\ [][Next]_vars

\* A request that is running goes on: the runtime schedules it and awaits its
\* I/O, which answers or throws.  Clients owe nothing.
FairSpec == Spec /\ \A s \in Slots : WF_vars(Step(s))

-----------------------------------------------------------------------------
\* Properties of every interleaving.

\* Nobody has signed without an accepted disclosure on record: the stamp the
\* file route and the sign route test is there, and a ConsentRecord row with
\* it, although consent is three statements of another request.
ConsentBeforeSigning ==
  \A r \in HasSigned : r \in consentedAt /\ consents[r] > 0

\* An envelope stamped complete was earned: every signer has signed, a
\* certificate exists, and each document's sealed object and recorded hash
\* carry the values of every signer that owns fields on it, even when two
\* requests sealed at once or rows changed under them.
CarriesEverySigner(d, c) ==
  c.run > 0 /\ \A r \in Signers \cap Owners[d] : c.baked[r] > 0

CompletionIsEarned ==
  completedAt # 0 =>
    /\ Signers \subseteq HasSigned
    /\ certificate.run > 0
    /\ \A d \in Docs :
         /\ CarriesEverySigner(d, documentHash[d])
         /\ objects[<<"sealed", Name[d]>>].run > 0

\* Whatever a recipient has done, the audit trail already shows the envelope
\* was sent, although handleSend writes that row in a transaction of its own.
SentOnRecord == <<"ENVELOPE_SENT", NoOne>> \in audit

EvidenceFollowsSend ==
  (status = "SENT" \/ consentedAt # {} \/ HasSigned # {}) => SentOnRecord

\* A link reaches a signer outside the first routing order only after someone
\* in an earlier order has signed, and nobody between the two was passed over.
First(r) == \A q \in Signers : Order[r] <= Order[q]

InTurn(r) ==
  First(r) \/ \E q \in HasSigned :
    /\ Order[q] < Order[r]
    /\ \A p \in Signers : (Order[q] < Order[p] /\ Order[p] < Order[r]) =>
                            rstatus[p] # "PENDING"

NotifiedInTurn == \A r \in mailed : InTurn(r)

\* The webhook events handed out are true: completed is announced only on a
\* stamped envelope, sent and voided only after the audit row that proves
\* them.
EventsAreTrue ==
  /\ <<"envelope.completed", NoOne>> \in scheduled => completedAt # 0
  /\ <<"envelope.sent", NoOne>> \in scheduled => SentOnRecord
  /\ <<"envelope.voided", NoOne>> \in scheduled =>
       <<"ENVELOPE_VOIDED", NoOne>> \in audit

\* When every signer's row reads SIGNED and the envelope is not complete, some
\* request is on its way to complete it (no request fails): the last two
\* signers cannot each leave the sealing to the other.
NoLostCompletion ==
  (Signers \subseteq SignedNow /\ completedAt = 0 /\ Signers # {}) =>
    \E s \in Slots : pc[s] = "sign_recheck" \/ pc[s] \in SealSteps

\* The core implements the ceremony.
Promise == INSTANCE Ceremony WITH
  sent      <- SentOnRecord,
  consented <- consentedAt,
  signed    <- HasSigned,
  completed <- completedAt # 0

KeepsPromise == Promise!Spec

\* Once every signer has signed, the envelope completes, unless a write based
\* on an earlier read put a signer's row back (a notifier, a second send or a
\* decline that raced with the signature): then nobody is left to complete it.
SignedCompletesOrReset ==
  (Signers # {} /\ Signers \subseteq HasSigned)
     ~> (completedAt # 0 \/ \E r \in HasSigned : rstatus[r] # "SIGNED")

-----------------------------------------------------------------------------
\* Properties of requests served one at a time (they may still die half way
\* and clients may still come in any order).

\* A COMPLETED envelope is consistent across the database and the bucket: all
\* signers signed, the certificate lists them and belongs to the run that
\* completed, and the file served is the one hashed, as are the copies mailed.
CompletedIsConsistent ==
  status = "COMPLETED" =>
    /\ Signers \subseteq SignedNow
    /\ certificate = [run |-> completedAt, listed |-> Signers]
    /\ \A d \in Docs : /\ Served(d) = documentHash[d]
                       /\ CarriesEverySigner(d, Served(d))
    /\ \A copy \in delivered : copy[2] = documentHash[copy[1]]

\* When a later signer is invited, the file it will open shows the values of
\* everyone who has signed so far.
NextSignerSeesPrior ==
  [][ \A r \in mailed' \ mailed :
        First(r) \/ \A d \in Docs, q \in HasSigned :
          q \in Owners[d] => Served(d).baked[q] = signings[q] ]_vars

===============================================================================
