------------------------------- MODULE Signing -------------------------------
(***************************************************************************)
(* The recipient's side of the ceremony: accepting the ESIGN disclosure,   *)
(* signing, declining, and the tail of the sign route that invites the     *)
(* next routing order.  Validation that fails answers 4xx and changes      *)
(* nothing, so it is a missing step here, never an action.                 *)
(***************************************************************************)
EXTENDS EnvelopeStore

Fielded == UNION {Owners[d] : d \in Docs}

-----------------------------------------------------------------------------
\* POST /api/sign/{token}/consent: the guards, then the three writes of
\* recordConsent, each a statement of its own.
CanConsent(r) ==
  /\ status = "SENT"
  /\ rstatus[r] # "SIGNED" /\ signings[r] = 0
  /\ r \notin expired
  /\ r \notin consentedAt

ConsentBegin(s, r) ==
  /\ CanConsent(r)
  /\ consents[r] < MaxConsents
  /\ Begin(s, "consent", r, "consent_record")
  /\ UNCHANGED <<row, people, files, log, batch, load>>

ConsentRecord(s) ==
  /\ Goto(s, "consent_record", "consent_stamp")
  /\ consents' = [consents EXCEPT ![who[s]] = @ + 1]
  /\ UNCHANGED <<row, rstatus, consentedAt, signings, expired, files, log,
                 batch, load>>

ConsentStamp(s) ==
  /\ Goto(s, "consent_stamp", "consent_audit")
  /\ RecipientFree(who[s])
  /\ consentedAt' = consentedAt \cup {who[s]}
  /\ UNCHANGED <<row, rstatus, consents, signings, expired, files, log,
                 batch, load>>

ConsentAudit(s) ==
  /\ pc[s] = "consent_audit"
  /\ Log("ESIGN_CONSENT_ACCEPTED", who[s])
  /\ Finish(s)
  /\ UNCHANGED <<row, people, files, scheduled, mailed>>

-----------------------------------------------------------------------------
\* POST /api/sign/{token}.
\* Mutation: the sign route forgets the consent check.
CanSignUnconsented(r) ==
  /\ r \notin expired /\ signings[r] = 0
  /\ status = "SENT" /\ rstatus[r] # "SIGNED"
  /\ r \in Fielded

\* The checks made on what the request has read.  The body must fill at least
\* one field, so a signer who owns none is always refused.
CanSign(r) ==
  /\ r \notin expired
  /\ signings[r] = 0
  /\ status = "SENT"
  /\ rstatus[r] # "SIGNED"
  /\ r \in consentedAt
  /\ r \in Fielded

SignBegin(s, r) ==
  /\ CanSign(r)
  /\ Begin(s, "sign", r, "sign_commit")
  /\ UNCHANGED <<row, people, files, log, batch, load>>

\* The updateMany of the signing transaction matches.
Signable(r) == rstatus[r] \in {"PENDING", "SENT"}

SignCommit(s) ==
  /\ Goto(s, "sign_commit", "sign_recheck")
  /\ RecipientFree(who[s])
  /\ Signable(who[s])
  /\ rstatus' = [rstatus EXCEPT ![who[s]] = "SIGNED"]
  /\ signings' = [signings EXCEPT ![who[s]] = @ + 1]
  /\ Log("RECIPIENT_SIGNED", who[s])
  /\ Emit("envelope.signed", who[s])
  /\ UNCHANGED <<row, consentedAt, consents, expired, files, mailed, batch,
                 load>>

\* It matches no row: another request signed or declined first; 409.
SignLose(s) ==
  /\ pc[s] = "sign_commit"
  /\ RecipientFree(who[s])
  /\ ~Signable(who[s])
  /\ Finish(s)
  /\ UNCHANGED <<row, people, files, log>>

\* Mutations: decide without re-fetching; on one signer instead of all.
AllSignedStale(r) == Signers \subseteq {r}
AllSignedSome(r) == Signers \cap SignedNow # {}

\* Every signer's row reads SIGNED in the re-fetched list (r has just signed).
AllSigned(r) == Signers \subseteq SignedNow

PendingAfter(r) ==
  {q \in Signers : rstatus[q] = "PENDING" /\ Order[q] > Order[r]}

\* Mutation: everyone still pending behind r.
NextBatchAll(r) == PendingAfter(r)

\* The lowest routing order still pending behind r.
NextBatch(r) ==
  {q \in PendingAfter(r) : \A p \in PendingAfter(r) : Order[q] <= Order[p]}

\* Re-fetch the recipients: seal if everyone has signed, else flatten and
\* then invite the batch computed from THIS read.
SignRecheck(s) ==
  /\ IF AllSigned(who[s])
     THEN Goto(s, "sign_recheck", "seal_load") /\ UNCHANGED batch
     ELSE /\ Goto(s, "sign_recheck", "flatten_load")
          /\ batch' = [batch EXCEPT ![s] = NextBatch(who[s])]
  /\ UNCHANGED <<row, people, files, log, load>>

-----------------------------------------------------------------------------
\* The loop over nextBatch, one recipient at a time: email, mark, audit.
NotifySend(s) ==
  /\ pc[s] = "notify_send"
  /\ \E r \in batch[s] :
       /\ mailed' = mailed \cup {r}
       /\ who' = [who EXCEPT ![s] = r]
  /\ pc' = [pc EXCEPT ![s] = "notify_mark"]
  /\ UNCHANGED <<row, people, files, audit, scheduled, batch, load>>

\* An unconditional update: it does not look at the row's present status.
NotifyMark(s) ==
  /\ Goto(s, "notify_mark", "notify_audit")
  /\ RecipientFree(who[s])
  /\ rstatus' = [rstatus EXCEPT ![who[s]] = "SENT"]
  /\ UNCHANGED <<row, consentedAt, consents, signings, expired, files, log,
                 batch, load>>

NotifyAudit(s) ==
  /\ pc[s] = "notify_audit"
  /\ Log("EMAIL_SENT", who[s])
  /\ IF batch[s] = {who[s]}
     THEN Finish(s)
     ELSE /\ Goto(s, "notify_audit", "notify_send")
          /\ batch' = [batch EXCEPT ![s] = @ \ {who[s]}]
          /\ UNCHANGED load
  /\ UNCHANGED <<row, people, files, scheduled, mailed>>

-----------------------------------------------------------------------------
\* POST /api/sign/{token}/decline.
CanDecline(r) == rstatus[r] \notin {"SIGNED", "DECLINED"} /\ status = "SENT"

DeclineBegin(s, r) ==
  /\ CanDecline(r)
  /\ Begin(s, "decline", r, "decline_commit")
  /\ UNCHANGED <<row, people, files, log, batch, load>>

DeclineCommit(s) ==
  /\ Goto(s, "decline_commit", "decline_audit")
  /\ RecipientFree(who[s]) /\ EnvelopeFree
  /\ rstatus' = [rstatus EXCEPT ![who[s]] = "DECLINED"]
  /\ status' = "DECLINED"
  /\ UNCHANGED <<completedAt, consentedAt, consents, signings, expired, files,
                 log, batch, load>>

DeclineAudit(s) ==
  /\ pc[s] = "decline_audit"
  /\ Log("ENVELOPE_DECLINED", who[s])
  /\ Emit("envelope.declined", who[s])
  /\ Finish(s)
  /\ UNCHANGED <<row, people, files, mailed>>
=============================================================================
