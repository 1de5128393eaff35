------------------------------- MODULE Sending -------------------------------
(***************************************************************************)
(* The sender's side: POST /api/v1/envelopes/{id} with action send or      *)
(* void.  (Account limits of handleSend refuse a send and change nothing   *)
(* here.)                                                                  *)
(***************************************************************************)
EXTENDS EnvelopeStore

SendBegin(s) ==
  /\ status = "DRAFT"
  /\ Signers # {}
  /\ Begin(s, "send", NoOne, "send_audit")
  /\ batch' = [batch EXCEPT ![s] = FirstBatch]
  /\ UNCHANGED <<row, people, files, log, load>>

\* Inside the transaction, which already holds the locks of the rows it has
\* updated, logAudit is called without `tx`: its row commits on its own.
SendAudit(s) ==
  /\ Goto(s, "send_audit", "send_commit")
  /\ EnvelopeFree
  /\ Log("ENVELOPE_SENT", NoOne)
  /\ UNCHANGED <<row, people, files, scheduled, mailed, batch, load>>

SendCommit(s) ==
  /\ Goto(s, "send_commit", "send_mail")
  /\ status' = "SENT"
  /\ rstatus' = [r \in Recipients |-> IF r \in batch[s] THEN "SENT"
                                      ELSE rstatus[r]]
  /\ UNCHANGED <<completedAt, consentedAt, consents, signings, expired, files,
                 log, batch, load>>

\* Best effort: any of the invitations may bounce; the send stands.  An email
\* whose EMAIL_SENT row is refused counts as bounced, a bounce whose row is
\* refused leaves nothing.
SendMail(s) ==
  /\ pc[s] = "send_mail"
  /\ \E reached, sent, bounced \in SUBSET batch[s] :
       /\ sent \subseteq reached /\ bounced \subseteq batch[s] \ sent
       /\ "abort" \notin Faults => sent = reached /\ bounced = batch[s] \ sent
       /\ mailed' = mailed \cup reached
       /\ audit' = audit \cup ({"EMAIL_SENT"} \X sent)
                         \cup ({"EMAIL_BOUNCED"} \X bounced)
  /\ Emit("envelope.sent", NoOne)
  /\ Finish(s)
  /\ UNCHANGED <<row, people, files>>

-----------------------------------------------------------------------------
CanVoid == status \notin {"COMPLETED", "VOIDED"}

VoidBegin(s) ==
  /\ CanVoid
  /\ Begin(s, "void", NoOne, "void_commit")
  /\ UNCHANGED <<row, people, files, log, batch, load>>

\* Unconditional, like every write of the envelope's status.
VoidCommit(s) ==
  /\ Goto(s, "void_commit", "void_audit")
  /\ EnvelopeFree
  /\ status' = "VOIDED"
  /\ UNCHANGED <<completedAt, people, files, log, batch, load>>

VoidAudit(s) ==
  /\ pc[s] = "void_audit"
  /\ Log("ENVELOPE_VOIDED", NoOne)
  /\ Emit("envelope.voided", NoOne)
  /\ Finish(s)
  /\ UNCHANGED <<row, people, files, mailed>>
=============================================================================
