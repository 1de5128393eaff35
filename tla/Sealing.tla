------------------------------- MODULE Sealing -------------------------------
(***************************************************************************)
(* What the sign route does with the documents once a signature is saved:  *)
(* sealAndComplete when every signer has signed, flattenForNextSigner      *)
(* otherwise.  Both load the envelope once and then write files and rows   *)
(* from that snapshot, one document after the other.                       *)
(***************************************************************************)
EXTENDS EnvelopeStore

\* The seal takes every field that has a value, whoever owns it ...
SealValues == signings

\* ... the flattener only those of recipients whose row reads SIGNED.
FlattenValues == [r \in Recipients |-> IF rstatus[r] = "SIGNED"
                                       THEN signings[r] ELSE 0]

\* The idempotency guard.
AlreadyCompleted == completedAt # 0 \/ status = "COMPLETED"

\* sealAndComplete answers at once on a completed envelope, and the route
\* emits envelope.completed all the same.
SealSkip(s) ==
  /\ pc[s] = "seal_load"
  /\ AlreadyCompleted
  /\ Emit("envelope.completed", NoOne)
  /\ Finish(s)
  /\ UNCHANGED <<row, people, files, audit, mailed>>

SealLoad(s) ==
  /\ Goto(s, "seal_load", "seal_upload")
  /\ ~AlreadyCompleted
  /\ view' = [view EXCEPT ![s] = SealValues]
  /\ listed' = [listed EXCEPT ![s] = Signers \cap SignedNow]
  /\ doc' = [doc EXCEPT ![s] = 1]
  /\ runs' = runs + 1
  /\ run' = [run EXCEPT ![s] = runs + 1]
  /\ UNCHANGED <<row, people, signedKey, documentHash, objects, certificate,
                 delivered, log, batch>>

SealUpload(s) ==
  /\ Goto(s, "seal_upload", "seal_record")
  /\ objects' = [objects EXCEPT ![<<"sealed", Name[doc[s]]>>] =
                   Baked(doc[s], view[s], run[s])]
  /\ UNCHANGED <<row, people, signedKey, documentHash, certificate, delivered,
                 runs, log, batch, load>>

\* Mutation: the row is left pointing at the flattened file.
SealRecordHashOnly(s) ==
  /\ Goto(s, "seal_record", IF doc[s] < DocCount THEN "seal_upload"
                            ELSE "seal_certify")
  /\ documentHash' = [documentHash EXCEPT ![doc[s]] =
                        Baked(doc[s], view[s], run[s])]
  /\ doc' = [doc EXCEPT ![s] = @ + 1]
  /\ UNCHANGED <<row, people, signedKey, objects, certificate, delivered, runs,
                 log, batch, view, listed, run>>

\* The hash is that of the bytes this run has just uploaded.
SealRecord(s) ==
  /\ Goto(s, "seal_record", IF doc[s] < DocCount THEN "seal_upload"
                            ELSE "seal_certify")
  /\ signedKey' = [signedKey EXCEPT ![doc[s]] = "sealed"]
  /\ documentHash' = [documentHash EXCEPT ![doc[s]] =
                        Baked(doc[s], view[s], run[s])]
  /\ doc' = [doc EXCEPT ![s] = @ + 1]
  /\ UNCHANGED <<row, people, objects, certificate, delivered, runs, log,
                 batch, view, listed, run>>

SealCertify(s) ==
  /\ Goto(s, "seal_certify", "seal_complete")
  /\ certificate' = [run |-> run[s], listed |-> listed[s]]
  /\ UNCHANGED <<row, people, signedKey, documentHash, objects, delivered,
                 runs, log, batch, load>>

\* Mutation: the update forgets completedAt.
SealCompleteUnstamped(s) ==
  /\ Goto(s, "seal_complete", "seal_audit")
  /\ EnvelopeFree
  /\ status' = "COMPLETED"
  /\ UNCHANGED <<completedAt, people, files, log, batch, load>>

\* An unconditional update: whatever the status has become meanwhile.
SealComplete(s) ==
  /\ Goto(s, "seal_complete", "seal_audit")
  /\ EnvelopeFree
  /\ status' = "COMPLETED"
  /\ completedAt' = run[s]
  /\ UNCHANGED <<people, files, log, batch, load>>

SealAudit(s) ==
  /\ Goto(s, "seal_audit", "seal_mail")
  /\ Log("ENVELOPE_COMPLETED", NoOne)
  /\ UNCHANGED <<row, people, files, scheduled, mailed, batch, load>>

\* The completion emails to recipients and sender go out in parallel and each
\* leaves a SENT or a BOUNCED row (whose it is does not matter here), unless
\* that row is refused.  All that leave carry the same attachments, read back
\* from the bucket: those that could be loaded.
SealMail(s) ==
  /\ pc[s] = "seal_mail"
  /\ \E rows \in SUBSET {"COMPLETION_SENT", "COMPLETION_BOUNCED"},
        loaded \in SUBSET Docs :
       /\ "abort" \notin Faults =>
            rows # {} /\ ("COMPLETION_SENT" \notin rows => loaded = {})
       /\ audit' = audit \cup (rows \X {NoOne})
       /\ delivered' = delivered \cup
                         {<<d, objects[<<"sealed", Name[d]>>]>> : d \in loaded}
  /\ Emit("envelope.completed", NoOne)
  /\ Finish(s)
  /\ UNCHANGED <<row, people, signedKey, documentHash, objects, certificate,
                 runs, mailed>>

-----------------------------------------------------------------------------
\* Mutation: wait for every owner of the document before flattening it.
HasValuesOfAll(d, values) == \A r \in Owners[d] : values[r] > 0
HasValues(d, values) == \E r \in Owners[d] : values[r] > 0

FlattenLoad(s) ==
  /\ Goto(s, "flatten_load", "flatten_doc")
  /\ view' = [view EXCEPT ![s] = FlattenValues]
  /\ doc' = [doc EXCEPT ![s] = 1]
  /\ UNCHANGED <<row, people, files, log, batch, listed, run>>

\* A document with no completed field is skipped.
FlattenSkip(s) ==
  /\ pc[s] = "flatten_doc"
  /\ doc[s] <= DocCount /\ ~HasValues(doc[s], view[s])
  /\ doc' = [doc EXCEPT ![s] = @ + 1]
  /\ UNCHANGED <<row, people, files, log, pc, who, batch, view, listed, run>>

FlattenUpload(s) ==
  /\ Goto(s, "flatten_doc", "flatten_record")
  /\ doc[s] <= DocCount /\ HasValues(doc[s], view[s])
  /\ objects' = [objects EXCEPT ![<<"flattened", Name[doc[s]]>>] =
                   Baked(doc[s], view[s], 0)]
  /\ UNCHANGED <<row, people, signedKey, documentHash, certificate, delivered,
                 runs, log, batch, load>>

FlattenRecord(s) ==
  /\ Goto(s, "flatten_record", "flatten_doc")
  /\ signedKey' = [signedKey EXCEPT ![doc[s]] = "flattened"]
  /\ doc' = [doc EXCEPT ![s] = @ + 1]
  /\ UNCHANGED <<row, people, documentHash, objects, certificate, delivered,
                 runs, log, batch, view, listed, run>>

\* All documents are done: invite the next batch, or answer.
FlattenEnd(s) ==
  /\ pc[s] = "flatten_doc"
  /\ doc[s] > DocCount
  /\ IF batch[s] = {} THEN Finish(s)
     ELSE /\ Goto(s, "flatten_doc", "notify_send")
          /\ view' = [view EXCEPT ![s] = NoValues]
          /\ doc' = [doc EXCEPT ![s] = 0]
          /\ UNCHANGED <<batch, listed, run>>
  /\ UNCHANGED <<row, people, files, log>>
=============================================================================
