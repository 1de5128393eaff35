-------------------------- MODULE EnvelopeInvariant --------------------------
(***************************************************************************)
(* The inductive invariant of the signing core: what each request may rely *)
(* on between its steps although the others run in between.                *)
(***************************************************************************)
EXTENDS EnvelopeSystem

ConsentSteps == {"consent_record", "consent_stamp", "consent_audit"}

\* A request that is not the sender's acts for a recipient.
ActorKnown ==
  \A s \in Slots : pc[s] \notin {"idle"} \cup SenderSteps => who[s] \in Recipients

\* A document index points at a document where it is used.
DocInRange ==
  \A s \in Slots :
    /\ pc[s] \in {"seal_upload", "seal_record", "flatten_record"} =>
         doc[s] \in Docs
    /\ pc[s] = "flatten_doc" => doc[s] \in 1..(DocCount + 1)

\* Consent leaves a row before its stamp, and its stamp before a signature.
ConsentHeld ==
  /\ HasSigned \subseteq consentedAt
  /\ \A r \in consentedAt : consents[r] > 0
  /\ \A s \in Slots :
       /\ pc[s] = "consent_stamp" => consents[who[s]] > 0
       /\ pc[s] = "sign_commit" => who[s] \in consentedAt

\* The row of the send precedes all that a sent envelope allows.
SentHeld ==
  /\ status = "SENT" \/ consentedAt # {} => SentOnRecord
  /\ \A s \in Slots :
       pc[s] \in ConsentSteps \cup {"send_commit", "send_mail"} => SentOnRecord

DocSealed(d) == /\ CarriesEverySigner(d, documentHash[d])
                /\ objects[<<"sealed", Name[d]>>].run > 0

\* How far a sealing run has got, in what it loaded and in what it wrote.
SealHeld(s) ==
  /\ pc[s] \in SealSteps => Signers \subseteq HasSigned
  /\ pc[s] \in SealSteps \ {"seal_load"} =>
       run[s] > 0 /\ \A r \in Signers : view[s][r] > 0
  /\ pc[s] \in {"seal_upload", "seal_record"} =>
       \A d \in Docs : d < doc[s] => DocSealed(d)
  /\ pc[s] = "seal_record" => objects[<<"sealed", Name[doc[s]]>>].run > 0
  /\ pc[s] \in {"seal_certify", "seal_complete", "seal_audit", "seal_mail"} =>
       \A d \in Docs : DocSealed(d)
  /\ pc[s] \in {"seal_complete", "seal_audit", "seal_mail"} =>
       certificate.run > 0
  /\ pc[s] \in {"seal_audit", "seal_mail"} => completedAt # 0

SealingHeld ==
  /\ SignedNow \subseteq HasSigned
  /\ \A s \in Slots : SealHeld(s)
  /\ status = "COMPLETED" => completedAt # 0
  /\ CompletionIsEarned

\* Whoever is about to be invited may be.
TurnHeld ==
  /\ NotifiedInTurn
  /\ \A s \in Slots :
       /\ pc[s] = "sign_recheck" => who[s] \in HasSigned
       /\ pc[s] \in FlattenSteps \cup NotifySteps =>
            \A r \in batch[s] : InTurn(r)
       /\ pc[s] \in {"send_audit", "send_commit", "send_mail"} =>
            \A r \in batch[s] : First(r)

IInv == /\ TypeOK /\ ActorKnown /\ DocInRange /\ ConsentHeld /\ SentHeld
        /\ SealingHeld /\ TurnHeld /\ EventsAreTrue
===============================================================================
