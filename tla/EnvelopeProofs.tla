----------------------------- MODULE EnvelopeProofs -----------------------------
(***************************************************************************)
(* The signing core, for every set of recipients, routing order, number of *)
(* documents and number of requests in flight: its types; the legal        *)
(* evidence of a signature, which is a disclosure accepted before it and   *)
(* the audit row of the send before either; completion, invitations and    *)
(* webhook events; and its refinement of the ceremony.                     *)
(***************************************************************************)
EXTENDS EnvelopeInvariant, TLAPS

-----------------------------------------------------------------------------
\* Types.

\* Baking loaded values into a document yields the bytes of some PDF.
LEMMA BakedType ==
  ASSUME NEW d, NEW values \in [Recipients -> Nat], NEW n \in Nat
  PROVE  Baked(d, values, n) \in Contents
  BY DEF Baked, Contents

\* Object keys are made of a folder and the name of a document.
LEMMA KeyType ==
  ASSUME NEW f \in Folders, NEW d \in Docs
  PROVE  <<f, Name[d]>> \in Keys
  BY DEF Keys, Names

\* What a request reads of the field values is a vector of versions.
LEMMA ValuesType ==
  StoreTypeOK => /\ SealValues \in [Recipients -> Nat]
                 /\ FlattenValues \in [Recipients -> Nat]
  BY DEF StoreTypeOK, SealValues, FlattenValues

\* What the requests in flight hold, and that each knows its actor.
SlotsTyped == SlotTypeOK /\ ActorKnown

\* An answered request leaves an empty slot.
LEMMA FinishTyped ==
  ASSUME SlotsTyped, NEW s \in Slots, Finish(s)
  PROVE  SlotsTyped'
  BY DEF SlotsTyped, SlotTypeOK, ActorKnown, Finish, Actors, NoValues, Steps

\* A request that goes on keeps its actor; its other locals are given.
LEMMA GotoTyped ==
  ASSUME SlotsTyped, NEW s \in Slots, NEW from, NEW to \in Steps,
         Goto(s, from, to),
         from \notin {"idle"} \cup SenderSteps \/ to \in SenderSteps,
         batch' \in [Slots -> SUBSET Recipients],
         view' \in [Slots -> [Recipients -> Nat]],
         listed' \in [Slots -> SUBSET Recipients],
         doc' \in [Slots -> Nat],
         run' \in [Slots -> Nat]
  PROVE  SlotsTyped'
  BY DEF SlotsTyped, SlotTypeOK, ActorKnown, Goto

\* The plain step: nothing but the position of the request moves.
LEMMA PlainTyped ==
  ASSUME SlotsTyped, NEW s \in Slots, NEW from, NEW to \in Steps,
         Goto(s, from, to),
         from \notin {"idle"} \cup SenderSteps \/ to \in SenderSteps,
         UNCHANGED <<batch, load>>
  PROVE  SlotsTyped'
  BY DEF SlotsTyped, SlotTypeOK, ActorKnown, Goto, load

\* A request starts for an actor its first step allows.
LEMMA BeginTyped ==
  ASSUME SlotsTyped, NEW s \in Slots, NEW k, NEW a \in Actors,
         NEW step \in Steps, Begin(s, k, a, step),
         a \in Recipients \/ step \in SenderSteps,
         batch' \in [Slots -> SUBSET Recipients], UNCHANGED load
  PROVE  SlotsTyped'
  BY DEF SlotsTyped, SlotTypeOK, ActorKnown, Begin, load

\* The initial draft is typed.
LEMMA TypeInit == Init => TypeOK /\ ActorKnown
  BY CoreAssumption
  DEF Init, TypeOK, StoreTypeOK, SlotTypeOK, ActorKnown, Statuses, RStatuses,
      Contents, Original, NoValues, Steps, Actors, Docs

\* No step of any request leaves the types.
LEMMA TypeStep ==
  ASSUME TypeOK, ActorKnown, [Next]_vars
  PROVE  TypeOK' /\ ActorKnown'
<1> SlotsTyped
  BY DEF SlotsTyped, TypeOK
<1> SUFFICES StoreTypeOK' /\ SlotsTyped'
  BY DEF SlotsTyped, TypeOK
<1> StoreTypeOK
  BY DEF TypeOK
<1>a. NoOne \in Actors /\ Recipients \subseteq Actors
  BY DEF Actors
<1>b. ASSUME NEW s \in Slots
      PROVE  /\ batch \in [Slots -> SUBSET Recipients]
             /\ view \in [Slots -> [Recipients -> Nat]]
             /\ listed \in [Slots -> SUBSET Recipients]
             /\ doc \in [Slots -> Nat] /\ run \in [Slots -> Nat]
             /\ pc[s] \notin {"idle"} \cup SenderSteps => who[s] \in Recipients
  BY DEF SlotsTyped, SlotTypeOK, ActorKnown
<1>1. ASSUME NEW s \in Slots, RecipientStep(s) PROVE StoreTypeOK' /\ SlotsTyped'
  <2>1. CASE ConsentRecord(s)
    <3>w. who[s] \in Recipients
      BY <2>1, <1>b DEF ConsentRecord, Goto, SenderSteps
    <3>1. SlotsTyped'
      BY <2>1, PlainTyped DEF ConsentRecord, Steps, SigningSteps, SealSteps, FlattenSteps,
           NotifySteps, SenderSteps
    <3>2. StoreTypeOK'
      BY <2>1, <3>w DEF ConsentRecord, StoreTypeOK, Goto, row, files, log
    <3>3. QED  BY <3>1, <3>2
  <2>2. CASE ConsentStamp(s)
    <3>w. who[s] \in Recipients
      BY <2>2, <1>b DEF ConsentStamp, Goto, SenderSteps
    <3>1. SlotsTyped'
      BY <2>2, PlainTyped DEF ConsentStamp, Steps, SigningSteps, SealSteps, FlattenSteps,
           NotifySteps, SenderSteps
    <3>2. StoreTypeOK'
      BY <2>2, <3>w DEF ConsentStamp, StoreTypeOK, row, files, log
    <3>3. QED  BY <3>1, <3>2
  <2>3. CASE ConsentAudit(s)
    <3>w. who[s] \in Recipients
      BY <2>3, <1>b DEF ConsentAudit, Goto, SenderSteps
    <3>1. SlotsTyped'
      BY <2>3, FinishTyped DEF ConsentAudit
    <3>2. StoreTypeOK'
      BY <2>3, <3>w DEF ConsentAudit, StoreTypeOK, Log, Facts, Actors, row, people, files, log
    <3>3. QED  BY <3>1, <3>2
  <2>4. CASE SignCommit(s)
    <3>w. who[s] \in Recipients
      BY <2>4, <1>b DEF SignCommit, Goto, SenderSteps
    <3>1. SlotsTyped'
      BY <2>4, PlainTyped DEF SignCommit, Steps, SigningSteps, SealSteps, FlattenSteps,
           NotifySteps, SenderSteps
    <3>2. StoreTypeOK'
      BY <2>4, <3>w DEF SignCommit, StoreTypeOK, RStatuses, Log, Facts, Emit, Events,
           Actors, row, files, log
    <3>3. QED  BY <3>1, <3>2
  <2>5. CASE SignLose(s)
    <3>1. SlotsTyped'
      BY <2>5, FinishTyped DEF SignLose
    <3>2. StoreTypeOK'
      BY <2>5 DEF SignLose, StoreTypeOK, row, people, files, log
    <3>3. QED  BY <3>1, <3>2
  <2>6. CASE SignRecheck(s)
    <3>1. NextBatch(who[s]) \in SUBSET Recipients
      BY CoreAssumption DEF NextBatch, PendingAfter
    <3>2. CASE AllSigned(who[s])
      <4>1. Goto(s, "sign_recheck", "seal_load") /\ UNCHANGED <<batch, load>>
        BY <2>6, <3>2 DEF SignRecheck
      <4>2. SlotsTyped'
        BY <4>1, PlainTyped DEF Steps, SealSteps, SenderSteps
      <4>3. QED  BY <2>6, <4>2 DEF SignRecheck, StoreTypeOK, row, people, files, log
    <3>3. CASE ~AllSigned(who[s])
      <4>1. /\ Goto(s, "sign_recheck", "flatten_load") /\ UNCHANGED load
            /\ batch' \in [Slots -> SUBSET Recipients]
        BY <2>6, <3>1, <3>3, <1>b DEF SignRecheck
      <4>2. SlotsTyped'
        BY <4>1, <1>b, GotoTyped DEF Steps, FlattenSteps, SenderSteps, load
      <4>3. QED  BY <2>6, <4>2 DEF SignRecheck, StoreTypeOK, row, people, files, log
    <3>4. QED  BY <3>2, <3>3
  <2>7. CASE NotifySend(s)
    <3>1. PICK r \in batch[s] : /\ mailed' = mailed \cup {r}
                                /\ who' = [who EXCEPT ![s] = r]
      BY <2>7 DEF NotifySend
    <3>2. r \in Recipients
      BY <1>b
    <3>3. SlotsTyped'
      BY <2>7, <3>1, <3>2 DEF NotifySend, SlotsTyped, SlotTypeOK, ActorKnown,
         Steps, NotifySteps, SenderSteps, Actors, load
    <3>4. QED
      BY <2>7, <3>1, <3>2, <3>3 DEF NotifySend, StoreTypeOK, row, people, files
  <2>8. CASE NotifyMark(s)
    <3>w. who[s] \in Recipients
      BY <2>8, <1>b DEF NotifyMark, Goto, SenderSteps
    <3>1. SlotsTyped'
      BY <2>8, PlainTyped DEF NotifyMark, Steps, SigningSteps, SealSteps, FlattenSteps,
           NotifySteps, SenderSteps
    <3>2. StoreTypeOK'
      BY <2>8, <3>w DEF NotifyMark, StoreTypeOK, RStatuses, row, files, log
    <3>3. QED  BY <3>1, <3>2
  <2>9. CASE NotifyAudit(s)
    <3>w. who[s] \in Recipients
      BY <2>9, <1>b DEF NotifyAudit, SenderSteps
    <3>1. CASE batch[s] = {who[s]}
      <4>1. Finish(s)
        BY <2>9, <3>1 DEF NotifyAudit
      <4>2. QED
        BY <2>9, <3>w, <4>1, FinishTyped
        DEF NotifyAudit, StoreTypeOK, Log, Facts, Actors, row, people, files
    <3>2. CASE batch[s] # {who[s]}
      <4>1. /\ Goto(s, "notify_audit", "notify_send") /\ UNCHANGED load
            /\ batch' \in [Slots -> SUBSET Recipients]
        BY <2>9, <3>2, <1>b DEF NotifyAudit
      <4>2. SlotsTyped'
        BY <4>1, <1>b, GotoTyped DEF Steps, NotifySteps, SenderSteps, load
      <4>3. QED
        BY <2>9, <3>w, <4>2
        DEF NotifyAudit, StoreTypeOK, Log, Facts, Actors, row, people, files
    <3>3. QED  BY <3>1, <3>2
  <2>10. CASE DeclineCommit(s)
    <3>w. who[s] \in Recipients
      BY <2>10, <1>b DEF DeclineCommit, Goto, SenderSteps
    <3>1. SlotsTyped'
      BY <2>10, PlainTyped DEF DeclineCommit, Steps, SigningSteps, SealSteps, FlattenSteps,
           NotifySteps, SenderSteps
    <3>2. StoreTypeOK'
      BY <2>10, <3>w DEF DeclineCommit, StoreTypeOK, Statuses, RStatuses, files, log
    <3>3. QED  BY <3>1, <3>2
  <2>11. CASE DeclineAudit(s)
    <3>w. who[s] \in Recipients
      BY <2>11, <1>b DEF DeclineAudit, Goto, SenderSteps
    <3>1. SlotsTyped'
      BY <2>11, FinishTyped DEF DeclineAudit
    <3>2. StoreTypeOK'
      BY <2>11, <3>w DEF DeclineAudit, StoreTypeOK, Log, Facts, Emit, Events, Actors, row, people, files, log
    <3>3. QED  BY <3>1, <3>2
  <2>12. QED
    BY <1>1, <2>1, <2>2, <2>3, <2>4, <2>5, <2>6, <2>7, <2>8, <2>9, <2>10,
       <2>11 DEF RecipientStep
<1>2. ASSUME NEW s \in Slots, SealingStep(s) PROVE StoreTypeOK' /\ SlotsTyped'
  <2>1. CASE SealSkip(s)
    <3>1. SlotsTyped'
      BY <2>1, FinishTyped DEF SealSkip
    <3>2. StoreTypeOK'
      BY <2>1, <1>a DEF SealSkip, StoreTypeOK, Emit, Events, row, people, files, log
    <3>3. QED  BY <3>1, <3>2
  <2>2. CASE SealLoad(s)
    <3>1. /\ view' \in [Slots -> [Recipients -> Nat]]
          /\ listed' \in [Slots -> SUBSET Recipients]
          /\ doc' \in [Slots -> Nat] /\ run' \in [Slots -> Nat]
      BY <2>2, <1>b, ValuesType DEF SealLoad, SignedNow, StoreTypeOK
    <3>2. SlotsTyped'
      BY <2>2, <3>1, <1>b, GotoTyped DEF SealLoad, Steps, SealSteps, SenderSteps
    <3>3. QED  BY <2>2, <3>2 DEF SealLoad, StoreTypeOK, row, people, log
  <2>3. CASE SealUpload(s)
    <3>1. SlotsTyped'
      BY <2>3, PlainTyped DEF SealUpload, Steps, SealSteps, SenderSteps
    <3>2. StoreTypeOK'
      BY <2>3, <1>b, BakedType DEF SealUpload, StoreTypeOK, row, people, log
    <3>3. QED  BY <3>1, <3>2
  <2>4. CASE SealRecord(s)
    <3>1. doc' \in [Slots -> Nat]
      BY <2>4, <1>b DEF SealRecord
    <3>2. SlotsTyped'
      <4> DEFINE to == IF doc[s] < DocCount THEN "seal_upload" ELSE "seal_certify"
      <4>1. to \in Steps
        BY DEF Steps, SealSteps
      <4>2. Goto(s, "seal_record", to)
        BY <2>4 DEF SealRecord
      <4> HIDE DEF to
      <4>3. QED
        BY <2>4, <3>1, <4>1, <4>2, <1>b, GotoTyped DEF SealRecord, SenderSteps
    <3>3. documentHash' \in [Docs -> Contents]
      BY <2>4, <1>b, BakedType DEF SealRecord, StoreTypeOK
    <3>4. signedKey' \in [Docs -> Folders \cup {"none"}]
      BY <2>4 DEF SealRecord, StoreTypeOK, Folders
    <3>5. QED
      BY <2>4, <3>2, <3>3, <3>4 DEF SealRecord, StoreTypeOK, row, people, log
  <2>5. CASE SealCertify(s)
    <3>1. SlotsTyped'
      BY <2>5, PlainTyped DEF SealCertify, Steps, SealSteps, SenderSteps
    <3>2. StoreTypeOK'
      BY <2>5, <1>b DEF SealCertify, StoreTypeOK, row, people, log
    <3>3. QED  BY <3>1, <3>2
  <2>6. CASE SealComplete(s)
    <3>1. SlotsTyped'
      BY <2>6, PlainTyped DEF SealComplete, Steps, SealSteps, SenderSteps
    <3>2. StoreTypeOK'
      BY <2>6, <1>b DEF SealComplete, StoreTypeOK, Statuses, people, files, log
    <3>3. QED  BY <3>1, <3>2
  <2>7. CASE SealAudit(s)
    <3>1. SlotsTyped'
      BY <2>7, PlainTyped DEF SealAudit, Steps, SealSteps, SenderSteps
    <3>2. StoreTypeOK'
      BY <2>7, <1>a DEF SealAudit, StoreTypeOK, Log, Facts, row, people, files
    <3>3. QED  BY <3>1, <3>2
  <2>8. CASE SealMail(s)
    <3>1. \A d \in Docs : objects[<<"sealed", Name[d]>>] \in Contents
      BY KeyType DEF Folders, StoreTypeOK
    <3>2. audit' \subseteq Facts \X Actors
      BY <2>8, <1>a DEF SealMail, StoreTypeOK, Facts
    <3>3. delivered' \subseteq Docs \X Contents
      <4> DEFINE copies == {<<d, objects[<<"sealed", Name[d]>>]>> : d \in Docs}
      <4>1. delivered' \subseteq delivered \cup copies
        BY <2>8 DEF SealMail
      <4>2. ASSUME NEW c \in copies PROVE c \in Docs \X Contents
        <5>1. PICK d \in Docs : c = <<d, objects[<<"sealed", Name[d]>>]>>
          OBVIOUS
        <5>2. QED  BY <5>1, <3>1
      <4>3. QED  BY <4>1, <4>2 DEF StoreTypeOK
    <3>4. SlotsTyped'
      BY <2>8, FinishTyped DEF SealMail
    <3>5. QED
      BY <2>8, <1>a, <3>2, <3>3, <3>4
      DEF SealMail, StoreTypeOK, Emit, Events, row, people
  <2>9. CASE FlattenLoad(s)
    <3>1. /\ view' \in [Slots -> [Recipients -> Nat]]
          /\ doc' \in [Slots -> Nat]
      BY <2>9, <1>b, ValuesType DEF FlattenLoad
    <3>2. SlotsTyped'
      BY <2>9, <3>1, <1>b, GotoTyped
      DEF FlattenLoad, Steps, FlattenSteps, SenderSteps
    <3>3. QED  BY <2>9, <3>2 DEF FlattenLoad, StoreTypeOK, row, people, files, log
  <2>10. CASE FlattenSkip(s)
    <3>1. doc' \in [Slots -> Nat]
      BY <2>10, <1>b DEF FlattenSkip
    <3>2. SlotsTyped'
      BY <2>10, <3>1 DEF FlattenSkip, SlotsTyped, SlotTypeOK, ActorKnown
    <3>3. QED
      BY <2>10, <3>2 DEF FlattenSkip, StoreTypeOK, row, people, files, log
  <2>11. CASE FlattenUpload(s)
    <3>1. SlotsTyped'
      BY <2>11, PlainTyped DEF FlattenUpload, Steps, FlattenSteps, SenderSteps
    <3>2. StoreTypeOK'
      BY <2>11, <1>b, BakedType DEF FlattenUpload, StoreTypeOK, row, people, log
    <3>3. QED  BY <3>1, <3>2
  <2>12. CASE FlattenRecord(s)
    <3>1. doc' \in [Slots -> Nat]
      BY <2>12, <1>b DEF FlattenRecord
    <3>2. SlotsTyped'
      BY <2>12, <3>1, <1>b, GotoTyped
      DEF FlattenRecord, Steps, FlattenSteps, SenderSteps
    <3>3. signedKey' \in [Docs -> Folders \cup {"none"}]
      BY <2>12 DEF FlattenRecord, StoreTypeOK, Folders
    <3>4. QED
      BY <2>12, <3>2, <3>3 DEF FlattenRecord, StoreTypeOK, row, people, log
  <2>13. CASE FlattenEnd(s)
    <3>1. CASE batch[s] = {}
      BY <2>13, <3>1, FinishTyped
      DEF FlattenEnd, StoreTypeOK, row, people, files, log
    <3>2. CASE batch[s] # {}
      <4>1. /\ Goto(s, "flatten_doc", "notify_send")
            /\ UNCHANGED <<batch, listed, run>>
            /\ view' = [view EXCEPT ![s] = NoValues]
            /\ doc' = [doc EXCEPT ![s] = 0]
        BY <2>13, <3>2 DEF FlattenEnd
      <4>2. /\ view' \in [Slots -> [Recipients -> Nat]]
            /\ doc' \in [Slots -> Nat]
        BY <4>1, <1>b DEF NoValues
      <4>3. SlotsTyped'
        BY <4>1, <4>2, <1>b, GotoTyped DEF Steps, NotifySteps, SenderSteps
      <4>4. QED
        BY <2>13, <4>3 DEF FlattenEnd, StoreTypeOK, row, people, files, log
    <3>3. QED  BY <3>1, <3>2
  <2>14. QED
    BY <1>2, <2>1, <2>2, <2>3, <2>4, <2>5, <2>6, <2>7, <2>8, <2>9, <2>10,
       <2>11, <2>12, <2>13 DEF SealingStep
<1>3. ASSUME NEW s \in Slots, SenderStep(s) PROVE StoreTypeOK' /\ SlotsTyped'
  <2>1. CASE SendAudit(s)
    <3>1. SlotsTyped'
      BY <2>1, PlainTyped DEF SendAudit, Steps, SenderSteps
    <3>2. StoreTypeOK'
      BY <2>1, <1>a DEF SendAudit, StoreTypeOK, Log, Facts, row, people, files
    <3>3. QED  BY <3>1, <3>2
  <2>2. CASE SendCommit(s)
    <3>1. SlotsTyped'
      BY <2>2, PlainTyped DEF SendCommit, Steps, SenderSteps
    <3>2. StoreTypeOK'
      BY <2>2 DEF SendCommit, StoreTypeOK, Statuses, RStatuses, files, log
    <3>3. QED  BY <3>1, <3>2
  <2>3. CASE SendMail(s)
    <3>1. SlotsTyped'
      BY <2>3, FinishTyped DEF SendMail
    <3>2. StoreTypeOK'
      BY <2>3, <1>a, <1>b
      DEF SendMail, StoreTypeOK, Facts, Emit, Events, row, people, files
    <3>3. QED  BY <3>1, <3>2
  <2>4. CASE VoidCommit(s)
    <3>1. SlotsTyped'
      BY <2>4, PlainTyped DEF VoidCommit, Steps, SenderSteps
    <3>2. StoreTypeOK'
      BY <2>4 DEF VoidCommit, StoreTypeOK, Statuses, people, files, log
    <3>3. QED  BY <3>1, <3>2
  <2>5. CASE VoidAudit(s)
    <3>1. SlotsTyped'
      BY <2>5, FinishTyped DEF VoidAudit
    <3>2. StoreTypeOK'
      BY <2>5, <1>a
      DEF VoidAudit, StoreTypeOK, Log, Facts, Emit, Events, row, people, files
    <3>3. QED  BY <3>1, <3>2
  <2>6. QED
    BY <1>3, <2>1, <2>2, <2>3, <2>4, <2>5 DEF SenderStep
<1>4. ASSUME NEW s \in Slots, Request(s) PROVE StoreTypeOK' /\ SlotsTyped'
  <2>1. CASE SendBegin(s)
    <3>1. batch' \in [Slots -> SUBSET Recipients]
      BY <2>1, <1>b, CoreAssumption DEF SendBegin, FirstBatch
    <3>2. SlotsTyped'
      BY <2>1, <3>1, <1>a, BeginTyped DEF SendBegin, Steps, SenderSteps
    <3>3. QED
      BY <2>1, <3>2 DEF SendBegin, StoreTypeOK, row, people, files, log
  <2>2. CASE VoidBegin(s)
    BY <2>2, <1>a, <1>b, BeginTyped
    DEF VoidBegin, Steps, SenderSteps, StoreTypeOK, row, people, files, log
  <2>3. ASSUME NEW r \in Recipients,
               ConsentBegin(s, r) \/ SignBegin(s, r) \/ DeclineBegin(s, r)
        PROVE  StoreTypeOK' /\ SlotsTyped'
    <3>1. SlotsTyped'
      <4>1. CASE ConsentBegin(s, r)
        BY <4>1, <1>a, <1>b, BeginTyped DEF ConsentBegin, Steps
      <4>2. CASE SignBegin(s, r)
        BY <4>2, <1>a, <1>b, BeginTyped DEF SignBegin, Steps, SigningSteps
      <4>3. CASE DeclineBegin(s, r)
        BY <4>3, <1>a, <1>b, BeginTyped DEF DeclineBegin, Steps
      <4>4. QED  BY <2>3, <4>1, <4>2, <4>3
    <3>2. QED
      BY <2>3, <3>1 DEF ConsentBegin, SignBegin, DeclineBegin, StoreTypeOK,
         row, people, files, log
  <2>4. QED
    BY <1>4, <2>1, <2>2, <2>3 DEF Request
<1>5. ASSUME NEW s \in Slots, Abort(s) PROVE StoreTypeOK' /\ SlotsTyped'
  BY <1>5, FinishTyped DEF Abort, StoreTypeOK, row, people, files, log
<1>6. ASSUME NEW r \in Recipients, Expire(r) PROVE StoreTypeOK' /\ SlotsTyped'
  BY <1>6 DEF Expire, StoreTypeOK, SlotsTyped, SlotTypeOK, ActorKnown,
     row, files, log, slot
<1>7. CASE UNCHANGED vars
  BY <1>7 DEF vars, StoreTypeOK, SlotsTyped, SlotTypeOK, ActorKnown,
     row, people, files, log, slot
<1>8. QED
  BY <1>1, <1>2, <1>3, <1>4, <1>5, <1>6, <1>7 DEF Next, Step

\* What is stored and what the requests hold stay of their types: no handler
\* step writes a status, key, hash or audit event outside the schema's.
THEOREM TypeCorrect == Spec => []TypeOK
<1>1. Init => TypeOK /\ ActorKnown
  BY TypeInit
<1>2. TypeOK /\ ActorKnown /\ [Next]_vars => (TypeOK /\ ActorKnown)'
  BY TypeStep
<1>3. QED
  BY <1>1, <1>2, PTL DEF Spec

-----------------------------------------------------------------------------
\* Consent before signature, send before either.

\* The sealing and flattening steps leave the recipients' rows alone and lead
\* to no step of the consent or sign routes.
LEMMA SealingFrame ==
  ASSUME TypeOK, NEW s \in Slots, SealingStep(s)
  PROVE  /\ UNCHANGED people
         /\ pc'[s] \in SealSteps \cup FlattenSteps \cup {"notify_send", "idle"}
         /\ pc[s] \in SealSteps \cup FlattenSteps
         /\ \A t \in Slots \ {s} : pc'[t] = pc[t] /\ who'[t] = who[t]
         /\ audit \subseteq audit'
<1>1. CASE SealSkip(s)
  BY <1>1 DEF SealSkip, Finish, TypeOK, SlotTypeOK, SealSteps
<1>2. CASE SealLoad(s) \/ SealUpload(s) \/ SealRecord(s) \/ SealCertify(s)
  BY <1>2 DEF SealLoad, SealUpload, SealRecord, SealCertify, Goto, TypeOK,
     SlotTypeOK, SealSteps, log
<1>3. CASE SealComplete(s) \/ SealAudit(s)
  BY <1>3 DEF SealComplete, SealAudit, Log, Goto, TypeOK, SlotTypeOK, SealSteps,
     log
<1>4. CASE SealMail(s)
  BY <1>4 DEF SealMail, Finish, TypeOK, SlotTypeOK, SealSteps
<1>5. CASE FlattenLoad(s) \/ FlattenUpload(s) \/ FlattenRecord(s)
  BY <1>5 DEF FlattenLoad, FlattenUpload, FlattenRecord, Goto, TypeOK,
     SlotTypeOK, FlattenSteps, log
<1>6. CASE FlattenSkip(s)
  BY <1>6 DEF FlattenSkip, TypeOK, SlotTypeOK, FlattenSteps, log
<1>7. CASE FlattenEnd(s)
  BY <1>7 DEF FlattenEnd, Goto, Finish, TypeOK, SlotTypeOK, FlattenSteps, log
<1>8. QED
  BY <1>1, <1>2, <1>3, <1>4, <1>5, <1>6, <1>7 DEF SealingStep

\* The sender's steps touch of the recipients' rows only the status.
LEMMA SenderFrame ==
  ASSUME TypeOK, NEW s \in Slots, SenderStep(s)
  PROVE  /\ UNCHANGED <<consentedAt, consents, signings, expired>>
         /\ pc'[s] \in SenderSteps \cup {"idle"}
         /\ \A t \in Slots \ {s} : pc'[t] = pc[t] /\ who'[t] = who[t]
         /\ audit \subseteq audit'
<1>1. CASE SendAudit(s) \/ SendCommit(s) \/ VoidCommit(s)
  BY <1>1 DEF SendAudit, SendCommit, VoidCommit, Goto, Log, TypeOK, SlotTypeOK,
     SenderSteps, people, log
<1>2. CASE SendMail(s) \/ VoidAudit(s)
  BY <1>2 DEF SendMail, VoidAudit, Finish, Log, TypeOK, SlotTypeOK, SenderSteps,
     people
<1>3. QED
  BY <1>1, <1>2 DEF SenderStep

\* A recipient's step that is none of the four that touch consent or a
\* signature: what ConsentHeld speaks of is left alone.
LEMMA RecipientFrame ==
  ASSUME TypeOK, NEW s \in Slots,
         SignLose(s) \/ SignRecheck(s) \/ NotifySend(s) \/ NotifyMark(s)
           \/ NotifyAudit(s) \/ DeclineCommit(s) \/ DeclineAudit(s)
  PROVE  /\ UNCHANGED <<consentedAt, consents, signings, expired>>
         /\ pc'[s] \in {"seal_load", "flatten_load", "notify_send", "notify_mark",
                        "notify_audit", "decline_audit", "idle"}
         /\ \A t \in Slots \ {s} : pc'[t] = pc[t] /\ who'[t] = who[t]
         /\ audit \subseteq audit'
<1>1. CASE SignLose(s) \/ DeclineAudit(s)
  BY <1>1 DEF SignLose, DeclineAudit, Finish, Log, TypeOK, SlotTypeOK, people, log
<1>2. CASE SignRecheck(s)
  BY <1>2 DEF SignRecheck, Goto, TypeOK, SlotTypeOK, people, log
<1>3. CASE NotifySend(s)
  BY <1>3 DEF NotifySend, TypeOK, SlotTypeOK, people, log
<1>4. CASE NotifyMark(s) \/ DeclineCommit(s)
  BY <1>4 DEF NotifyMark, DeclineCommit, Goto, TypeOK, SlotTypeOK, log
<1>5. CASE NotifyAudit(s)
  BY <1>5 DEF NotifyAudit, Goto, Finish, Log, TypeOK, SlotTypeOK, people
<1>6. QED
  BY <1>1, <1>2, <1>3, <1>4, <1>5

\* Consent holds on when rows of consent only grow, signatures stay, and no
\* request newly stands between a consent write and what relies on it.
LEMMA ConsentKept ==
  ASSUME ConsentHeld, UNCHANGED <<consentedAt, consents, signings>>,
         \A t \in Slots : pc'[t] \in {"consent_stamp", "sign_commit"} =>
                            pc'[t] = pc[t] /\ who'[t] = who[t]
  PROVE  ConsentHeld'
  BY DEF ConsentHeld, HasSigned

\* Every step keeps consent ahead of signatures.
LEMMA ConsentStep ==
  ASSUME TypeOK, ActorKnown, ConsentHeld, [Next]_vars
  PROVE  ConsentHeld'
<1>1. ASSUME NEW s \in Slots, RecipientStep(s) PROVE ConsentHeld'
  <2>w. pc[s] \in {"consent_record", "consent_stamp", "sign_commit"} =>
          who[s] \in Recipients
    BY DEF ActorKnown, SenderSteps
  <2>1. CASE ConsentRecord(s)
    <3>1. /\ consents' = [consents EXCEPT ![who[s]] = @ + 1]
          /\ UNCHANGED <<consentedAt, signings, who>>
          /\ who[s] \in Recipients
          /\ pc' = [pc EXCEPT ![s] = "consent_stamp"]
      BY <2>1, <2>w DEF ConsentRecord, Goto
    <3>2. \A r \in Recipients : consents[r] > 0 => consents'[r] > 0
      BY <3>1 DEF TypeOK, StoreTypeOK
    <3>3. consents'[who[s]] > 0
      BY <3>1 DEF TypeOK, StoreTypeOK
    <3>4. \A t \in Slots : pc'[t] = "consent_stamp" => consents'[who[t]] > 0
      <4>1. TAKE t \in Slots
      <4>2. CASE t = s
        BY <3>3, <4>2
      <4>3. CASE t # s
        <5>1. ASSUME pc'[t] = "consent_stamp"
              PROVE  who[t] \in Recipients /\ consents[who[t]] > 0
          BY <3>1, <4>3, <5>1 DEF ConsentHeld, ActorKnown, SenderSteps, TypeOK,
             SlotTypeOK
        <5>2. QED  BY <5>1, <3>2
      <4>4. QED  BY <4>2, <4>3
    <3>5. QED
      BY <3>1, <3>2, <3>4 DEF ConsentHeld, HasSigned, TypeOK, StoreTypeOK,
         SlotTypeOK
  <2>2. CASE ConsentStamp(s)
    BY <2>2, <2>w DEF ConsentStamp, Goto, ConsentHeld, HasSigned, TypeOK,
       SlotTypeOK
  <2>3. CASE ConsentAudit(s)
    BY <2>3, ConsentKept DEF ConsentAudit, Finish, TypeOK, SlotTypeOK, people
  <2>4. CASE SignCommit(s)
    <3>1. /\ signings' = [signings EXCEPT ![who[s]] = @ + 1]
          /\ UNCHANGED <<consentedAt, consents, who>>
          /\ pc[s] = "sign_commit" /\ pc' = [pc EXCEPT ![s] = "sign_recheck"]
      BY <2>4 DEF SignCommit, Goto
    <3>2. HasSigned' \subseteq HasSigned \cup {who[s]}
      BY <3>1 DEF HasSigned, TypeOK, StoreTypeOK
    <3>3. who[s] \in consentedAt
      BY <3>1 DEF ConsentHeld
    <3>4. \A t \in Slots : pc'[t] \in {"consent_stamp", "sign_commit"} =>
                             pc'[t] = pc[t] /\ who'[t] = who[t]
      BY <3>1 DEF TypeOK, SlotTypeOK
    <3>5. QED
      BY <3>1, <3>2, <3>3, <3>4 DEF ConsentHeld
  <2>5. CASE \/ SignLose(s) \/ SignRecheck(s) \/ NotifySend(s)
             \/ NotifyMark(s) \/ NotifyAudit(s)
             \/ DeclineCommit(s) \/ DeclineAudit(s)
    BY <2>5, RecipientFrame, ConsentKept
  <2>6. QED
    BY <1>1, <2>1, <2>2, <2>3, <2>4, <2>5 DEF RecipientStep
<1>2. ASSUME NEW s \in Slots, SealingStep(s) PROVE ConsentHeld'
  BY <1>2, SealingFrame, ConsentKept DEF people, SealSteps, FlattenSteps
<1>3. ASSUME NEW s \in Slots, SenderStep(s) PROVE ConsentHeld'
  BY <1>3, SenderFrame, ConsentKept DEF SenderSteps
<1>4. ASSUME NEW s \in Slots, Request(s) PROVE ConsentHeld'
  <2>1. CASE SendBegin(s) \/ VoidBegin(s)
    BY <2>1, ConsentKept DEF SendBegin, VoidBegin, Begin, TypeOK, SlotTypeOK,
       people
  <2>2. ASSUME NEW r \in Recipients, ConsentBegin(s, r) \/ DeclineBegin(s, r)
        PROVE  ConsentHeld'
    BY <2>2, ConsentKept DEF ConsentBegin, DeclineBegin, Begin, TypeOK,
       SlotTypeOK, people
  <2>3. ASSUME NEW r \in Recipients, SignBegin(s, r) PROVE ConsentHeld'
    BY <2>3 DEF SignBegin, CanSign, Begin, ConsentHeld, HasSigned, TypeOK,
       SlotTypeOK, people
  <2>4. QED
    BY <1>4, <2>1, <2>2, <2>3 DEF Request
<1>5. ASSUME NEW s \in Slots, Abort(s) PROVE ConsentHeld'
  BY <1>5, ConsentKept DEF Abort, Finish, TypeOK, SlotTypeOK, people
<1>6. ASSUME NEW r \in Recipients, Expire(r) PROVE ConsentHeld'
  BY <1>6, ConsentKept DEF Expire, slot
<1>7. CASE UNCHANGED vars
  BY <1>7, ConsentKept DEF vars, people, slot
<1>8. QED
  BY <1>1, <1>2, <1>3, <1>4, <1>5, <1>6, <1>7 DEF Next, Step

\* The audit row of the send stays ahead when statuses and consents that it
\* allows appear only after it.
LEMMA SentKept ==
  ASSUME SentHeld, audit \subseteq audit', consentedAt' = consentedAt,
         status' = "SENT" => status = "SENT" \/ SentOnRecord',
         \A t \in Slots :
           pc'[t] \in ConsentSteps \cup {"send_commit", "send_mail"} =>
             pc[t] \in ConsentSteps \cup {"send_commit", "send_mail"}
               \/ SentOnRecord'
  PROVE  SentHeld'
  BY DEF SentHeld, SentOnRecord

\* Every step keeps the audit row of the send ahead of what a sent envelope
\* allows.
LEMMA SentStep ==
  ASSUME TypeOK, SentHeld, [Next]_vars
  PROVE  SentHeld'
<1>1. ASSUME NEW s \in Slots, RecipientStep(s) PROVE SentHeld'
  <2>1. CASE ConsentRecord(s)
    BY <2>1, SentKept DEF ConsentRecord, Goto, ConsentSteps, TypeOK, SlotTypeOK,
       row, log
  <2>2. CASE ConsentStamp(s)
    <3>1. SentOnRecord /\ audit' = audit
      BY <2>2 DEF ConsentStamp, Goto, ConsentSteps, SentHeld, log
    <3>2. QED  BY <3>1 DEF SentHeld, SentOnRecord
  <2>3. CASE ConsentAudit(s)
    BY <2>3, SentKept DEF ConsentAudit, Finish, Log, ConsentSteps, TypeOK,
       SlotTypeOK, row, people
  <2>4. CASE SignCommit(s)
    BY <2>4, SentKept DEF SignCommit, Goto, Log, ConsentSteps, TypeOK,
       SlotTypeOK, row
  <2>5. CASE \/ SignLose(s) \/ SignRecheck(s) \/ NotifySend(s)
             \/ NotifyMark(s) \/ NotifyAudit(s)
             \/ DeclineCommit(s) \/ DeclineAudit(s)
    <3>1. status' = status \/ status' = "DECLINED"
      BY <2>5 DEF SignLose, SignRecheck, NotifySend, NotifyMark, NotifyAudit,
         DeclineCommit, DeclineAudit, row
    <3>2. QED
      BY <2>5, <3>1, RecipientFrame, SentKept DEF ConsentSteps
  <2>6. QED
    BY <1>1, <2>1, <2>2, <2>3, <2>4, <2>5 DEF RecipientStep
<1>2. ASSUME NEW s \in Slots, SealingStep(s) PROVE SentHeld'
  <2>1. status' = status \/ status' = "COMPLETED"
    BY <1>2 DEF SealingStep, SealSkip, SealLoad, SealUpload, SealRecord,
       SealCertify, SealComplete, SealAudit, SealMail, FlattenLoad, FlattenSkip,
       FlattenUpload, FlattenRecord, FlattenEnd, row
  <2>2. QED
    BY <1>2, <2>1, SealingFrame, SentKept
    DEF people, ConsentSteps, SealSteps, FlattenSteps
<1>3. ASSUME NEW s \in Slots, SenderStep(s) PROVE SentHeld'
  <2>1. CASE SendAudit(s)
    BY <2>1, SentKept DEF SendAudit, Goto, Log, SentOnRecord, TypeOK,
       SlotTypeOK, row, people
  <2>2. CASE SendCommit(s)
    <3>1. SentOnRecord /\ audit' = audit
      BY <2>2 DEF SendCommit, Goto, SentHeld, log
    <3>2. QED  BY <3>1 DEF SentHeld, SentOnRecord
  <2>3. CASE SendMail(s) \/ VoidCommit(s) \/ VoidAudit(s)
    <3>1. status' = status \/ status' = "VOIDED"
      BY <2>3 DEF SendMail, VoidCommit, VoidAudit, row
    <3>2. pc'[s] \in {"void_audit", "idle"}
      BY <2>3 DEF SendMail, VoidCommit, VoidAudit, Goto, Finish, TypeOK,
         SlotTypeOK
    <3>3. QED
      BY <1>3, <3>1, <3>2, SenderFrame, SentKept DEF ConsentSteps
  <2>4. QED
    BY <1>3, <2>1, <2>2, <2>3 DEF SenderStep
<1>4. ASSUME NEW s \in Slots, Request(s) PROVE SentHeld'
  <2>1. CASE SendBegin(s) \/ VoidBegin(s)
    BY <2>1, SentKept DEF SendBegin, VoidBegin, Begin, ConsentSteps, TypeOK,
       SlotTypeOK, row, people, log
  <2>2. ASSUME NEW r \in Recipients, ConsentBegin(s, r) PROVE SentHeld'
    <3>1. SentOnRecord /\ audit' = audit
      BY <2>2 DEF ConsentBegin, CanConsent, SentHeld, log
    <3>2. QED
      BY <2>2, <3>1, SentKept DEF ConsentBegin, SentOnRecord, row, people
  <2>3. ASSUME NEW r \in Recipients, SignBegin(s, r) \/ DeclineBegin(s, r)
        PROVE  SentHeld'
    BY <2>3, SentKept DEF SignBegin, DeclineBegin, Begin, ConsentSteps, TypeOK,
       SlotTypeOK, row, people, log
  <2>4. QED
    BY <1>4, <2>1, <2>2, <2>3 DEF Request
<1>5. ASSUME NEW s \in Slots, Abort(s) PROVE SentHeld'
  BY <1>5, SentKept DEF Abort, Finish, ConsentSteps, TypeOK, SlotTypeOK, row,
     people, log
<1>6. ASSUME NEW r \in Recipients, Expire(r) PROVE SentHeld'
  BY <1>6, SentKept DEF Expire, slot, row, log
<1>7. CASE UNCHANGED vars
  BY <1>7, SentKept DEF vars, people, slot, row, log
<1>8. QED
  BY <1>1, <1>2, <1>3, <1>4, <1>5, <1>6, <1>7 DEF Next, Step

-----------------------------------------------------------------------------
\* Theorems.

\* Types, consent and the send's audit row are kept together.
Evidence == TypeOK /\ ActorKnown /\ ConsentHeld /\ SentHeld

\* The part of the invariant the legal evidence rests on holds throughout.
LEMMA EvidenceHolds == Spec => []Evidence
<1>1. Init => Evidence
  <2> SUFFICES ASSUME Init PROVE ConsentHeld /\ SentHeld
    BY TypeInit DEF Evidence
  <2> QED
    BY DEF Init, ConsentHeld, SentHeld, HasSigned, NoValues, ConsentSteps
<1>2. Evidence /\ [Next]_vars => Evidence'
  BY TypeStep, ConsentStep, SentStep DEF Evidence
<1>3. QED
  BY <1>1, <1>2, PTL DEF Spec

\* Nobody signs an envelope without the stamp and the row of an accepted
\* disclosure, whatever requests interleave or die (consent.ts writes the two
\* in separate statements, the sign route tests one of them).
THEOREM SignedWithConsent == Spec => []ConsentBeforeSigning
<1>1. Evidence => ConsentBeforeSigning
  BY DEF Evidence, ConsentHeld, ConsentBeforeSigning
<1>2. QED
  BY <1>1, EvidenceHolds, PTL

\* No consent and no signature, and no status SENT, precedes the audit row of
\* the send, although handleSend commits that row outside its transaction.
THEOREM SentIsOnRecord == Spec => []EvidenceFollowsSend
<1>1. Evidence => EvidenceFollowsSend
  BY DEF Evidence, ConsentHeld, SentHeld, EvidenceFollowsSend
<1>2. QED
  BY <1>1, EvidenceHolds, PTL

-----------------------------------------------------------------------------
\* Frames.

\* A step of one request touches no other request's slot.
LEMMA SlotsApart ==
  ASSUME TypeOK, NEW s \in Slots, Request(s) \/ Step(s) \/ Abort(s)
  PROVE  \A t \in Slots \ {s} :
           /\ pc'[t] = pc[t] /\ who'[t] = who[t] /\ batch'[t] = batch[t]
           /\ view'[t] = view[t] /\ doc'[t] = doc[t] /\ run'[t] = run[t]
<1> USE DEF TypeOK, SlotTypeOK, Goto, Finish, Begin, load
<1>1. CASE RecipientStep(s)
  <2>1. CASE ConsentRecord(s) \/ ConsentStamp(s) \/ ConsentAudit(s)
    BY <2>1 DEF ConsentRecord, ConsentStamp, ConsentAudit
  <2>2. CASE SignCommit(s) \/ SignLose(s) \/ DeclineCommit(s) \/ DeclineAudit(s)
    BY <2>2 DEF SignCommit, SignLose, DeclineCommit, DeclineAudit
  <2>3. CASE SignRecheck(s)
    BY <2>3 DEF SignRecheck
  <2>4. CASE NotifySend(s) \/ NotifyMark(s)
    BY <2>4 DEF NotifySend, NotifyMark
  <2>5. CASE NotifyAudit(s)
    BY <2>5 DEF NotifyAudit
  <2>6. QED
    BY <1>1, <2>1, <2>2, <2>3, <2>4, <2>5 DEF RecipientStep
<1>2. CASE SealingStep(s)
  <2>1. CASE SealSkip(s) \/ SealLoad(s) \/ SealUpload(s) \/ SealRecord(s)
    BY <2>1 DEF SealSkip, SealLoad, SealUpload, SealRecord
  <2>2. CASE SealCertify(s) \/ SealComplete(s) \/ SealAudit(s) \/ SealMail(s)
    BY <2>2 DEF SealCertify, SealComplete, SealAudit, SealMail
  <2>3. CASE FlattenLoad(s) \/ FlattenSkip(s) \/ FlattenUpload(s)
    BY <2>3 DEF FlattenLoad, FlattenSkip, FlattenUpload
  <2>4. CASE FlattenRecord(s) \/ FlattenEnd(s)
    BY <2>4 DEF FlattenRecord, FlattenEnd
  <2>5. QED
    BY <1>2, <2>1, <2>2, <2>3, <2>4 DEF SealingStep
<1>3. CASE SenderStep(s)
  BY <1>3 DEF SenderStep, SendAudit, SendCommit, SendMail, VoidCommit, VoidAudit
<1>4. CASE Request(s)
  BY <1>4 DEF Request, SendBegin, VoidBegin, ConsentBegin, SignBegin,
     DeclineBegin
<1>5. CASE Abort(s)
  BY <1>5 DEF Abort
<1>6. QED
  BY <1>1, <1>2, <1>3, <1>4, <1>5 DEF Step

\* What a step of slot s may change of the rows and files, by kind of step:
\* outside SignCommit no signature appears, outside sealing and flattening
\* no file changes, and outside SealComplete nothing is stamped.
LEMMA SignaturesFrame ==
  ASSUME NEW s \in Slots,
         Request(s) \/ Abort(s) \/ SealingStep(s) \/ SenderStep(s)
           \/ (RecipientStep(s) /\ ~SignCommit(s))
  PROVE  UNCHANGED signings
<1> USE DEF people
<1>1. CASE RecipientStep(s) /\ ~SignCommit(s)
  BY <1>1 DEF RecipientStep, ConsentRecord, ConsentStamp, ConsentAudit,
     SignLose, SignRecheck, NotifySend, NotifyMark, NotifyAudit, DeclineCommit,
     DeclineAudit
<1>2. CASE SealingStep(s)
  BY <1>2 DEF SealingStep, SealSkip, SealLoad, SealUpload, SealRecord,
     SealCertify, SealComplete, SealAudit, SealMail, FlattenLoad, FlattenSkip,
     FlattenUpload, FlattenRecord, FlattenEnd
<1>3. CASE SenderStep(s) \/ Request(s) \/ Abort(s)
  BY <1>3 DEF SenderStep, SendAudit, SendCommit, SendMail, VoidCommit,
     VoidAudit, Request, SendBegin, VoidBegin, ConsentBegin, SignBegin,
     DeclineBegin, Abort
<1>4. QED  BY <1>1, <1>2, <1>3

LEMMA FilesFrame ==
  ASSUME NEW s \in Slots,
         Request(s) \/ Abort(s) \/ RecipientStep(s) \/ SenderStep(s)
  PROVE  UNCHANGED <<documentHash, objects, certificate, completedAt>>
<1> USE DEF files, row
<1>1. CASE RecipientStep(s)
  BY <1>1 DEF RecipientStep, ConsentRecord, ConsentStamp, ConsentAudit,
     SignCommit, SignLose, SignRecheck, NotifySend, NotifyMark, NotifyAudit,
     DeclineCommit, DeclineAudit
<1>2. CASE SenderStep(s) \/ Request(s) \/ Abort(s)
  BY <1>2 DEF SenderStep, SendAudit, SendCommit, SendMail, VoidCommit,
     VoidAudit, Request, SendBegin, VoidBegin, ConsentBegin, SignBegin,
     DeclineBegin, Abort
<1>3. QED  BY <1>1, <1>2

\* Where a request that is no sealing or flattening step leads.
LEMMA OutsideFiles ==
  ASSUME TypeOK, NEW s \in Slots,
         Request(s) \/ Abort(s) \/ SenderStep(s)
           \/ (RecipientStep(s) /\ ~SignRecheck(s))
  PROVE  pc'[s] \notin SealSteps \cup FlattenSteps
<1> USE DEF TypeOK, SlotTypeOK, Goto, Finish, Begin, SealSteps, FlattenSteps
<1>1. CASE RecipientStep(s) /\ ~SignRecheck(s)
  <2>1. CASE ConsentRecord(s) \/ ConsentStamp(s) \/ ConsentAudit(s)
    BY <2>1 DEF ConsentRecord, ConsentStamp, ConsentAudit
  <2>2. CASE SignCommit(s) \/ SignLose(s) \/ DeclineCommit(s) \/ DeclineAudit(s)
    BY <2>2 DEF SignCommit, SignLose, DeclineCommit, DeclineAudit
  <2>3. CASE NotifySend(s) \/ NotifyMark(s) \/ NotifyAudit(s)
    BY <2>3 DEF NotifySend, NotifyMark, NotifyAudit
  <2>4. QED
    BY <1>1, <2>1, <2>2, <2>3 DEF RecipientStep
<1>2. CASE SenderStep(s)
  BY <1>2 DEF SenderStep, SendAudit, SendCommit, SendMail, VoidCommit, VoidAudit
<1>3. CASE Request(s)
  BY <1>3 DEF Request, SendBegin, VoidBegin, ConsentBegin, SignBegin,
     DeclineBegin
<1>4. CASE Abort(s)
  BY <1>4 DEF Abort
<1>5. QED  BY <1>1, <1>2, <1>3, <1>4

\* Every step keeps the document index of a run on a document.
LEMMA DocStep ==
  ASSUME TypeOK, DocInRange, [Next]_vars
  PROVE  DocInRange'
<1> DEFINE InRange(t) ==
      /\ pc[t] \in {"seal_upload", "seal_record", "flatten_record"} =>
           doc[t] \in Docs
      /\ pc[t] = "flatten_doc" => doc[t] \in 1..(DocCount + 1)
<1>1. ASSUME NEW s \in Slots, Request(s) \/ Step(s) \/ Abort(s),
             InRange(s)'
      PROVE  DocInRange'
  <2>1. \A t \in Slots \ {s} : InRange(t)'
    BY <1>1, SlotsApart DEF DocInRange
  <2>2. QED  BY <1>1, <2>1 DEF DocInRange
<1> HIDE DEF InRange
<1>2. ASSUME NEW s \in Slots,
             Request(s) \/ Abort(s) \/ SenderStep(s)
               \/ (RecipientStep(s) /\ ~SignRecheck(s))
      PROVE  DocInRange'
  <2>1. InRange(s)'
    BY <1>2, OutsideFiles DEF InRange, SealSteps, FlattenSteps
  <2>2. QED
    BY <1>1, <1>2, <2>1 DEF Step
<1>3. ASSUME NEW s \in Slots, SignRecheck(s)
      PROVE  DocInRange'
  <2>1. InRange(s)'
    BY <1>3 DEF SignRecheck, Goto, InRange, TypeOK, SlotTypeOK
  <2>2. QED
    BY <1>1, <1>3, <2>1 DEF Step, RecipientStep
<1>4. ASSUME NEW s \in Slots, SealingStep(s)
      PROVE  DocInRange'
  <2> /\ DocCount \in Nat \ {0}
      /\ doc \in [Slots -> Nat]
      /\ pc \in [Slots -> Steps]
    BY CoreAssumption DEF TypeOK, SlotTypeOK
  <2>0. InRange(s)
    BY DEF DocInRange, InRange
  <2> USE DEF InRange, Goto, Docs
  <2>1. CASE SealSkip(s) \/ SealMail(s)
    <3>1. InRange(s)'
      BY <2>1 DEF SealSkip, SealMail, Finish
    <3>2. QED  BY <1>1, <1>4, <3>1 DEF Step
  <2>2. CASE SealLoad(s) \/ FlattenLoad(s)
    <3>1. InRange(s)'
      BY <2>2 DEF SealLoad, FlattenLoad
    <3>2. QED  BY <1>1, <1>4, <3>1 DEF Step
  <2>3. CASE SealUpload(s) \/ FlattenUpload(s)
    <3>1. InRange(s)'
      BY <2>0, <2>3 DEF SealUpload, FlattenUpload, load
    <3>2. QED  BY <1>1, <1>4, <3>1 DEF Step
  <2>4. CASE SealRecord(s)
    <3>1. InRange(s)'
      BY <2>0, <2>4 DEF SealRecord
    <3>2. QED  BY <1>1, <1>4, <3>1 DEF Step
  <2>5. CASE SealCertify(s) \/ SealComplete(s) \/ SealAudit(s)
    <3>1. InRange(s)'
      BY <2>5 DEF SealCertify, SealComplete, SealAudit
    <3>2. QED  BY <1>1, <1>4, <3>1 DEF Step
  <2>6. CASE FlattenSkip(s)
    <3>1. InRange(s)'
      BY <2>0, <2>6 DEF FlattenSkip
    <3>2. QED  BY <1>1, <1>4, <3>1 DEF Step
  <2>7. CASE FlattenRecord(s)
    <3>1. InRange(s)'
      BY <2>0, <2>7 DEF FlattenRecord
    <3>2. QED  BY <1>1, <1>4, <3>1 DEF Step
  <2>8. CASE FlattenEnd(s)
    <3>1. InRange(s)'
      BY <2>8 DEF FlattenEnd, Finish
    <3>2. QED  BY <1>1, <1>4, <3>1 DEF Step
  <2>9. QED
    BY <1>4, <2>1, <2>2, <2>3, <2>4, <2>5, <2>6, <2>7, <2>8 DEF SealingStep
<1>5. ASSUME NEW r \in Recipients, Expire(r) PROVE DocInRange'
  BY <1>5 DEF Expire, slot, DocInRange
<1>6. CASE UNCHANGED vars
  BY <1>6 DEF vars, slot, DocInRange
<1>7. QED
  BY <1>2, <1>3, <1>4, <1>5, <1>6 DEF Next, Step

-----------------------------------------------------------------------------
\* What stays once it is there.

\* Sealed stays sealed, signed stays signed, stamped stays stamped.
Lasts ==
  /\ HasSigned \subseteq HasSigned'
  /\ \A d \in Docs : DocSealed(d) => DocSealed(d)'
  /\ \A d \in Docs : objects[<<"sealed", Name[d]>>].run > 0
                       => objects'[<<"sealed", Name[d]>>].run > 0
  /\ certificate.run > 0 => certificate'.run > 0
  /\ completedAt # 0 => completedAt' # 0

\* What a sealing run writes carries every signer it has loaded.
LEMMA BakedCarries ==
  ASSUME NEW d \in Docs, NEW values \in [Recipients -> Nat], NEW n \in Nat,
         n > 0, \A r \in Signers : values[r] > 0
  PROVE  CarriesEverySigner(d, Baked(d, values, n)) /\ Baked(d, values, n).run > 0
  BY CoreAssumption DEF CarriesEverySigner, Baked

\* Other sealing runs, flatteners and requests may overwrite a file or a row,
\* but only with one as good.
LEMMA LastsStep ==
  ASSUME TypeOK, DocInRange, SealingHeld, [Next]_vars
  PROVE  Lasts
<1> /\ runs \in Nat /\ signings \in [Recipients -> Nat]
    /\ documentHash \in [Docs -> Contents] /\ objects \in [Keys -> Contents]
    /\ run \in [Slots -> Nat] /\ view \in [Slots -> [Recipients -> Nat]]
  BY DEF TypeOK, StoreTypeOK, SlotTypeOK
<1>0. ASSUME UNCHANGED <<documentHash, objects, certificate, completedAt>>,
             HasSigned \subseteq HasSigned'
      PROVE  Lasts
  BY <1>0 DEF Lasts, DocSealed, CarriesEverySigner
<1>1. ASSUME NEW s \in Slots, SignCommit(s) PROVE Lasts
  <2>1. HasSigned \subseteq HasSigned'
    BY <1>1 DEF SignCommit, HasSigned
  <2>2. UNCHANGED <<documentHash, objects, certificate, completedAt>>
    BY <1>1, FilesFrame DEF RecipientStep
  <2>3. QED  BY <1>0, <2>1, <2>2
<1>2. ASSUME NEW s \in Slots,
             Request(s) \/ Abort(s) \/ SenderStep(s)
               \/ (RecipientStep(s) /\ ~SignCommit(s))
      PROVE  Lasts
  BY <1>0, <1>2, SignaturesFrame, FilesFrame DEF HasSigned
<1>3. ASSUME NEW s \in Slots, SealingStep(s) PROVE Lasts
  <2>h. HasSigned' = HasSigned
    BY <1>3, SignaturesFrame DEF HasSigned
  <2>s. SealHeld(s)
    BY DEF SealingHeld
  <2>1. CASE SealSkip(s) \/ SealLoad(s) \/ SealAudit(s) \/ SealMail(s)
    BY <1>0, <2>h, <2>1 DEF SealSkip, SealLoad, SealAudit, SealMail, row, files
  <2>2. CASE FlattenLoad(s) \/ FlattenSkip(s) \/ FlattenRecord(s) \/ FlattenEnd(s)
    BY <1>0, <2>h, <2>2 DEF FlattenLoad, FlattenSkip, FlattenRecord, FlattenEnd,
       row, files
  <2>3. CASE SealUpload(s)
    <3>1. /\ run[s] > 0 /\ \A r \in Signers : view[s][r] > 0
          /\ doc[s] \in Docs
      BY <2>3, <2>s DEF SealUpload, Goto, SealHeld, SealSteps, DocInRange
    <3>2. Baked(doc[s], view[s], run[s]).run > 0
      BY <3>1, BakedCarries
    <3>3. /\ objects' = [objects EXCEPT ![<<"sealed", Name[doc[s]]>>] =
                           Baked(doc[s], view[s], run[s])]
          /\ UNCHANGED <<documentHash, certificate, completedAt>>
      BY <2>3 DEF SealUpload, row
    <3>4. ASSUME NEW d \in Docs, objects[<<"sealed", Name[d]>>].run > 0
          PROVE  objects'[<<"sealed", Name[d]>>].run > 0
      <4>1. <<"sealed", Name[d]>> \in Keys
        BY KeyType DEF Folders
      <4>2. QED  BY <3>2, <3>3, <3>4, <4>1
    <3>5. QED
      BY <2>h, <3>3, <3>4 DEF Lasts, DocSealed, CarriesEverySigner
  <2>4. CASE SealRecord(s)
    <3>1. /\ run[s] > 0 /\ \A r \in Signers : view[s][r] > 0
          /\ doc[s] \in Docs
      BY <2>4, <2>s DEF SealRecord, Goto, SealHeld, SealSteps, DocInRange
    <3>2. CarriesEverySigner(doc[s], Baked(doc[s], view[s], run[s]))
      BY <3>1, BakedCarries
    <3>3. /\ documentHash' = [documentHash EXCEPT ![doc[s]] =
                                Baked(doc[s], view[s], run[s])]
          /\ UNCHANGED <<objects, certificate, completedAt>>
      BY <2>4 DEF SealRecord, row
    <3>4. ASSUME NEW d \in Docs, DocSealed(d) PROVE DocSealed(d)'
      BY <3>2, <3>3, <3>4 DEF DocSealed, CarriesEverySigner
    <3>5. QED
      BY <2>h, <3>3, <3>4 DEF Lasts
  <2>5. CASE SealCertify(s)
    <3>1. run[s] > 0
      BY <2>5, <2>s DEF SealCertify, Goto, SealHeld, SealSteps
    <3>2. QED
      BY <2>h, <2>5, <3>1 DEF SealCertify, row, Lasts, DocSealed,
         CarriesEverySigner
  <2>6. CASE SealComplete(s)
    <3>1. run[s] > 0
      BY <2>6, <2>s DEF SealComplete, Goto, SealHeld, SealSteps
    <3>2. QED
      BY <2>h, <2>6, <3>1 DEF SealComplete, files, Lasts, DocSealed,
         CarriesEverySigner
  <2>7. CASE FlattenUpload(s)
    <3>1. objects' = [objects EXCEPT ![<<"flattened", Name[doc[s]]>>] =
                        Baked(doc[s], view[s], 0)]
      BY <2>7 DEF FlattenUpload
    <3>2. \A d \in Docs : objects'[<<"sealed", Name[d]>>] =
                            objects[<<"sealed", Name[d]>>]
      BY <3>1, KeyType DEF Folders
    <3>3. QED
      BY <2>h, <2>7, <3>2 DEF FlattenUpload, row, Lasts, DocSealed,
         CarriesEverySigner
  <2>8. QED
    BY <1>3, <2>1, <2>2, <2>3, <2>4, <2>5, <2>6, <2>7 DEF SealingStep
<1>4. ASSUME NEW r \in Recipients, Expire(r) PROVE Lasts
  BY <1>0, <1>4 DEF Expire, HasSigned, row, files
<1>5. CASE UNCHANGED vars
  BY <1>0, <1>5 DEF vars, HasSigned, row, people, files
<1>6. QED
  BY <1>1, <1>2, <1>3, <1>4, <1>5 DEF Next, Step

-----------------------------------------------------------------------------
\* Completion.

\* A sealing run that stands still keeps all it has reached.
LEMMA SealKept ==
  ASSUME Lasts, DocInRange, NEW t \in Slots, SealHeld(t),
         pc'[t] = pc[t], view'[t] = view[t], doc'[t] = doc[t], run'[t] = run[t]
  PROVE  SealHeld(t)'
<1>1. Signers \subseteq HasSigned => Signers \subseteq HasSigned'
  BY DEF Lasts
<1>2. pc[t] = "seal_record" => doc[t] \in Docs
  BY DEF DocInRange
<1>3. QED
  BY <1>1, <1>2 DEF Lasts, SealHeld, SealSteps

\* Only the signing transaction puts a row at SIGNED.
LEMMA OnlySigningSigns ==
  ASSUME TypeOK, [Next]_vars
  PROVE  SignedNow' \subseteq SignedNow \/ \E s \in Slots : SignCommit(s)
<1>1. ASSUME NEW s \in Slots, RecipientStep(s), ~SignCommit(s)
      PROVE  SignedNow' \subseteq SignedNow
  BY <1>1 DEF RecipientStep, ConsentRecord, ConsentStamp, ConsentAudit,
     SignLose, SignRecheck, NotifySend, NotifyMark, NotifyAudit, DeclineCommit,
     DeclineAudit, people, SignedNow, TypeOK, StoreTypeOK
<1>2. ASSUME NEW s \in Slots, SealingStep(s) PROVE SignedNow' \subseteq SignedNow
  BY <1>2, SealingFrame DEF people, SignedNow
<1>3. ASSUME NEW s \in Slots, SenderStep(s) \/ Request(s) \/ Abort(s)
      PROVE  SignedNow' \subseteq SignedNow
  BY <1>3 DEF SenderStep, SendAudit, SendCommit, SendMail, VoidCommit,
     VoidAudit, Request, SendBegin, VoidBegin, ConsentBegin, SignBegin,
     DeclineBegin, Abort, people, SignedNow
<1>4. ASSUME NEW r \in Recipients, Expire(r) PROVE SignedNow' \subseteq SignedNow
  BY <1>4 DEF Expire, SignedNow
<1>5. CASE UNCHANGED vars
  BY <1>5 DEF vars, people, SignedNow
<1>6. QED
  BY <1>1, <1>2, <1>3, <1>4, <1>5 DEF Next, Step

\* Only signers who have signed read SIGNED.
LEMMA SignedStep ==
  ASSUME TypeOK, SignedNow \subseteq HasSigned, Lasts, [Next]_vars
  PROVE  (SignedNow \subseteq HasSigned)'
<1>1. ASSUME NEW s \in Slots, SignCommit(s)
      PROVE  (SignedNow \subseteq HasSigned)'
  BY <1>1 DEF SignCommit, SignedNow, HasSigned, TypeOK, StoreTypeOK
<1>2. CASE SignedNow' \subseteq SignedNow
  BY <1>2 DEF Lasts
<1>3. QED
  BY <1>1, <1>2, OnlySigningSigns

\* Each step of a sealing run reaches what its next position says.
LEMMA SealHeldStep ==
  ASSUME TypeOK, DocInRange, SealingHeld, Lasts,
         NEW s \in Slots, Request(s) \/ Step(s) \/ Abort(s)
  PROVE  SealHeld(s)'
<1> /\ pc \in [Slots -> Steps] /\ doc \in [Slots -> Nat]
    /\ run \in [Slots -> Nat] /\ runs \in Nat
    /\ view \in [Slots -> [Recipients -> Nat]]
    /\ signings \in [Recipients -> Nat]
    /\ documentHash \in [Docs -> Contents] /\ objects \in [Keys -> Contents]
    /\ DocCount \in Nat \ {0}
  BY CoreAssumption DEF TypeOK, StoreTypeOK, SlotTypeOK
<1>h. SealHeld(s)
  BY DEF SealingHeld
<1>d. pc[s] \in {"seal_upload", "seal_record"} => doc[s] \in Docs
  BY DEF DocInRange
<1>l. \A d \in Docs : DocSealed(d) => DocSealed(d)'
  BY DEF Lasts
<1>g. Signers \subseteq HasSigned => Signers \subseteq HasSigned'
  BY DEF Lasts
<1>0. ASSUME pc'[s] \notin SealSteps PROVE SealHeld(s)'
  BY <1>0 DEF SealHeld, SealSteps
<1>1. CASE Request(s) \/ Abort(s) \/ SenderStep(s)
             \/ (RecipientStep(s) /\ ~SignRecheck(s))
  BY <1>0, <1>1, OutsideFiles
<1>2. CASE SignRecheck(s)
  <2>1. CASE AllSigned(who[s])
    <3>1. pc'[s] = "seal_load"
      BY <1>2, <2>1 DEF SignRecheck, Goto
    <3>2. Signers \subseteq HasSigned'
      BY <2>1, <1>g DEF AllSigned, SealingHeld
    <3>3. QED  BY <3>1, <3>2 DEF SealHeld, SealSteps
  <2>2. CASE ~AllSigned(who[s])
    <3>1. pc'[s] = "flatten_load"
      BY <1>2, <2>2 DEF SignRecheck, Goto
    <3>2. QED  BY <1>0, <3>1 DEF SealSteps
  <2>3. QED  BY <2>1, <2>2
<1>3. CASE SealingStep(s)
  <2>1. CASE SealSkip(s) \/ SealMail(s) \/ FlattenLoad(s) \/ FlattenSkip(s)
               \/ FlattenUpload(s) \/ FlattenRecord(s) \/ FlattenEnd(s)
    <3>1. pc'[s] \notin SealSteps
      BY <2>1 DEF SealSkip, SealMail, FlattenLoad, FlattenSkip, FlattenUpload,
         FlattenRecord, FlattenEnd, Goto, Finish, SealSteps
    <3>2. QED  BY <1>0, <3>1
  <2>2. CASE SealLoad(s)
    <3>1. /\ pc[s] = "seal_load" /\ pc'[s] = "seal_upload" /\ doc'[s] = 1
          /\ view'[s] = signings /\ run'[s] = runs + 1
      BY <2>2 DEF SealLoad, SealValues, Goto
    <3>2. Signers \subseteq HasSigned
      BY <1>h, <3>1 DEF SealHeld, SealSteps
    <3>3. \A r \in Signers : view'[s][r] > 0
      BY <3>1, <3>2 DEF HasSigned
    <3>4. \A d \in Docs : ~(d < 1)
      BY DEF Docs
    <3>5. QED
      BY <1>g, <3>1, <3>2, <3>3, <3>4 DEF SealHeld, SealSteps
  <2>3. CASE SealUpload(s)
    <3>1. /\ pc[s] = "seal_upload" /\ pc'[s] = "seal_record"
          /\ UNCHANGED <<view, doc, run>>
          /\ objects' = [objects EXCEPT ![<<"sealed", Name[doc[s]]>>] =
                           Baked(doc[s], view[s], run[s])]
      BY <2>3 DEF SealUpload, Goto, load
    <3>2. /\ run[s] > 0 /\ \A r \in Signers : view[s][r] > 0
          /\ Signers \subseteq HasSigned
          /\ \A d \in Docs : d < doc[s] => DocSealed(d)
      BY <1>h, <3>1 DEF SealHeld, SealSteps
    <3>3. <<"sealed", Name[doc[s]]>> \in Keys
      BY <1>d, <3>1, KeyType DEF Folders
    <3>4. objects'[<<"sealed", Name[doc[s]]>>].run > 0
      BY <1>d, <3>1, <3>2, <3>3, BakedCarries
    <3>5. QED
      BY <1>g, <1>l, <3>1, <3>2, <3>4 DEF SealHeld, SealSteps
  <2>4. CASE SealRecord(s)
    <3>1. /\ pc[s] = "seal_record"
          /\ pc'[s] = IF doc[s] < DocCount THEN "seal_upload" ELSE "seal_certify"
          /\ UNCHANGED <<view, run, objects>>
          /\ doc'[s] = doc[s] + 1
          /\ documentHash' = [documentHash EXCEPT ![doc[s]] =
                                Baked(doc[s], view[s], run[s])]
      BY <2>4 DEF SealRecord, Goto
    <3>2. /\ run[s] > 0 /\ \A r \in Signers : view[s][r] > 0
          /\ Signers \subseteq HasSigned
          /\ \A d \in Docs : d < doc[s] => DocSealed(d)
          /\ objects[<<"sealed", Name[doc[s]]>>].run > 0
      BY <1>h, <3>1 DEF SealHeld, SealSteps
    <3>3. CarriesEverySigner(doc[s], Baked(doc[s], view[s], run[s]))
      BY <1>d, <3>1, <3>2, BakedCarries
    <3>4. ASSUME NEW d \in Docs, d < doc[s] + 1 PROVE DocSealed(d)'
      <4>1. CASE d = doc[s]
        <5>1. documentHash'[d] = Baked(d, view[s], run[s])
          BY <3>1, <4>1
        <5>2. objects'[<<"sealed", Name[d]>>].run > 0
          BY <3>1, <3>2, <4>1
        <5>3. CarriesEverySigner(d, Baked(d, view[s], run[s]))
          BY <3>3, <4>1
        <5>4. QED
          BY <5>1, <5>2, <5>3 DEF DocSealed, CarriesEverySigner
      <4>2. CASE d # doc[s]
        BY <1>d, <1>l, <3>1, <3>2, <3>4, <4>2 DEF Docs
      <4>3. QED  BY <4>1, <4>2
    <3>5. CASE doc[s] < DocCount
      <4>1. pc'[s] = "seal_upload"
        BY <3>1, <3>5
      <4>2. QED
        BY <1>g, <3>1, <3>2, <3>4, <4>1 DEF SealHeld, SealSteps
    <3>6. CASE ~(doc[s] < DocCount)
      <4>1. pc'[s] = "seal_certify"
        BY <3>1, <3>6
      <4>2. \A d \in Docs : d < doc[s] + 1
        BY <3>6 DEF Docs
      <4>3. QED
        BY <1>g, <3>1, <3>2, <3>4, <4>1, <4>2 DEF SealHeld, SealSteps
    <3>7. QED  BY <3>5, <3>6
  <2>5. CASE SealCertify(s)
    <3>1. /\ pc[s] = "seal_certify" /\ pc'[s] = "seal_complete"
          /\ UNCHANGED <<view, doc, run>>
          /\ certificate' = [run |-> run[s], listed |-> listed[s]]
      BY <2>5 DEF SealCertify, Goto, load
    <3>2. QED
      BY <1>h, <1>g, <1>l, <3>1 DEF SealHeld, SealSteps
  <2>6. CASE SealComplete(s)
    <3>1. /\ pc[s] = "seal_complete" /\ pc'[s] = "seal_audit"
          /\ UNCHANGED <<view, doc, run, certificate>>
          /\ completedAt' = run[s]
      BY <2>6 DEF SealComplete, Goto, load, files
    <3>2. QED
      BY <1>h, <1>g, <1>l, <3>1 DEF SealHeld, SealSteps
  <2>7. CASE SealAudit(s)
    <3>1. /\ pc[s] = "seal_audit" /\ pc'[s] = "seal_mail"
          /\ UNCHANGED <<view, doc, run, certificate, completedAt>>
      BY <2>7 DEF SealAudit, Goto, load, files, row
    <3>2. QED
      BY <1>h, <1>g, <1>l, <3>1 DEF SealHeld, SealSteps
  <2>8. QED
    BY <1>3, <2>1, <2>2, <2>3, <2>4, <2>5, <2>6, <2>7 DEF SealingStep
<1>4. QED
  BY <1>1, <1>2, <1>3 DEF Step

\* Only the last statement of a sealing run completes an envelope.
LEMMA OnlySealCompletes ==
  ASSUME [Next]_vars
  PROVE  \/ UNCHANGED completedAt /\ (status' = "COMPLETED" => status = "COMPLETED")
         \/ \E s \in Slots : SealComplete(s)
<1> USE DEF row
<1>1. ASSUME NEW s \in Slots, RecipientStep(s)
      PROVE  UNCHANGED completedAt /\ (status' = "COMPLETED" => status = "COMPLETED")
  BY <1>1 DEF RecipientStep, ConsentRecord, ConsentStamp, ConsentAudit,
     SignCommit, SignLose, SignRecheck, NotifySend, NotifyMark, NotifyAudit,
     DeclineCommit, DeclineAudit
<1>2. ASSUME NEW s \in Slots, SealingStep(s), ~SealComplete(s)
      PROVE  UNCHANGED completedAt /\ (status' = "COMPLETED" => status = "COMPLETED")
  BY <1>2 DEF SealingStep, SealSkip, SealLoad, SealUpload, SealRecord,
     SealCertify, SealAudit, SealMail, FlattenLoad, FlattenSkip, FlattenUpload,
     FlattenRecord, FlattenEnd
<1>3. ASSUME NEW s \in Slots, SenderStep(s) \/ Request(s) \/ Abort(s)
      PROVE  UNCHANGED completedAt /\ (status' = "COMPLETED" => status = "COMPLETED")
  BY <1>3 DEF SenderStep, SendAudit, SendCommit, SendMail, VoidCommit,
     VoidAudit, Request, SendBegin, VoidBegin, ConsentBegin, SignBegin,
     DeclineBegin, Abort
<1>4. ASSUME NEW r \in Recipients, Expire(r)
      PROVE  UNCHANGED completedAt /\ (status' = "COMPLETED" => status = "COMPLETED")
  BY <1>4 DEF Expire
<1>5. CASE UNCHANGED vars
  BY <1>5 DEF vars
<1>6. QED
  BY <1>1, <1>2, <1>3, <1>4, <1>5 DEF Next, Step

\* Every step keeps sealing runs where they are and completion earned.
LEMMA SealingStepHolds ==
  ASSUME TypeOK, DocInRange, SealingHeld, [Next]_vars
  PROVE  SealingHeld'
<1>l. Lasts
  BY LastsStep
<1>1. (SignedNow \subseteq HasSigned)'
  BY <1>l, SignedStep DEF SealingHeld
<1>2. (\A s \in Slots : SealHeld(s))'
  <2>1. ASSUME NEW s \in Slots, Request(s) \/ Step(s) \/ Abort(s), NEW t \in Slots
        PROVE  SealHeld(t)'
    <3>1. CASE t = s
      BY <1>l, <2>1, <3>1, SealHeldStep
    <3>2. CASE t # s
      BY <1>l, <2>1, <3>2, SlotsApart, SealKept DEF SealingHeld
    <3>3. QED  BY <3>1, <3>2
  <2>2. ASSUME NEW r \in Recipients, Expire(r), NEW t \in Slots PROVE SealHeld(t)'
    BY <1>l, <2>2, SealKept DEF Expire, slot, SealingHeld
  <2>3. ASSUME UNCHANGED vars, NEW t \in Slots PROVE SealHeld(t)'
    BY <1>l, <2>3, SealKept DEF vars, slot, SealingHeld
  <2>4. QED
    BY <2>1, <2>2, <2>3 DEF Next
<1>3. CASE UNCHANGED completedAt /\ (status' = "COMPLETED" => status = "COMPLETED")
  <2>1. (status = "COMPLETED" => completedAt # 0)'
    BY <1>3 DEF SealingHeld
  <2>2. CompletionIsEarned'
    BY <1>3, <1>l DEF SealingHeld, CompletionIsEarned, Lasts, DocSealed
  <2>3. QED
    BY <1>1, <1>2, <2>1, <2>2 DEF SealingHeld
<1>4. ASSUME NEW s \in Slots, SealComplete(s)
      PROVE  SealingHeld'
  <2>1. /\ run[s] > 0 /\ Signers \subseteq HasSigned /\ certificate.run > 0
        /\ \A d \in Docs : DocSealed(d)
    BY <1>4 DEF SealComplete, Goto, SealingHeld, SealHeld, SealSteps
  <2>2. completedAt' # 0
    BY <1>4, <2>1 DEF SealComplete, TypeOK, SlotTypeOK
  <2>3. CompletionIsEarned'
    BY <1>l, <2>1, <2>2 DEF CompletionIsEarned, Lasts, DocSealed
  <2>4. QED
    BY <1>1, <1>2, <2>2, <2>3 DEF SealingHeld
<1>5. QED
  BY <1>3, <1>4, OnlySealCompletes

-----------------------------------------------------------------------------
\* Webhook events.

\* Audit rows are never removed.
LEMMA AuditGrows ==
  ASSUME TypeOK, [Next]_vars
  PROVE  audit \subseteq audit'
<1> USE DEF log
<1>1. ASSUME NEW s \in Slots, RecipientStep(s) PROVE audit \subseteq audit'
  BY <1>1, RecipientFrame DEF RecipientStep, ConsentRecord, ConsentStamp,
     ConsentAudit, SignCommit, Log
<1>2. ASSUME NEW s \in Slots, Request(s) \/ Abort(s) PROVE audit \subseteq audit'
  BY <1>2 DEF Request, SendBegin, VoidBegin, ConsentBegin, SignBegin,
     DeclineBegin, Abort
<1>3. QED
  BY <1>1, <1>2, SealingFrame, SenderFrame DEF Next, Step, Expire, vars

\* Every step that hands out an event has made it true.
LEMMA EventsStep ==
  ASSUME TypeOK, DocInRange, SealingHeld, SentHeld, EventsAreTrue, [Next]_vars
  PROVE  EventsAreTrue'
<1>a. audit \subseteq audit'
  BY AuditGrows
<1>c. completedAt # 0 => completedAt' # 0
  BY LastsStep DEF Lasts
<1>0. ASSUME NEW e, NEW a,
             scheduled' \subseteq scheduled \cup {<<e, a>>},
             e = "envelope.completed" => completedAt # 0,
             e = "envelope.sent" => SentOnRecord,
             e = "envelope.voided" => <<"ENVELOPE_VOIDED", NoOne>> \in audit'
      PROVE  EventsAreTrue'
  BY <1>0, <1>a, <1>c DEF EventsAreTrue, SentOnRecord
<1>u. ASSUME UNCHANGED scheduled PROVE EventsAreTrue'
  BY <1>u, <1>a, <1>c DEF EventsAreTrue, SentOnRecord
<1>1. ASSUME NEW s \in Slots, RecipientStep(s) PROVE EventsAreTrue'
  <2>1. CASE SignCommit(s)
    BY <2>1, <1>0 DEF SignCommit, Emit
  <2>2. CASE DeclineAudit(s)
    BY <2>2, <1>0 DEF DeclineAudit, Emit
  <2>3. CASE ~SignCommit(s) /\ ~DeclineAudit(s)
    BY <1>1, <2>3, <1>u DEF RecipientStep, ConsentRecord, ConsentStamp,
       ConsentAudit, SignLose, SignRecheck, NotifySend, NotifyMark, NotifyAudit,
       DeclineCommit, log
  <2>4. QED  BY <2>1, <2>2, <2>3
<1>2. ASSUME NEW s \in Slots, SealingStep(s) PROVE EventsAreTrue'
  <2>1. CASE SealSkip(s)
    <3>1. completedAt # 0
      BY <2>1 DEF SealSkip, AlreadyCompleted, SealingHeld
    <3>2. QED  BY <2>1, <3>1, <1>0 DEF SealSkip, Emit
  <2>2. CASE SealMail(s)
    <3>1. completedAt # 0
      BY <2>2 DEF SealMail, SealingHeld, SealHeld
    <3>2. scheduled' = scheduled \cup {<<"envelope.completed", NoOne>>}
      BY <2>2 DEF SealMail, Emit
    <3>3. QED  BY <3>1, <3>2, <1>0
  <2>3. CASE ~SealSkip(s) /\ ~SealMail(s)
    BY <1>2, <2>3, <1>u DEF SealingStep, SealLoad, SealUpload, SealRecord,
       SealCertify, SealComplete, SealAudit, FlattenLoad, FlattenSkip,
       FlattenUpload, FlattenRecord, FlattenEnd, log
  <2>4. QED  BY <2>1, <2>2, <2>3
<1>3. ASSUME NEW s \in Slots, SenderStep(s) PROVE EventsAreTrue'
  <2>1. CASE SendMail(s)
    <3>1. SentOnRecord
      BY <2>1 DEF SendMail, SentHeld
    <3>2. QED  BY <2>1, <3>1, <1>0 DEF SendMail, Emit
  <2>2. CASE VoidAudit(s)
    BY <2>2, <1>0 DEF VoidAudit, Emit, Log
  <2>3. CASE SendAudit(s) \/ SendCommit(s) \/ VoidCommit(s)
    BY <2>3, <1>u DEF SendAudit, SendCommit, VoidCommit, log
  <2>4. QED  BY <1>3, <2>1, <2>2, <2>3 DEF SenderStep
<1>4. ASSUME NEW s \in Slots, Request(s) \/ Abort(s) PROVE EventsAreTrue'
  BY <1>4, <1>u DEF Request, SendBegin, VoidBegin, ConsentBegin, SignBegin,
     DeclineBegin, Abort, log
<1>5. QED
  BY <1>1, <1>2, <1>3, <1>4, <1>u DEF Next, Step, Expire, vars, log

-----------------------------------------------------------------------------
\* Invitations.

\* No write puts a recipient back to PENDING.
LEMMA NeverPendingAgain ==
  ASSUME TypeOK, [Next]_vars, NEW p \in Recipients, rstatus[p] # "PENDING"
  PROVE  rstatus'[p] # "PENDING"
<1> rstatus \in [Recipients -> RStatuses]
  BY DEF TypeOK, StoreTypeOK
<1> USE DEF people
<1>1. ASSUME NEW s \in Slots, RecipientStep(s) PROVE rstatus'[p] # "PENDING"
  BY <1>1 DEF RecipientStep, ConsentRecord, ConsentStamp, ConsentAudit,
     SignCommit, SignLose, SignRecheck, NotifySend, NotifyMark, NotifyAudit,
     DeclineCommit, DeclineAudit
<1>2. ASSUME NEW s \in Slots, SenderStep(s) \/ Request(s) \/ Abort(s)
      PROVE  rstatus'[p] # "PENDING"
  BY <1>2 DEF SenderStep, SendAudit, SendCommit, SendMail, VoidCommit,
     VoidAudit, Request, SendBegin, VoidBegin, ConsentBegin, SignBegin,
     DeclineBegin, Abort
<1>3. QED
  BY <1>1, <1>2, SealingFrame DEF Next, Step, Expire, vars

\* The batch of a notifier is the lowest order pending behind a signer who
\* has signed.
LEMMA NextBatchInTurn ==
  ASSUME NEW r \in HasSigned, NEW q \in NextBatch(r)
  PROVE  InTurn(q)
<1>1. /\ Order[r] < Order[q]
      /\ \A p \in PendingAfter(r) : Order[q] <= Order[p]
  BY DEF NextBatch, PendingAfter
<1>2. ASSUME NEW p \in Signers, Order[r] < Order[p], Order[p] < Order[q]
      PROVE  rstatus[p] # "PENDING"
  <2>1. /\ p \in Recipients /\ q \in Recipients
        /\ Order[p] \in Nat /\ Order[q] \in Nat
    BY CoreAssumption DEF NextBatch, PendingAfter
  <2>2. p \notin PendingAfter(r)
    BY <1>1, <1>2, <2>1
  <2>3. QED  BY <1>2, <2>2 DEF PendingAfter
<1>3. QED  BY <1>1, <1>2 DEF InTurn

\* Every step keeps invitations in turn.
LEMMA TurnStep ==
  ASSUME TypeOK, ActorKnown, TurnHeld, Lasts, [Next]_vars
  PROVE  TurnHeld'
<1> /\ pc \in [Slots -> Steps] /\ batch \in [Slots -> SUBSET Recipients]
    /\ who \in [Slots -> Actors]
  BY DEF TypeOK, SlotTypeOK
<1>i. ASSUME NEW q, InTurn(q) PROVE InTurn(q)'
  <2>1. CASE First(q)
    BY <2>1 DEF First, InTurn
  <2>2. CASE ~First(q)
    <3>1. PICK r \in HasSigned :
            /\ Order[r] < Order[q]
            /\ \A p \in Signers : (Order[r] < Order[p] /\ Order[p] < Order[q]) =>
                                   rstatus[p] # "PENDING"
      BY <1>i, <2>2 DEF InTurn
    <3>2. r \in HasSigned'
      BY DEF Lasts
    <3>3. \A p \in Signers : (Order[r] < Order[p] /\ Order[p] < Order[q]) =>
                               rstatus'[p] # "PENDING"
      BY <3>1, NeverPendingAgain, CoreAssumption
    <3>4. QED  BY <3>1, <3>2, <3>3 DEF InTurn
  <2>3. QED  BY <2>1, <2>2
<1> DEFINE Turn(t) ==
      /\ pc[t] = "sign_recheck" => who[t] \in HasSigned
      /\ pc[t] \in FlattenSteps \cup NotifySteps => \A r \in batch[t] : InTurn(r)
      /\ pc[t] \in {"send_audit", "send_commit", "send_mail"} =>
           \A r \in batch[t] : First(r)
\* The slot that moved decides: the others keep what they had.
<1>0. ASSUME NEW s \in Slots, Request(s) \/ Step(s) \/ Abort(s),
             Turn(s)', \A r \in mailed' \ mailed : InTurn(r)
      PROVE  TurnHeld'
  <2>1. ASSUME NEW t \in Slots \ {s} PROVE Turn(t)'
    <3>1. /\ pc'[t] = pc[t] /\ who'[t] = who[t] /\ batch'[t] = batch[t]
      BY <1>0, SlotsApart
    <3>2. Turn(t)
      BY DEF TurnHeld
    <3>3. ASSUME \A r \in batch[t] : InTurn(r)
          PROVE  \A r \in batch'[t] : InTurn(r)'
      BY <1>i, <3>1, <3>3
    <3>4. who[t] \in HasSigned => who'[t] \in HasSigned'
      BY <3>1 DEF Lasts
    <3>5. QED
      BY <3>1, <3>2, <3>3, <3>4 DEF First
  <2>2. \A r \in mailed' : InTurn(r)'
    BY <1>0, <1>i DEF TurnHeld, NotifiedInTurn
  <2>3. QED
    BY <1>0, <2>1, <2>2 DEF TurnHeld, NotifiedInTurn
<1>1. ASSUME NEW s \in Slots, RecipientStep(s) PROVE TurnHeld'
  <2>t. Turn(s)
    BY DEF TurnHeld
  <2>1. CASE \/ ConsentRecord(s) \/ ConsentStamp(s) \/ ConsentAudit(s)
             \/ SignLose(s) \/ DeclineCommit(s) \/ DeclineAudit(s)
    <3>1. /\ pc'[s] \in {"consent_stamp", "consent_audit", "decline_audit", "idle"}
          /\ UNCHANGED mailed
      BY <2>1 DEF ConsentRecord, ConsentStamp, ConsentAudit, SignLose,
         DeclineCommit, DeclineAudit, Goto, Finish, log
    <3>2. Turn(s)'
      BY <3>1 DEF FlattenSteps, NotifySteps
    <3>3. QED  BY <1>0, <1>1, <3>1, <3>2 DEF Step
  <2>2. CASE SignCommit(s)
    <3>1. /\ pc'[s] = "sign_recheck" /\ who'[s] = who[s] /\ UNCHANGED mailed
          /\ who[s] \in Recipients
      BY <2>2 DEF SignCommit, Goto, ActorKnown, SenderSteps
    <3>2. who[s] \in HasSigned'
      BY <2>2, <3>1 DEF SignCommit, HasSigned, TypeOK, StoreTypeOK
    <3>3. Turn(s)'
      BY <3>1, <3>2 DEF FlattenSteps, NotifySteps
    <3>4. QED  BY <1>0, <1>1, <3>1, <3>3 DEF Step
  <2>3. CASE SignRecheck(s)
    <3>1. who[s] \in HasSigned /\ UNCHANGED mailed
      BY <2>3, <2>t DEF SignRecheck, Goto, log
    <3>2. \/ pc'[s] = "seal_load"
          \/ pc'[s] = "flatten_load" /\ batch'[s] = NextBatch(who[s])
      BY <2>3 DEF SignRecheck, Goto
    <3>3. \A q \in NextBatch(who[s]) : InTurn(q)'
      BY <1>i, <3>1, NextBatchInTurn
    <3>4. Turn(s)'
      BY <3>2, <3>3 DEF FlattenSteps, NotifySteps
    <3>5. QED  BY <1>0, <1>1, <3>1, <3>4 DEF Step
  <2>4. CASE NotifySend(s)
    <3>1. PICK r \in batch[s] : mailed' = mailed \cup {r}
      BY <2>4 DEF NotifySend
    <3>2. /\ pc[s] = "notify_send" /\ pc'[s] = "notify_mark" /\ batch' = batch
      BY <2>4 DEF NotifySend
    <3>3. \A q \in batch[s] : InTurn(q)
      BY <2>t, <3>2 DEF NotifySteps
    <3>4. Turn(s)'
      BY <1>i, <3>2, <3>3 DEF FlattenSteps, NotifySteps
    <3>5. QED  BY <1>0, <1>1, <3>1, <3>3, <3>4 DEF Step
  <2>5. CASE NotifyMark(s) \/ NotifyAudit(s)
    <3>1. /\ pc[s] \in NotifySteps /\ UNCHANGED mailed
          /\ pc'[s] \in {"notify_audit", "notify_send", "idle"}
          /\ batch'[s] \subseteq batch[s]
      BY <2>5 DEF NotifyMark, NotifyAudit, Goto, Finish, NotifySteps, log
    <3>2. \A q \in batch'[s] : InTurn(q)'
      BY <1>i, <2>t, <3>1
    <3>3. Turn(s)'
      BY <3>1, <3>2
    <3>4. QED  BY <1>0, <1>1, <3>1, <3>3 DEF Step
  <2>6. QED
    BY <1>1, <2>1, <2>2, <2>3, <2>4, <2>5 DEF RecipientStep
<1>2. ASSUME NEW s \in Slots, SealingStep(s) PROVE TurnHeld'
  <2>t. Turn(s)
    BY DEF TurnHeld
  <2>m. UNCHANGED mailed
    BY <1>2 DEF SealingStep, SealSkip, SealLoad, SealUpload, SealRecord,
       SealCertify, SealComplete, SealAudit, SealMail, FlattenLoad, FlattenSkip,
       FlattenUpload, FlattenRecord, FlattenEnd, log
  <2>1. CASE \/ SealSkip(s) \/ SealLoad(s) \/ SealUpload(s) \/ SealRecord(s)
             \/ SealCertify(s) \/ SealComplete(s) \/ SealAudit(s) \/ SealMail(s)
    <3>1. pc'[s] \in SealSteps \cup {"idle"}
      BY <2>1 DEF SealSkip, SealLoad, SealUpload, SealRecord, SealCertify,
         SealComplete, SealAudit, SealMail, Goto, Finish, SealSteps
    <3>2. Turn(s)'
      BY <3>1 DEF SealSteps, FlattenSteps, NotifySteps
    <3>3. QED  BY <1>0, <1>2, <2>m, <3>2 DEF Step
  <2>2. CASE FlattenLoad(s) \/ FlattenSkip(s) \/ FlattenUpload(s)
               \/ FlattenRecord(s) \/ FlattenEnd(s)
    <3>1. /\ pc[s] \in FlattenSteps
          /\ pc'[s] \in FlattenSteps \cup {"notify_send", "idle"}
          /\ pc'[s] # "idle" => batch'[s] = batch[s]
      BY <2>2 DEF FlattenLoad, FlattenSkip, FlattenUpload, FlattenRecord,
         FlattenEnd, Goto, Finish, FlattenSteps, load
    <3>2. pc'[s] # "idle" => \A q \in batch'[s] : InTurn(q)'
      BY <1>i, <2>t, <3>1
    <3>3. Turn(s)'
      BY <3>1, <3>2 DEF FlattenSteps, NotifySteps
    <3>4. QED  BY <1>0, <1>2, <2>m, <3>3 DEF Step
  <2>3. QED
    BY <1>2, <2>1, <2>2 DEF SealingStep
<1>3. ASSUME NEW s \in Slots, SenderStep(s) PROVE TurnHeld'
  <2>t. Turn(s)
    BY DEF TurnHeld
  <2>1. CASE SendAudit(s) \/ SendCommit(s)
    <3>1. /\ pc[s] \in {"send_audit", "send_commit"}
          /\ pc'[s] \in {"send_commit", "send_mail"}
          /\ UNCHANGED <<mailed, batch>>
      BY <2>1 DEF SendAudit, SendCommit, Goto, log
    <3>2. Turn(s)'
      BY <2>t, <3>1 DEF First, FlattenSteps, NotifySteps
    <3>3. QED  BY <1>0, <1>3, <3>1, <3>2 DEF Step
  <2>2. CASE SendMail(s)
    <3>1. /\ pc'[s] = "idle" /\ \A q \in batch[s] : First(q)
          /\ mailed' \ mailed \subseteq batch[s]
      BY <2>t, <2>2 DEF SendMail, Finish
    <3>2. Turn(s)'
      BY <3>1 DEF FlattenSteps, NotifySteps
    <3>3. QED  BY <1>0, <1>3, <3>1, <3>2 DEF Step, InTurn
  <2>3. CASE VoidCommit(s) \/ VoidAudit(s)
    <3>1. pc'[s] \in {"void_audit", "idle"} /\ UNCHANGED mailed
      BY <2>3 DEF VoidCommit, VoidAudit, Goto, Finish, log
    <3>2. Turn(s)'
      BY <3>1 DEF FlattenSteps, NotifySteps
    <3>3. QED  BY <1>0, <1>3, <3>1, <3>2 DEF Step
  <2>4. QED
    BY <1>3, <2>1, <2>2, <2>3 DEF SenderStep
<1>4. ASSUME NEW s \in Slots, Request(s) \/ Abort(s) PROVE TurnHeld'
  <2>1. CASE SendBegin(s)
    <3>1. /\ pc'[s] = "send_audit" /\ UNCHANGED mailed
          /\ \A q \in batch'[s] : First(q)
      BY <2>1 DEF SendBegin, Begin, FirstBatch, First, log
    <3>2. Turn(s)'
      BY <3>1 DEF First, FlattenSteps, NotifySteps
    <3>3. QED  BY <1>0, <1>4, <3>1, <3>2
  <2>2. CASE ~SendBegin(s)
    <3>1. /\ pc'[s] \in {"void_commit", "consent_record", "sign_commit",
                         "decline_commit", "idle"}
          /\ UNCHANGED mailed
      BY <1>4, <2>2 DEF Request, VoidBegin, ConsentBegin, SignBegin,
         DeclineBegin, Abort, Begin, Finish, log
    <3>2. Turn(s)'
      BY <3>1 DEF FlattenSteps, NotifySteps
    <3>3. QED  BY <1>0, <1>4, <3>1, <3>2
  <2>3. QED  BY <2>1, <2>2
<1>5. CASE UNCHANGED slot /\ UNCHANGED mailed
  <2>1. ASSUME NEW t \in Slots PROVE Turn(t)'
    <3>1. Turn(t) /\ UNCHANGED <<pc, who, batch>>
      BY <1>5 DEF TurnHeld, slot
    <3>2. QED  BY <1>i, <3>1 DEF First, Lasts
  <2>2. QED  BY <1>5, <1>i, <2>1 DEF TurnHeld, NotifiedInTurn
<1>6. QED
  BY <1>1, <1>2, <1>3, <1>4, <1>5 DEF Next, Step, Expire, vars, log

-----------------------------------------------------------------------------
\* Theorems.

\* The inductive invariant, whole.
LEMMA InvariantHolds == Spec => []IInv
<1>1. Init => IInv
  <2> SUFFICES ASSUME Init
               PROVE  /\ DocInRange /\ ConsentHeld /\ SentHeld /\ SealingHeld
                      /\ TurnHeld /\ EventsAreTrue
    BY TypeInit DEF IInv
  <2>1. DocInRange
    BY DEF Init, DocInRange
  <2>2. ConsentHeld /\ SentHeld
    BY DEF Init, ConsentHeld, SentHeld, HasSigned, NoValues, ConsentSteps
  <2>3. SealingHeld
    BY DEF Init, SealingHeld, SignedNow, SealHeld, SealSteps, CompletionIsEarned
  <2>4. TurnHeld
    BY DEF Init, TurnHeld, NotifiedInTurn, FlattenSteps, NotifySteps
  <2>5. EventsAreTrue
    BY DEF Init, EventsAreTrue
  <2>6. QED  BY <2>1, <2>2, <2>3, <2>4, <2>5
<1>2. IInv /\ [Next]_vars => IInv'
  BY TypeStep, DocStep, ConsentStep, SentStep, LastsStep, SealingStepHolds,
     TurnStep, EventsStep DEF IInv
<1>3. QED
  BY <1>1, <1>2, PTL DEF Spec

\* An envelope stamped complete was earned, however many requests seal it at
\* once, and whatever dies, expires or is voided meanwhile.
THEOREM CompletionEarned == Spec => []CompletionIsEarned
<1>1. IInv => CompletionIsEarned
  BY DEF IInv, SealingHeld
<1>2. QED
  BY <1>1, InvariantHolds, PTL

\* Signing links go out in routing order: the batch a request computed from an
\* earlier read is still due when it is mailed.
THEOREM InvitedInTurn == Spec => []NotifiedInTurn
<1>1. IInv => NotifiedInTurn
  BY DEF IInv, TurnHeld
<1>2. QED
  BY <1>1, InvariantHolds, PTL

\* The webhook events handed to emit() tell the truth.
THEOREM TrueEvents == Spec => []EventsAreTrue
<1>1. IInv => EventsAreTrue
  BY DEF IInv
<1>2. QED
  BY <1>1, InvariantHolds, PTL

-----------------------------------------------------------------------------
\* Steps of the core as steps of the ceremony.

\* Nothing the ceremony speaks of moves.
Still == /\ SentOnRecord' <=> SentOnRecord
         /\ UNCHANGED <<consentedAt, signings, completedAt>>

\* Only the send's own audit write puts its row on record.
LEMMA StillStep ==
  ASSUME NEW s \in Slots,
         \/ Request(s) \/ Abort(s)
         \/ RecipientStep(s) /\ ~ConsentStamp(s) /\ ~SignCommit(s)
         \/ SealingStep(s) /\ ~SealComplete(s)
         \/ SenderStep(s) /\ ~SendAudit(s)
  PROVE  Still
<1> USE DEF row, people, log, Still, SentOnRecord, Log
<1>1. CASE Request(s) \/ Abort(s)
  BY <1>1 DEF Request, SendBegin, VoidBegin, ConsentBegin, SignBegin,
     DeclineBegin, Abort
<1>2. CASE RecipientStep(s) /\ ~ConsentStamp(s) /\ ~SignCommit(s)
  <2>1. CASE ConsentRecord(s) \/ ConsentAudit(s) \/ SignLose(s) \/ SignRecheck(s)
    BY <2>1 DEF ConsentRecord, ConsentAudit, SignLose, SignRecheck
  <2>2. CASE NotifySend(s) \/ NotifyMark(s) \/ NotifyAudit(s)
    BY <2>2 DEF NotifySend, NotifyMark, NotifyAudit
  <2>3. CASE DeclineCommit(s) \/ DeclineAudit(s)
    BY <2>3 DEF DeclineCommit, DeclineAudit
  <2>4. QED  BY <1>2, <2>1, <2>2, <2>3 DEF RecipientStep
<1>3. CASE SealingStep(s) /\ ~SealComplete(s)
  <2>1. CASE SealSkip(s) \/ SealLoad(s) \/ SealUpload(s) \/ SealRecord(s)
    BY <2>1 DEF SealSkip, SealLoad, SealUpload, SealRecord
  <2>2. CASE SealCertify(s) \/ SealAudit(s)
    BY <2>2 DEF SealCertify, SealAudit
  <2>3. CASE SealMail(s)
    BY <2>3 DEF SealMail
  <2>4. CASE FlattenLoad(s) \/ FlattenSkip(s) \/ FlattenUpload(s)
               \/ FlattenRecord(s) \/ FlattenEnd(s)
    BY <2>4 DEF FlattenLoad, FlattenSkip, FlattenUpload, FlattenRecord,
       FlattenEnd
  <2>5. QED  BY <1>3, <2>1, <2>2, <2>3, <2>4 DEF SealingStep
<1>4. CASE SenderStep(s) /\ ~SendAudit(s)
  <2>1. CASE SendCommit(s) \/ VoidCommit(s)
    BY <2>1 DEF SendCommit, VoidCommit
  <2>2. CASE SendMail(s)
    BY <2>2 DEF SendMail
  <2>3. CASE VoidAudit(s)
    BY <2>3 DEF VoidAudit
  <2>4. QED  BY <1>4, <2>1, <2>2, <2>3 DEF SenderStep
<1>5. QED  BY <1>1, <1>2, <1>3, <1>4

\* Every step of the core is a step of the ceremony, or none.
LEMMA CeremonyStep ==
  ASSUME IInv, [Next]_vars
  PROVE  [Promise!Next]_(Promise!vars)
<1> USE DEF Promise!vars
<1>0. ASSUME Still PROVE UNCHANGED Promise!vars
  BY <1>0 DEF Still, HasSigned
<1>1. ASSUME NEW s \in Slots, SendAudit(s) PROVE Promise!Send
  <2>1. SentOnRecord'
    BY <1>1 DEF SendAudit, SentOnRecord, Log
  <2>2. UNCHANGED <<consentedAt, HasSigned, completedAt>>
    BY <1>1 DEF SendAudit, row, people, HasSigned
  <2>3. QED  BY <2>1, <2>2 DEF Promise!Send
<1>2. ASSUME NEW s \in Slots, ConsentStamp(s) PROVE Promise!Consent(who[s])
  <2>1. SentOnRecord
    BY <1>2 DEF ConsentStamp, Goto, IInv, SentHeld, ConsentSteps
  <2>2. /\ consentedAt' = consentedAt \cup {who[s]}
        /\ UNCHANGED <<SentOnRecord, HasSigned, completedAt>>
    BY <1>2 DEF ConsentStamp, row, log, HasSigned, SentOnRecord
  <2>3. QED  BY <2>1, <2>2 DEF Promise!Consent
<1>3. ASSUME NEW s \in Slots, SignCommit(s) PROVE Promise!Sign(who[s])
  <2>1. who[s] \in consentedAt /\ who[s] \in Recipients
    BY <1>3 DEF SignCommit, Goto, IInv, ConsentHeld, ActorKnown, SenderSteps
  <2>2. HasSigned' = HasSigned \cup {who[s]}
    BY <1>3, <2>1 DEF SignCommit, HasSigned, IInv, TypeOK, StoreTypeOK
  <2>3. SentOnRecord' <=> SentOnRecord
    BY <1>3 DEF SignCommit, SentOnRecord, Log
  <2>4. UNCHANGED <<consentedAt, completedAt>>
    BY <1>3 DEF SignCommit, row
  <2>5. QED  BY <2>1, <2>2, <2>3, <2>4 DEF Promise!Sign
<1>4. ASSUME NEW s \in Slots, SealComplete(s) PROVE Promise!Complete
  <2>r. Signers \subseteq HasSigned /\ run[s] > 0
    BY <1>4 DEF SealComplete, Goto, IInv, SealingHeld, SealHeld, SealSteps
  <2>1. Signers \subseteq HasSigned /\ completedAt' # 0
    BY <1>4, <2>r DEF SealComplete, IInv, TypeOK, SlotTypeOK
  <2>2. UNCHANGED <<SentOnRecord, consentedAt, HasSigned>>
    BY <1>4 DEF SealComplete, people, log, HasSigned, SentOnRecord
  <2>3. QED  BY <2>1, <2>2 DEF Promise!Complete
<1>5. ASSUME NEW s \in Slots, ConsentStamp(s) \/ SignCommit(s)
      PROVE  who[s] \in Recipients
  BY <1>5 DEF ConsentStamp, SignCommit, Goto, IInv, ActorKnown, SenderSteps
<1>6. CASE \E s \in Slots : Request(s) \/ Step(s) \/ Abort(s)
  BY <1>0, <1>1, <1>2, <1>3, <1>4, <1>5, <1>6, StillStep DEF Promise!Next, Step
<1>7. CASE (\E r \in Recipients : Expire(r)) \/ UNCHANGED vars
  <2>1. Still
    BY <1>7 DEF Expire, vars, row, people, log, Still, SentOnRecord
  <2>2. QED  BY <1>0, <2>1
<1>8. QED
  BY <1>6, <1>7 DEF Next

\* The signing core keeps the promise of the ceremony: consent after the send,
\* signature after consent, completion after every signature, nothing undone,
\* for any interleaving, failure or expiry of its requests.
THEOREM ImplementsCeremony == Spec => KeepsPromise
<1>1. Init => Promise!Init
  BY DEF Init, Promise!Init, SentOnRecord, HasSigned, NoValues
<1>2. IInv /\ [Next]_vars => [Promise!Next]_(Promise!vars)
  BY CeremonyStep
<1>3. QED
  BY <1>1, <1>2, InvariantHolds, PTL DEF Spec, Promise!Spec, KeepsPromise

-----------------------------------------------------------------------------
\* The last signer.

Completing(s) == pc[s] = "sign_recheck" \/ pc[s] \in SealSteps

\* A request on its way to complete the envelope goes on, or finds it complete.
LEMMA CompletingStep ==
  ASSUME IInv, "abort" \notin Faults, NEW s \in Slots, Completing(s),
         Request(s) \/ Step(s) \/ Abort(s), AllSigned(who[s])
  PROVE  Completing(s)' \/ completedAt # 0
<1> pc \in [Slots -> Steps]
  BY DEF IInv, TypeOK, SlotTypeOK
<1> USE DEF Goto, Begin
<1>1. ~Abort(s)
  BY DEF Abort
<1>2. ~Request(s)
  BY DEF Completing, SealSteps, Request, SendBegin, VoidBegin, ConsentBegin,
     SignBegin, DeclineBegin
<1>3. ~SenderStep(s)
  BY DEF Completing, SealSteps, SenderStep, SendAudit, SendCommit, SendMail,
     VoidCommit, VoidAudit
<1>4. CASE RecipientStep(s)
  <2>1. SignRecheck(s)
    BY <1>4 DEF Completing, SealSteps, RecipientStep, ConsentRecord,
       ConsentStamp, ConsentAudit, SignCommit, SignLose, NotifySend, NotifyMark,
       NotifyAudit, DeclineCommit, DeclineAudit
  <2>2. QED
    BY <2>1 DEF SignRecheck, Completing, SealSteps
<1>5. CASE SealingStep(s)
  <2>1. CASE SealLoad(s) \/ SealUpload(s) \/ SealRecord(s)
    BY <2>1 DEF SealLoad, SealUpload, SealRecord, Completing, SealSteps
  <2>2. CASE SealCertify(s) \/ SealComplete(s) \/ SealAudit(s)
    BY <2>2 DEF SealCertify, SealComplete, SealAudit, Completing, SealSteps
  <2>3. CASE SealSkip(s)
    BY <2>3 DEF SealSkip, AlreadyCompleted, IInv, SealingHeld
  <2>4. CASE SealMail(s)
    <3>1. pc[s] = "seal_mail"
      BY <2>4 DEF SealMail
    <3>2. QED  BY <3>1 DEF IInv, SealingHeld, SealHeld
  <2>5. CASE FlattenLoad(s) \/ FlattenSkip(s) \/ FlattenUpload(s)
               \/ FlattenRecord(s) \/ FlattenEnd(s)
    BY <2>5 DEF FlattenLoad, FlattenSkip, FlattenUpload, FlattenRecord,
       FlattenEnd, Completing, SealSteps
  <2>6. QED
    BY <1>5, <2>1, <2>2, <2>3, <2>4, <2>5 DEF SealingStep
<1>6. QED
  BY <1>1, <1>2, <1>3, <1>4, <1>5 DEF Step

\* No step loses the completion of a fully signed envelope.
LEMMA NoLostStep ==
  ASSUME IInv, NoLostCompletion, "abort" \notin Faults, [Next]_vars
  PROVE  NoLostCompletion'
<1> SUFFICES ASSUME Signers \subseteq SignedNow', completedAt' = 0, Signers # {}
             PROVE  \E s \in Slots : Completing(s)'
  BY DEF NoLostCompletion, Completing
<1>1. CASE \E s \in Slots : SignCommit(s)
  <2>1. PICK s \in Slots : SignCommit(s)
    BY <1>1
  <2>2. pc'[s] = "sign_recheck"
    BY <2>1 DEF SignCommit, Goto, IInv, TypeOK, SlotTypeOK
  <2>3. QED  BY <2>2 DEF Completing
<1>2. CASE SignedNow' \subseteq SignedNow
  <2>1. Signers \subseteq SignedNow /\ completedAt = 0
    BY <1>2, LastsStep DEF IInv, Lasts
  <2>2. PICK t \in Slots : Completing(t)
    BY <2>1 DEF NoLostCompletion, Completing
  <2>3. ASSUME NEW s \in Slots, Request(s) \/ Step(s) \/ Abort(s)
        PROVE  Completing(t)'
    <3>1. CASE t = s
      BY <2>1, <2>2, <2>3, <3>1, CompletingStep DEF AllSigned
    <3>2. CASE t # s
      BY <2>2, <2>3, <3>2, SlotsApart DEF Completing, IInv
    <3>3. QED  BY <3>1, <3>2
  <2>4. ASSUME UNCHANGED slot PROVE Completing(t)'
    BY <2>2, <2>4 DEF slot, Completing
  <2>5. QED
    BY <2>3, <2>4 DEF Next, Expire, vars
<1>3. QED
  BY <1>1, <1>2, OnlySigningSigns DEF IInv

\* While no request fails, the last signers of an envelope cannot leave its
\* completion to each other: a fully signed envelope is complete or some
\* request is on its way to complete it.
THEOREM CompletionNotLost ==
  ASSUME "abort" \notin Faults
  PROVE  Spec => []NoLostCompletion
<1>1. Init => NoLostCompletion
  BY CoreAssumption DEF Init, NoLostCompletion, SignedNow
<1>2. IInv /\ NoLostCompletion /\ [Next]_vars => NoLostCompletion'
  BY NoLostStep
<1>3. QED
  BY <1>1, <1>2, InvariantHolds, PTL DEF Spec

-----------------------------------------------------------------------------
\* Requests served one at a time.

\* There is one slot, and no two documents share an object key.
OneAtATime == \A s, t \in Slots : s = t

DistinctNames == \A d, e \in Docs : Name[d] = Name[e] => d = e

SealedAs(d, s) ==
  /\ signedKey[d] = "sealed"
  /\ documentHash[d] = Baked(d, view[s], run[s])
  /\ objects[<<"sealed", Name[d]>>] = documentHash[d]

\* How far a sealing run has got when nobody else writes: nothing but its last
\* steps finds the envelope complete, and the documents behind it are its own.
RunHeld(s) ==
  /\ pc[s] \notin {"idle", "seal_audit", "seal_mail"} => status # "COMPLETED"
  /\ pc[s] \in SealSteps => Signers \subseteq SignedNow
  /\ pc[s] \in SealSteps \ {"seal_load"} => listed[s] = Signers
  /\ pc[s] \in {"seal_upload", "seal_record"} =>
       \A d \in Docs : d < doc[s] => SealedAs(d, s)
  /\ pc[s] = "seal_record" =>
       objects[<<"sealed", Name[doc[s]]>>] = Baked(doc[s], view[s], run[s])
  /\ pc[s] \in {"seal_certify", "seal_complete", "seal_audit", "seal_mail"} =>
       \A d \in Docs : SealedAs(d, s)
  /\ pc[s] \in {"seal_complete", "seal_audit", "seal_mail"} =>
       certificate = [run |-> run[s], listed |-> Signers]
  /\ pc[s] \in {"seal_audit", "seal_mail"} => status = "COMPLETED"

CompletedHeld ==
  IF status = "COMPLETED"
  THEN /\ Signers \subseteq SignedNow
       /\ certificate = [run |-> completedAt, listed |-> Signers]
       /\ \A d \in Docs : /\ signedKey[d] = "sealed"
                          /\ objects[<<"sealed", Name[d]>>] = documentHash[d]
       /\ \A copy \in delivered : copy[2] = documentHash[copy[1]]
  ELSE delivered = {}

\* The file of d shows what everyone has signed in it so far.
Fresh(d) ==
  \A q \in HasSigned : q \in Owners[d] => Served(d).baked[q] = signings[q]

\* How far a request that flattens and invites has got.
FlattenHeld(s) ==
  /\ pc[s] \in FlattenSteps \cup NotifySteps => batch[s] \cap HasSigned = {}
  /\ pc[s] \in {"flatten_doc", "flatten_record"} =>
       /\ \A q \in HasSigned : view[s][q] = signings[q]
       /\ \A d \in Docs : d < doc[s] => Fresh(d)
  /\ pc[s] = "flatten_record" =>
       objects[<<"flattened", Name[doc[s]]>>] = Baked(doc[s], view[s], 0)
  /\ pc[s] \in NotifySteps => \A d \in Docs : Fresh(d)

\* A row reads SIGNED from the signature on: nobody who is about to be marked
\* otherwise has signed.
SignedHeld ==
  /\ HasSigned \subseteq SignedNow
  /\ status = "DRAFT" => HasSigned = {}

MarkHeld(s) ==
  /\ pc[s] \in {"notify_mark", "decline_commit"} => who[s] \notin HasSigned
  /\ pc[s] \in {"sign_commit", "sign_recheck"} => status = "SENT"
  /\ pc[s] \in {"send_audit", "send_commit"} => HasSigned = {}

SlotSerial(s) == RunHeld(s) /\ FlattenHeld(s) /\ MarkHeld(s)

SerialInv ==
  SignedHeld /\ CompletedHeld /\ \A s \in Slots : SlotSerial(s)

\* Steps that write none of the columns and objects these facts speak of.
Steady ==
  UNCHANGED <<status, completedAt, rstatus, signings, signedKey, documentHash,
              objects, certificate, delivered>>

LEMMA SteadyKeeps ==
  ASSUME Steady
  PROVE  /\ SignedHeld => SignedHeld'
         /\ CompletedHeld => CompletedHeld'
         /\ HasSigned' = HasSigned /\ SignedNow' = SignedNow
         /\ \A d : Fresh(d) => Fresh(d)'
<1>1. HasSigned' = HasSigned /\ SignedNow' = SignedNow
  BY DEF Steady, HasSigned, SignedNow
<1>2. \A d : Fresh(d) => Fresh(d)'
  BY <1>1 DEF Steady, Fresh, Served
<1>3. CompletedHeld => CompletedHeld'
  BY <1>1 DEF Steady, CompletedHeld
<1>4. SignedHeld => SignedHeld'
  BY <1>1 DEF Steady, SignedHeld
<1> QED
  BY <1>1, <1>2, <1>3, <1>4

\* At these positions a request relies on nothing.
LEMMA PlainSerial ==
  ASSUME NEW s \in Slots,
         pc'[s] \in {"idle", "consent_record", "consent_stamp", "consent_audit",
                     "send_mail", "decline_audit", "void_commit", "void_audit"},
         pc'[s] = "idle" \/ status' # "COMPLETED"
  PROVE  SlotSerial(s)'
  BY DEF SlotSerial, RunHeld, FlattenHeld, MarkHeld, SealSteps, FlattenSteps,
         NotifySteps

\* What the requests of the sender and of the recipients begin with.
LEMMA RequestSerial ==
  ASSUME TypeOK, SerialInv, NEW s \in Slots, Request(s)
  PROVE  SignedHeld' /\ CompletedHeld' /\ SlotSerial(s)'
<1> pc \in [Slots -> Steps]
  BY DEF TypeOK, SlotTypeOK
<1>1. Steady
  BY DEF Request, SendBegin, VoidBegin, ConsentBegin, SignBegin, DeclineBegin,
         row, people, files, Steady
<1>2. SignedHeld' /\ CompletedHeld' /\ HasSigned' = HasSigned
  BY <1>1, SteadyKeeps DEF SerialInv
<1>3. SlotSerial(s)'
  <2>1. CASE SendBegin(s)
    <3>1. pc'[s] = "send_audit" /\ status' # "COMPLETED" /\ HasSigned' = {}
      BY <1>2, <2>1 DEF SendBegin, Begin, row, SerialInv, SignedHeld
    <3> QED
      BY <3>1 DEF SlotSerial, RunHeld, FlattenHeld, MarkHeld, SealSteps,
                  FlattenSteps, NotifySteps
  <2>2. CASE VoidBegin(s)
    BY <2>2, PlainSerial DEF VoidBegin, CanVoid, Begin, row
  <2>3. ASSUME NEW r \in Recipients, ConsentBegin(s, r) PROVE SlotSerial(s)'
    BY <2>3, PlainSerial DEF ConsentBegin, CanConsent, Begin, row
  <2>4. ASSUME NEW r \in Recipients, SignBegin(s, r) PROVE SlotSerial(s)'
    <3>1. pc'[s] = "sign_commit" /\ status' = "SENT"
      BY <2>4 DEF SignBegin, CanSign, Begin, row
    <3> QED
      BY <3>1 DEF SlotSerial, RunHeld, FlattenHeld, MarkHeld, SealSteps,
                  FlattenSteps, NotifySteps
  <2>5. ASSUME NEW r \in Recipients, DeclineBegin(s, r) PROVE SlotSerial(s)'
    <3>1. pc'[s] = "decline_commit" /\ status' = "SENT" /\ who'[s] = r
      BY <2>5 DEF DeclineBegin, CanDecline, Begin, row, TypeOK, SlotTypeOK
    <3>2. r \notin HasSigned'
      BY <1>2, <2>5 DEF DeclineBegin, CanDecline, SerialInv, SignedHeld, SignedNow
    <3> QED
      BY <3>1, <3>2 DEF SlotSerial, RunHeld, FlattenHeld, MarkHeld, SealSteps,
                        FlattenSteps, NotifySteps
  <2> QED
    BY <2>1, <2>2, <2>3, <2>4, <2>5 DEF Request
<1> QED
  BY <1>2, <1>3

LEMMA SenderSerial ==
  ASSUME TypeOK, SerialInv, NEW s \in Slots, SenderStep(s)
  PROVE  SignedHeld' /\ CompletedHeld' /\ SlotSerial(s)'
<1> pc \in [Slots -> Steps] /\ rstatus \in [Recipients -> RStatuses]
  BY DEF TypeOK, StoreTypeOK, SlotTypeOK
<1>0. SignedHeld /\ CompletedHeld /\ RunHeld(s) /\ MarkHeld(s)
  BY DEF SerialInv, SlotSerial
<1>1. CASE SendAudit(s)
  <2>1. /\ Steady /\ pc[s] = "send_audit" /\ pc'[s] = "send_commit"
    BY <1>1 DEF SendAudit, Goto, row, people, files, Steady
  <2>2. HasSigned' = {} /\ status' # "COMPLETED"
    BY <1>0, <2>1, SteadyKeeps DEF RunHeld, MarkHeld, Steady
  <2>3. SlotSerial(s)'
    BY <2>1, <2>2 DEF SlotSerial, RunHeld, FlattenHeld, MarkHeld, SealSteps,
                      FlattenSteps, NotifySteps
  <2> QED
    BY <1>0, <2>1, <2>3, SteadyKeeps
<1>2. CASE SendCommit(s)
  <2>1. /\ pc[s] = "send_commit" /\ pc'[s] = "send_mail" /\ status' = "SENT"
        /\ UNCHANGED <<signings, delivered>>
    BY <1>2 DEF SendCommit, Goto, files
  <2>2. HasSigned' = {} /\ delivered' = {}
    BY <1>0, <2>1 DEF RunHeld, MarkHeld, HasSigned, CompletedHeld
  <2>3. SlotSerial(s)'
    BY <2>1, PlainSerial
  <2> QED
    BY <2>1, <2>2, <2>3 DEF SignedHeld, CompletedHeld
<1>3. CASE SendMail(s)
  <2>1. Steady /\ pc'[s] = "idle"
    BY <1>3 DEF SendMail, Finish, row, people, files, Steady
  <2> QED
    BY <1>0, <2>1, SteadyKeeps, PlainSerial
<1>4. CASE VoidCommit(s)
  <2>1. /\ pc[s] = "void_commit" /\ pc'[s] = "void_audit" /\ status' = "VOIDED"
        /\ UNCHANGED <<rstatus, signings, delivered>>
    BY <1>4 DEF VoidCommit, Goto, files, people
  <2>2. HasSigned' = HasSigned /\ SignedNow' = SignedNow /\ delivered' = {}
    BY <1>0, <2>1 DEF RunHeld, HasSigned, SignedNow, CompletedHeld
  <2>3. SlotSerial(s)'
    BY <2>1, PlainSerial
  <2> QED
    BY <1>0, <2>1, <2>2, <2>3 DEF SignedHeld, CompletedHeld
<1>5. CASE VoidAudit(s)
  <2>1. Steady /\ pc'[s] = "idle"
    BY <1>5 DEF VoidAudit, Finish, row, people, files, Steady
  <2> QED
    BY <1>0, <2>1, SteadyKeeps, PlainSerial
<1> QED
  BY <1>1, <1>2, <1>3, <1>4, <1>5 DEF SenderStep

\* Consent, signature and decline.
LEMMA SignSerial ==
  ASSUME TypeOK, ActorKnown, SerialInv, NEW s \in Slots,
         \/ ConsentRecord(s) \/ ConsentStamp(s) \/ ConsentAudit(s)
         \/ SignCommit(s) \/ SignLose(s) \/ SignRecheck(s)
         \/ DeclineCommit(s) \/ DeclineAudit(s)
  PROVE  SignedHeld' /\ CompletedHeld' /\ SlotSerial(s)'
<1> /\ pc \in [Slots -> Steps] /\ who \in [Slots -> Actors]
    /\ batch \in [Slots -> SUBSET Recipients]
    /\ rstatus \in [Recipients -> RStatuses]
    /\ signings \in [Recipients -> Nat]
  BY DEF TypeOK, StoreTypeOK, SlotTypeOK
<1>0. SignedHeld /\ CompletedHeld /\ RunHeld(s) /\ MarkHeld(s)
  BY DEF SerialInv, SlotSerial
<1>1. CASE ConsentRecord(s) \/ ConsentStamp(s)
  <2>1. /\ Steady /\ pc'[s] \in {"consent_stamp", "consent_audit"}
        /\ pc[s] \in {"consent_record", "consent_stamp"}
    BY <1>1 DEF ConsentRecord, ConsentStamp, Goto, row, files, Steady
  <2>2. status' # "COMPLETED"
    BY <1>0, <2>1 DEF RunHeld, Steady
  <2> QED
    BY <1>0, <2>1, <2>2, SteadyKeeps, PlainSerial
<1>2. CASE ConsentAudit(s) \/ SignLose(s) \/ DeclineAudit(s)
  <2>1. Steady /\ pc'[s] = "idle"
    BY <1>2 DEF ConsentAudit, SignLose, DeclineAudit, Finish, row, people, files,
                Steady
  <2> QED
    BY <1>0, <2>1, SteadyKeeps, PlainSerial
<1>3. CASE SignCommit(s)
  <2>1. /\ pc[s] = "sign_commit" /\ pc'[s] = "sign_recheck"
        /\ rstatus' = [rstatus EXCEPT ![who[s]] = "SIGNED"]
        /\ signings' = [signings EXCEPT ![who[s]] = @ + 1]
        /\ UNCHANGED <<status, delivered>>
    BY <1>3 DEF SignCommit, Goto, row, files
  <2>2. status = "SENT" /\ delivered = {}
    BY <1>0, <2>1 DEF MarkHeld, CompletedHeld
  <2>3. SignedHeld'
    <3>1. ASSUME NEW q \in Recipients, signings'[q] > 0
          PROVE  rstatus'[q] = "SIGNED"
      <4>1. CASE q = who[s]
        BY <2>1, <4>1
      <4>2. CASE q # who[s]
        <5>1. signings'[q] = signings[q] /\ rstatus'[q] = rstatus[q]
          BY <2>1, <4>2
        <5> QED
          BY <1>0, <3>1, <5>1 DEF SignedHeld, HasSigned, SignedNow
      <4> QED
        BY <4>1, <4>2
    <3> QED
      BY <2>1, <2>2, <3>1 DEF SignedHeld, HasSigned, SignedNow
  <2>4. SlotSerial(s)'
    BY <2>1, <2>2 DEF SlotSerial, RunHeld, FlattenHeld, MarkHeld, SealSteps,
                      FlattenSteps, NotifySteps
  <2> QED
    BY <2>1, <2>2, <2>3, <2>4 DEF CompletedHeld
<1>4. CASE SignRecheck(s)
  <2>1. Steady /\ pc[s] = "sign_recheck"
    BY <1>4 DEF SignRecheck, Goto, row, people, files, Steady
  <2>2. /\ SignedHeld' /\ CompletedHeld' /\ status' # "COMPLETED"
        /\ HasSigned' = HasSigned /\ SignedNow' = SignedNow
    BY <1>0, <2>1, SteadyKeeps DEF MarkHeld, Steady
  <2>3. CASE AllSigned(who[s])
    <3>1. pc'[s] = "seal_load"
      BY <1>4, <2>3 DEF SignRecheck, Goto
    <3>2. SlotSerial(s)'
      BY <2>2, <2>3, <3>1 DEF SlotSerial, RunHeld, FlattenHeld, MarkHeld, AllSigned,
                              SealSteps, FlattenSteps, NotifySteps
    <3> QED
      BY <2>2, <3>2
  <2>4. CASE ~AllSigned(who[s])
    <3>1. pc'[s] = "flatten_load" /\ batch'[s] = NextBatch(who[s])
      BY <1>4, <2>4 DEF SignRecheck, Goto
    <3>2. batch'[s] \cap HasSigned' = {}
      BY <1>0, <2>2, <3>1 DEF NextBatch, PendingAfter, SignedHeld, SignedNow
    <3>3. SlotSerial(s)'
      BY <2>2, <3>1, <3>2 DEF SlotSerial, RunHeld, FlattenHeld, MarkHeld, SealSteps,
                              FlattenSteps, NotifySteps
    <3> QED
      BY <2>2, <3>3
  <2> QED
    BY <2>3, <2>4
<1>5. CASE DeclineCommit(s)
  <2>1. /\ pc[s] = "decline_commit" /\ pc'[s] = "decline_audit"
        /\ status' = "DECLINED"
        /\ rstatus' = [rstatus EXCEPT ![who[s]] = "DECLINED"]
        /\ UNCHANGED <<signings, delivered>>
    BY <1>5 DEF DeclineCommit, Goto, files
  <2>2. who[s] \notin HasSigned /\ delivered = {}
    BY <1>0, <2>1 DEF RunHeld, MarkHeld, CompletedHeld
  <2>3. SignedHeld'
    BY <1>0, <2>1, <2>2 DEF SignedHeld, HasSigned, SignedNow
  <2> QED
    BY <2>1, <2>2, <2>3, PlainSerial DEF CompletedHeld
<1> QED
  BY <1>1, <1>2, <1>3, <1>4, <1>5

\* The loop that invites the next batch.
LEMMA NotifySerial ==
  ASSUME TypeOK, SerialInv, NEW s \in Slots,
         NotifySend(s) \/ NotifyMark(s) \/ NotifyAudit(s)
  PROVE  SignedHeld' /\ CompletedHeld' /\ SlotSerial(s)'
<1> /\ pc \in [Slots -> Steps] /\ who \in [Slots -> Actors]
    /\ batch \in [Slots -> SUBSET Recipients]
    /\ rstatus \in [Recipients -> RStatuses]
  BY DEF TypeOK, StoreTypeOK, SlotTypeOK
<1>0. /\ SignedHeld /\ CompletedHeld
      /\ RunHeld(s) /\ FlattenHeld(s) /\ MarkHeld(s)
  BY DEF SerialInv, SlotSerial
<1>1. /\ status # "COMPLETED" /\ delivered = {}
      /\ batch[s] \cap HasSigned = {} /\ \A d \in Docs : Fresh(d)
  BY <1>0 DEF NotifySend, NotifyMark, NotifyAudit, Goto, NotifySteps, RunHeld,
              FlattenHeld, CompletedHeld
<1>2. CASE NotifySend(s)
  <2>1. PICK r \in batch[s] : who' = [who EXCEPT ![s] = r]
    BY <1>2 DEF NotifySend
  <2>2. Steady /\ pc'[s] = "notify_mark" /\ batch' = batch /\ who'[s] = r
    BY <1>2, <2>1 DEF NotifySend, row, people, files, Steady
  <2>3. /\ status' # "COMPLETED" /\ batch'[s] \cap HasSigned' = {}
        /\ who'[s] \notin HasSigned' /\ \A d \in Docs : Fresh(d)'
    BY <1>1, <2>2, SteadyKeeps DEF Steady
  <2>4. SlotSerial(s)'
    BY <2>2, <2>3 DEF SlotSerial, RunHeld, FlattenHeld, MarkHeld, SealSteps,
                      FlattenSteps, NotifySteps
  <2> QED
    BY <1>0, <2>2, <2>4, SteadyKeeps
<1>3. CASE NotifyMark(s)
  <2>1. /\ pc[s] = "notify_mark" /\ pc'[s] = "notify_audit"
        /\ rstatus' = [rstatus EXCEPT ![who[s]] = "SENT"]
        /\ UNCHANGED <<status, signings, signedKey, objects, delivered, batch>>
    BY <1>3 DEF NotifyMark, Goto, row, files
  <2>2. who[s] \notin HasSigned /\ HasSigned' = HasSigned
    BY <1>0, <2>1 DEF MarkHeld, HasSigned
  <2>3. SignedHeld'
    BY <1>0, <2>1, <2>2 DEF SignedHeld, SignedNow
  <2>4. \A d \in Docs : Fresh(d)'
    BY <1>1, <2>1, <2>2 DEF Fresh, Served
  <2>5. SlotSerial(s)'
    BY <1>1, <2>1, <2>2, <2>4 DEF SlotSerial, RunHeld, FlattenHeld, MarkHeld,
                                  SealSteps, FlattenSteps, NotifySteps
  <2> QED
    BY <1>1, <2>1, <2>3, <2>5 DEF CompletedHeld
<1>4. CASE NotifyAudit(s)
  <2>1. Steady
    BY <1>4 DEF NotifyAudit, row, people, files, Steady
  <2>2. /\ status' # "COMPLETED" /\ batch[s] \cap HasSigned' = {}
        /\ \A d \in Docs : Fresh(d)'
    BY <1>1, <2>1, SteadyKeeps DEF Steady
  <2>3. CASE batch[s] = {who[s]}
    <3>1. pc'[s] = "idle"
      BY <1>4, <2>3 DEF NotifyAudit, Finish
    <3> QED
      BY <1>0, <2>1, <3>1, SteadyKeeps, PlainSerial
  <2>4. CASE batch[s] # {who[s]}
    <3>1. pc'[s] = "notify_send" /\ batch'[s] = batch[s] \ {who[s]}
      BY <1>4, <2>4 DEF NotifyAudit, Goto
    <3>2. batch'[s] \cap HasSigned' = {}
      BY <2>2, <3>1
    <3>3. SlotSerial(s)'
      BY <2>2, <3>1, <3>2 DEF SlotSerial, RunHeld, FlattenHeld, MarkHeld,
                              SealSteps, FlattenSteps, NotifySteps
    <3> QED
      BY <1>0, <2>1, <3>3, SteadyKeeps
  <2> QED
    BY <2>3, <2>4
<1> QED
  BY <1>2, <1>3, <1>4

\* Flattening: one document after the other comes to show every signature.
LEMMA FlattenSerial ==
  ASSUME DistinctNames, TypeOK, DocInRange, SerialInv, NEW s \in Slots,
         FlattenLoad(s) \/ FlattenSkip(s) \/ FlattenUpload(s)
           \/ FlattenRecord(s) \/ FlattenEnd(s)
  PROVE  SignedHeld' /\ CompletedHeld' /\ SlotSerial(s)'
<1> /\ pc \in [Slots -> Steps] /\ doc \in [Slots -> Nat]
    /\ view \in [Slots -> [Recipients -> Nat]]
    /\ batch \in [Slots -> SUBSET Recipients]
    /\ signings \in [Recipients -> Nat] /\ objects \in [Keys -> Contents]
    /\ signedKey \in [Docs -> Folders \cup {"none"}]
    /\ DocCount \in Nat \ {0} /\ Owners \in [Docs -> SUBSET Recipients]
  BY CoreAssumption DEF TypeOK, StoreTypeOK, SlotTypeOK
<1>0. /\ SignedHeld /\ CompletedHeld
      /\ RunHeld(s) /\ FlattenHeld(s) /\ MarkHeld(s)
  BY DEF SerialInv, SlotSerial
<1>1. /\ pc[s] \in {"flatten_load", "flatten_doc", "flatten_record"}
      /\ UNCHANGED <<status, rstatus, signings, delivered>>
  BY DEF FlattenLoad, FlattenSkip, FlattenUpload, FlattenRecord, FlattenEnd, Goto,
         row, people, files
<1>2. /\ status # "COMPLETED" /\ delivered = {} /\ batch[s] \cap HasSigned = {}
  BY <1>0, <1>1 DEF RunHeld, FlattenHeld, CompletedHeld, FlattenSteps
<1>3. /\ HasSigned' = HasSigned /\ HasSigned \subseteq Recipients
      /\ SignedHeld' /\ CompletedHeld' /\ status' # "COMPLETED"
  BY <1>0, <1>1, <1>2 DEF HasSigned, SignedNow, SignedHeld, CompletedHeld
<1>4. CASE FlattenLoad(s)
  <2>1. /\ pc'[s] = "flatten_doc" /\ doc'[s] = 1 /\ batch'[s] = batch[s]
        /\ view'[s] = FlattenValues
    BY <1>4 DEF FlattenLoad, Goto
  <2>2. \A q \in HasSigned' : view'[s][q] = signings'[q]
    BY <1>0, <1>1, <1>3, <2>1 DEF FlattenValues, SignedHeld, SignedNow
  <2>3. \A d \in Docs : ~(d < doc'[s])
    BY <2>1 DEF Docs
  <2> QED
    BY <1>2, <1>3, <2>1, <2>2, <2>3
    DEF SlotSerial, RunHeld, FlattenHeld, MarkHeld, SealSteps, FlattenSteps,
        NotifySteps
<1>5. CASE FlattenSkip(s)
  <2>1. /\ pc[s] = "flatten_doc" /\ pc'[s] = "flatten_doc"
        /\ doc'[s] = doc[s] + 1 /\ doc[s] <= DocCount
        /\ ~HasValues(doc[s], view[s])
        /\ Steady /\ batch'[s] = batch[s] /\ view'[s] = view[s]
    BY <1>5 DEF FlattenSkip, row, people, files, Steady
  <2>2. doc[s] \in Docs
    BY <2>1 DEF DocInRange, Docs
  <2>3. /\ \A q \in HasSigned : view[s][q] = signings[q]
        /\ \A d \in Docs : d < doc[s] => Fresh(d)
    BY <1>0, <2>1 DEF FlattenHeld
  <2>4. Fresh(doc[s])
    <3> SUFFICES ASSUME NEW q \in HasSigned, q \in Owners[doc[s]] PROVE FALSE
      BY DEF Fresh
    <3>1. view[s][q] = signings[q] /\ signings[q] > 0
      BY <2>3 DEF HasSigned
    <3> QED
      BY <2>1, <3>1 DEF HasValues
  <2>5. ASSUME NEW d \in Docs, d < doc'[s] PROVE Fresh(d)'
    <3>1. d = doc[s] \/ d < doc[s]
      BY <2>1, <2>5 DEF Docs
    <3> QED
      BY <2>1, <2>3, <2>4, <3>1, SteadyKeeps
  <2>6. \A q \in HasSigned' : view'[s][q] = signings'[q]
    BY <1>1, <1>3, <2>1, <2>3
  <2> QED
    BY <1>2, <1>3, <2>1, <2>5, <2>6
    DEF SlotSerial, RunHeld, FlattenHeld, MarkHeld, SealSteps, FlattenSteps,
        NotifySteps
<1>6. CASE FlattenUpload(s)
  <2>1. /\ pc[s] = "flatten_doc" /\ pc'[s] = "flatten_record"
        /\ objects' = [objects EXCEPT ![<<"flattened", Name[doc[s]]>>] =
                         Baked(doc[s], view[s], 0)]
        /\ UNCHANGED <<signedKey, doc, view, batch>> /\ doc[s] <= DocCount
    BY <1>6 DEF FlattenUpload, Goto, load
  <2>2. doc[s] \in Docs
    BY <2>1 DEF DocInRange, Docs
  <2>3. /\ \A q \in HasSigned : view[s][q] = signings[q]
        /\ \A d \in Docs : d < doc[s] => Fresh(d)
    BY <1>0, <2>1 DEF FlattenHeld
  <2>4. <<"flattened", Name[doc[s]]>> \in Keys
    BY <2>2, KeyType DEF Folders
  <2>5. objects'[<<"flattened", Name[doc[s]]>>] = Baked(doc[s], view[s], 0)
    BY <2>1, <2>4
  <2>6. ASSUME NEW d \in Docs, d < doc[s] PROVE Fresh(d)'
    <3>1. Name[d] # Name[doc[s]]
      BY <2>2, <2>6 DEF DistinctNames, Docs
    <3>2. Served(d)' = Served(d)
      BY <2>1, <3>1, KeyType DEF Served
    <3> QED
      BY <1>1, <1>3, <2>3, <2>6, <3>2 DEF Fresh
  <2> QED
    BY <1>1, <1>2, <1>3, <2>1, <2>3, <2>5, <2>6
    DEF SlotSerial, RunHeld, FlattenHeld, MarkHeld, SealSteps, FlattenSteps,
        NotifySteps
<1>7. CASE FlattenRecord(s)
  <2>1. /\ pc[s] = "flatten_record" /\ pc'[s] = "flatten_doc"
        /\ signedKey' = [signedKey EXCEPT ![doc[s]] = "flattened"]
        /\ doc'[s] = doc[s] + 1
        /\ UNCHANGED <<objects, view, batch>>
    BY <1>7 DEF FlattenRecord, Goto
  <2>2. doc[s] \in Docs
    BY <2>1 DEF DocInRange
  <2>3. /\ \A q \in HasSigned : view[s][q] = signings[q]
        /\ \A d \in Docs : d < doc[s] => Fresh(d)
        /\ objects[<<"flattened", Name[doc[s]]>>] = Baked(doc[s], view[s], 0)
    BY <1>0, <2>1 DEF FlattenHeld
  <2>5. ASSUME NEW d \in Docs, d < doc'[s] PROVE Fresh(d)'
    <3>1. CASE d = doc[s]
      <4>1. Served(d)' = Baked(d, view[s], 0)
        BY <2>1, <2>3, <3>1 DEF Served
      <4>2. \A q \in HasSigned :
              q \in Owners[d] => Baked(d, view[s], 0).baked[q] = signings[q]
        BY <1>3, <2>3 DEF Baked
      <4> QED
        BY <1>1, <1>3, <4>1, <4>2 DEF Fresh
    <3>2. CASE d # doc[s]
      <4>1. d < doc[s]
        BY <2>1, <2>5, <3>2 DEF Docs
      <4>2. Served(d)' = Served(d)
        BY <2>1, <3>2 DEF Served
      <4> QED
        BY <1>1, <1>3, <2>3, <4>1, <4>2 DEF Fresh
    <3> QED
      BY <3>1, <3>2
  <2> QED
    BY <1>1, <1>2, <1>3, <2>1, <2>3, <2>5
    DEF SlotSerial, RunHeld, FlattenHeld, MarkHeld, SealSteps, FlattenSteps,
        NotifySteps
<1>8. CASE FlattenEnd(s)
  <2>1. Steady /\ pc[s] = "flatten_doc" /\ doc[s] > DocCount
    BY <1>8 DEF FlattenEnd, row, people, files, Steady
  <2>2. CASE batch[s] = {}
    <3>1. pc'[s] = "idle"
      BY <1>8, <2>2 DEF FlattenEnd, Finish
    <3> QED
      BY <1>3, <3>1, PlainSerial
  <2>3. CASE batch[s] # {}
    <3>1. pc'[s] = "notify_send" /\ batch'[s] = batch[s]
      BY <1>8, <2>3 DEF FlattenEnd, Goto
    <3>2. \A d \in Docs : Fresh(d)'
      <4>1. \A d \in Docs : d < doc[s]
        BY <2>1 DEF Docs
      <4> QED
        BY <1>0, <2>1, <4>1, SteadyKeeps DEF FlattenHeld
    <3> QED
      BY <1>2, <1>3, <3>1, <3>2
      DEF SlotSerial, RunHeld, FlattenHeld, MarkHeld, SealSteps, FlattenSteps,
          NotifySteps
  <2> QED
    BY <2>2, <2>3
<1> QED
  BY <1>4, <1>5, <1>6, <1>7, <1>8

\* Sealing: one document after the other comes to be this run's.
LEMMA SealSerial ==
  ASSUME DistinctNames, TypeOK, DocInRange, SerialInv, NEW s \in Slots,
         SealSkip(s) \/ SealLoad(s) \/ SealUpload(s) \/ SealRecord(s)
           \/ SealCertify(s) \/ SealComplete(s) \/ SealAudit(s) \/ SealMail(s)
  PROVE  SignedHeld' /\ CompletedHeld' /\ SlotSerial(s)'
<1> /\ pc \in [Slots -> Steps] /\ doc \in [Slots -> Nat]
    /\ run \in [Slots -> Nat] /\ view \in [Slots -> [Recipients -> Nat]]
    /\ listed \in [Slots -> SUBSET Recipients]
    /\ objects \in [Keys -> Contents] /\ documentHash \in [Docs -> Contents]
    /\ signedKey \in [Docs -> Folders \cup {"none"}]
    /\ DocCount \in Nat \ {0} /\ Signers \subseteq Recipients
  BY CoreAssumption DEF TypeOK, StoreTypeOK, SlotTypeOK
<1>0. SignedHeld /\ CompletedHeld /\ RunHeld(s)
  BY DEF SerialInv, SlotSerial
<1>1. /\ pc[s] \in SealSteps /\ UNCHANGED <<rstatus, signings>>
  BY DEF SealSkip, SealLoad, SealUpload, SealRecord, SealCertify, SealComplete,
         SealAudit, SealMail, Goto, SealSteps, people
<1>2. Signers \subseteq SignedNow /\ HasSigned' = HasSigned /\ SignedNow' = SignedNow
  BY <1>0, <1>1 DEF RunHeld, HasSigned, SignedNow
<1>3. pc[s] # "seal_load" => listed[s] = Signers
  BY <1>0, <1>1 DEF RunHeld
<1>4. CASE SealSkip(s)
  <2>1. Steady /\ pc'[s] = "idle"
    BY <1>4 DEF SealSkip, Finish, row, people, files, Steady
  <2> QED
    BY <1>0, <2>1, SteadyKeeps, PlainSerial
<1>5. CASE SealLoad(s)
  <2>1. /\ Steady /\ pc[s] = "seal_load" /\ pc'[s] = "seal_upload"
        /\ doc'[s] = 1 /\ listed'[s] = Signers \cap SignedNow
    BY <1>5 DEF SealLoad, Goto, row, people, Steady
  <2>2. \A d \in Docs : ~(d < doc'[s])
    BY <2>1 DEF Docs
  <2>3. listed'[s] = Signers /\ status' # "COMPLETED"
    BY <1>0, <1>2, <2>1 DEF RunHeld, Steady
  <2>4. SlotSerial(s)'
    BY <1>2, <2>1, <2>2, <2>3
    DEF SlotSerial, RunHeld, FlattenHeld, MarkHeld, SealSteps, FlattenSteps,
        NotifySteps
  <2> QED
    BY <1>0, <2>1, <2>4, SteadyKeeps
<1>6. CASE SealUpload(s)
  <2>1. /\ pc[s] = "seal_upload" /\ pc'[s] = "seal_record"
        /\ objects' = [objects EXCEPT ![<<"sealed", Name[doc[s]]>>] =
                         Baked(doc[s], view[s], run[s])]
        /\ UNCHANGED <<status, signedKey, documentHash, delivered, doc, view, run,
                       listed>>
    BY <1>6 DEF SealUpload, Goto, row, load
  <2>2. doc[s] \in Docs /\ status # "COMPLETED" /\ delivered = {}
    BY <1>0, <2>1 DEF DocInRange, RunHeld, CompletedHeld
  <2>3. objects'[<<"sealed", Name[doc[s]]>>] = Baked(doc[s], view[s], run[s])
    BY <2>1, <2>2, KeyType DEF Folders
  <2>4. ASSUME NEW d \in Docs, d < doc[s] PROVE SealedAs(d, s)'
    <3>1. Name[d] # Name[doc[s]]
      BY <2>2, <2>4 DEF DistinctNames, Docs
    <3>2. objects'[<<"sealed", Name[d]>>] = objects[<<"sealed", Name[d]>>]
      BY <2>1, <3>1, KeyType DEF Folders
    <3>3. SealedAs(d, s)
      BY <1>0, <2>1, <2>4 DEF RunHeld
    <3> QED
      BY <2>1, <3>2, <3>3 DEF SealedAs
  <2>5. SlotSerial(s)'
    BY <1>2, <1>3, <2>1, <2>2, <2>3, <2>4
    DEF SlotSerial, RunHeld, FlattenHeld, MarkHeld, SealSteps, FlattenSteps,
        NotifySteps
  <2> QED
    BY <1>0, <1>2, <2>1, <2>2, <2>5 DEF SignedHeld, CompletedHeld
<1>7. CASE SealRecord(s)
  <2>1. /\ pc[s] = "seal_record"
        /\ pc'[s] = IF doc[s] < DocCount THEN "seal_upload" ELSE "seal_certify"
        /\ signedKey' = [signedKey EXCEPT ![doc[s]] = "sealed"]
        /\ documentHash' = [documentHash EXCEPT ![doc[s]] =
                              Baked(doc[s], view[s], run[s])]
        /\ doc'[s] = doc[s] + 1
        /\ UNCHANGED <<status, objects, delivered, view, run, listed>>
    BY <1>7 DEF SealRecord, Goto, row
  <2>2. doc[s] \in Docs /\ status # "COMPLETED" /\ delivered = {}
    BY <1>0, <2>1 DEF DocInRange, RunHeld, CompletedHeld
  <2>3. ASSUME NEW d \in Docs, d = doc[s] PROVE SealedAs(d, s)'
    BY <1>0, <2>1, <2>3 DEF RunHeld, SealedAs
  <2>4. ASSUME NEW d \in Docs, d < doc[s] PROVE SealedAs(d, s)'
    <3>1. SealedAs(d, s)
      BY <1>0, <2>1, <2>4 DEF RunHeld
    <3>2. d # doc[s]
      BY <2>4 DEF Docs
    <3> QED
      BY <2>1, <3>1, <3>2 DEF SealedAs
  <2>5. ASSUME NEW d \in Docs, d < doc'[s] PROVE SealedAs(d, s)'
    <3>1. d = doc[s] \/ d < doc[s]
      BY <2>1, <2>5 DEF Docs
    <3> QED
      BY <2>3, <2>4, <3>1
  <2>6. CASE doc[s] < DocCount
    <3>1. pc'[s] = "seal_upload"
      BY <2>1, <2>6
    <3>2. SlotSerial(s)'
      BY <1>2, <1>3, <2>1, <2>2, <2>5, <3>1
      DEF SlotSerial, RunHeld, FlattenHeld, MarkHeld, SealSteps, FlattenSteps,
          NotifySteps
    <3> QED
      BY <1>0, <1>2, <2>1, <2>2, <3>2 DEF SignedHeld, CompletedHeld
  <2>7. CASE ~(doc[s] < DocCount)
    <3>1. pc'[s] = "seal_certify"
      BY <2>1, <2>7
    <3>2. \A d \in Docs : d < doc'[s]
      BY <2>1, <2>7 DEF Docs
    <3>3. SlotSerial(s)'
      BY <1>2, <1>3, <2>1, <2>2, <2>5, <3>1, <3>2
      DEF SlotSerial, RunHeld, FlattenHeld, MarkHeld, SealSteps, FlattenSteps,
          NotifySteps
    <3> QED
      BY <1>0, <1>2, <2>1, <2>2, <3>3 DEF SignedHeld, CompletedHeld
  <2> QED
    BY <2>6, <2>7
<1>8. CASE SealCertify(s) \/ SealComplete(s)
  <2>1. /\ pc[s] \in {"seal_certify", "seal_complete"}
        /\ UNCHANGED <<signedKey, documentHash, objects, delivered, doc, view, run,
                       listed>>
    BY <1>8 DEF SealCertify, SealComplete, Goto, files, load
  <2>2. /\ \A d \in Docs : SealedAs(d, s) /\ SealedAs(d, s)'
        /\ listed[s] = Signers /\ delivered = {} /\ status # "COMPLETED"
    BY <1>0, <1>3, <2>1 DEF RunHeld, SealedAs, CompletedHeld
  <2>3. CASE SealCertify(s)
    <3>1. /\ pc'[s] = "seal_complete" /\ UNCHANGED status
          /\ certificate' = [run |-> run[s], listed |-> listed[s]]
      BY <2>3 DEF SealCertify, Goto, row
    <3>2. SlotSerial(s)'
      BY <1>2, <2>1, <2>2, <3>1
      DEF SlotSerial, RunHeld, FlattenHeld, MarkHeld, SealSteps, FlattenSteps,
          NotifySteps
    <3> QED
      BY <1>0, <1>2, <2>1, <2>2, <3>1, <3>2 DEF SignedHeld, CompletedHeld
  <2>4. CASE SealComplete(s)
    <3>1. /\ pc[s] = "seal_complete" /\ pc'[s] = "seal_audit"
          /\ status' = "COMPLETED" /\ completedAt' = run[s]
          /\ UNCHANGED certificate
      BY <2>4 DEF SealComplete, Goto, files
    <3>2. certificate = [run |-> run[s], listed |-> Signers]
      BY <1>0, <3>1 DEF RunHeld
    <3>3. SlotSerial(s)'
      BY <1>2, <2>1, <2>2, <3>1, <3>2
      DEF SlotSerial, RunHeld, FlattenHeld, MarkHeld, SealSteps, FlattenSteps,
          NotifySteps
    <3>4. CompletedHeld'
      BY <1>2, <2>1, <2>2, <3>1, <3>2 DEF CompletedHeld, SealedAs
    <3> QED
      BY <1>0, <1>2, <3>1, <3>3, <3>4 DEF SignedHeld
  <2> QED
    BY <1>8, <2>3, <2>4
<1>9. CASE SealAudit(s)
  <2>1. /\ Steady /\ pc[s] = "seal_audit" /\ pc'[s] = "seal_mail"
        /\ UNCHANGED <<view, run, listed>>
    BY <1>9 DEF SealAudit, Goto, row, people, files, load, Steady
  <2>2. /\ \A d \in Docs : SealedAs(d, s) /\ SealedAs(d, s)'
        /\ certificate' = [run |-> run'[s], listed |-> Signers]
        /\ status' = "COMPLETED"
    BY <1>0, <2>1 DEF RunHeld, SealedAs, Steady
  <2>3. SlotSerial(s)'
    BY <1>2, <1>3, <2>1, <2>2
    DEF SlotSerial, RunHeld, FlattenHeld, MarkHeld, SealSteps, FlattenSteps,
        NotifySteps
  <2> QED
    BY <1>0, <2>1, <2>3, SteadyKeeps
<1>10. CASE SealMail(s)
  <2>1. /\ pc[s] = "seal_mail" /\ pc'[s] = "idle"
        /\ UNCHANGED <<status, completedAt, signedKey, documentHash, objects,
                       certificate>>
    BY <1>10 DEF SealMail, Finish, row
  <2>2. PICK loaded \in SUBSET Docs :
          delivered' = delivered \cup
                         {<<d, objects[<<"sealed", Name[d]>>]>> : d \in loaded}
    BY <1>10 DEF SealMail
  <2>3. /\ status = "COMPLETED"
        /\ \A d \in Docs : objects[<<"sealed", Name[d]>>] = documentHash[d]
    BY <1>0, <2>1 DEF RunHeld, SealedAs
  <2>4. ASSUME NEW copy \in delivered' PROVE copy[2] = documentHash'[copy[1]]
    <3>1. CASE copy \in delivered
      BY <1>0, <2>1, <2>3, <3>1 DEF CompletedHeld
    <3>2. CASE copy \notin delivered
      <4>1. PICK d \in loaded : copy = <<d, objects[<<"sealed", Name[d]>>]>>
        BY <2>2, <3>2
      <4> QED
        BY <2>1, <2>3, <4>1
    <3> QED
      BY <3>1, <3>2
  <2>5. CompletedHeld'
    BY <1>0, <1>2, <2>1, <2>3, <2>4 DEF CompletedHeld
  <2> QED
    BY <1>0, <1>2, <2>1, <2>5, PlainSerial DEF SignedHeld
<1> QED
  BY <1>4, <1>5, <1>6, <1>7, <1>8, <1>9, <1>10

LEMMA SerialStep ==
  ASSUME OneAtATime, DistinctNames, IInv, SerialInv, [Next]_vars
  PROVE  SerialInv'
<1>0. TypeOK /\ ActorKnown /\ DocInRange
  BY DEF IInv
<1>1. ASSUME NEW s \in Slots, SignedHeld' /\ CompletedHeld' /\ SlotSerial(s)'
      PROVE  SerialInv'
  BY <1>1 DEF OneAtATime, SerialInv
<1>2. ASSUME NEW s \in Slots, RecipientStep(s) PROVE SerialInv'
  BY <1>0, <1>1, <1>2, SignSerial, NotifySerial DEF RecipientStep
<1>3. ASSUME NEW s \in Slots, SealingStep(s) PROVE SerialInv'
  BY <1>0, <1>1, <1>3, SealSerial, FlattenSerial DEF SealingStep
<1>4. ASSUME NEW s \in Slots, SenderStep(s) PROVE SerialInv'
  BY <1>0, <1>1, <1>4, SenderSerial
<1>5. ASSUME NEW s \in Slots, Request(s) PROVE SerialInv'
  BY <1>0, <1>1, <1>5, RequestSerial
<1>6. ASSUME NEW s \in Slots, Abort(s) PROVE SerialInv'
  <2>1. Steady /\ pc'[s] = "idle"
    BY <1>0, <1>6 DEF Abort, Finish, row, people, files, Steady, TypeOK, SlotTypeOK
  <2> QED
    BY <1>1, <2>1, SteadyKeeps, PlainSerial DEF SerialInv
<1>7. ASSUME Steady, UNCHANGED slot PROVE SerialInv'
  <2>1. ASSUME NEW s \in Slots PROVE SlotSerial(s)'
    <3>1. SlotSerial(s)
      BY DEF SerialInv
    <3>2. RunHeld(s)'
      BY <1>7, <3>1, SteadyKeeps DEF slot, Steady, SlotSerial, RunHeld, SealedAs
    <3>3. FlattenHeld(s)'
      BY <1>7, <3>1, SteadyKeeps DEF slot, Steady, SlotSerial, FlattenHeld
    <3>4. MarkHeld(s)'
      BY <1>7, <3>1, SteadyKeeps DEF slot, Steady, SlotSerial, MarkHeld
    <3> QED
      BY <3>2, <3>3, <3>4 DEF SlotSerial
  <2> QED
    BY <1>7, <2>1, SteadyKeeps DEF SerialInv
<1>8. ASSUME NEW r \in Recipients, Expire(r) PROVE SerialInv'
  BY <1>7, <1>8 DEF Expire, row, files, Steady
<1>9. CASE UNCHANGED vars
  BY <1>7, <1>9 DEF vars, row, people, files, Steady
<1> QED
  BY <1>2, <1>3, <1>4, <1>5, <1>6, <1>8, <1>9 DEF Next, Step

LEMMA SerialHolds ==
  ASSUME OneAtATime, DistinctNames
  PROVE  Spec => [](IInv /\ SerialInv)
<1>1. Init => SerialInv
  <2> SUFFICES ASSUME Init PROVE SerialInv
    OBVIOUS
  <2>1. HasSigned = {} /\ status = "DRAFT" /\ delivered = {}
    BY DEF Init, HasSigned, NoValues
  <2>2. ASSUME NEW s \in Slots PROVE SlotSerial(s)
    BY DEF Init, SlotSerial, RunHeld, FlattenHeld, MarkHeld, SealSteps,
           FlattenSteps, NotifySteps
  <2> QED
    BY <2>1, <2>2 DEF SerialInv, SignedHeld, CompletedHeld
<1>2. IInv /\ SerialInv /\ [Next]_vars => SerialInv'
  BY SerialStep
<1> QED
  BY <1>1, <1>2, InvariantHolds, PTL DEF Spec

\* As long as requests are served one at a time, wherever they die and in
\* whatever order clients come, a COMPLETED envelope is consistent across the
\* database and the bucket: the certificate is of the run that completed and
\* lists all signers, the file served is the file hashed, and so are the copies
\* mailed.
THEOREM CompletedConsistent ==
  ASSUME OneAtATime, DistinctNames
  PROVE  Spec => []CompletedIsConsistent
<1>1. IInv /\ SerialInv => CompletedIsConsistent
  <2> SUFFICES ASSUME IInv, SerialInv, status = "COMPLETED"
               PROVE  CompletedIsConsistent
    BY DEF CompletedIsConsistent
  <2>1. completedAt # 0 /\ CompletionIsEarned
    BY DEF IInv, SealingHeld
  <2>2. \A d \in Docs : Served(d) = documentHash[d]
    BY DEF SerialInv, CompletedHeld, Served
  <2> QED
    BY <2>1, <2>2 DEF SerialInv, CompletedHeld, CompletedIsConsistent,
                      CompletionIsEarned
<1> QED
  BY <1>1, SerialHolds, PTL

\* Under the same conditions whoever is invited after the first routing order
\* opens a file that shows the values of everyone who has signed so far.
THEOREM NextSeesPrior ==
  ASSUME OneAtATime, DistinctNames
  PROVE  Spec => NextSignerSeesPrior
<1> DEFINE Shown == \A r \in mailed' \ mailed :
      First(r) \/ \A d \in Docs, q \in HasSigned :
        q \in Owners[d] => Served(d).baked[q] = signings[q]
<1>1. IInv /\ SerialInv /\ [Next]_vars => [Shown]_vars
  <2> SUFFICES ASSUME IInv, SerialInv, Next, NEW r \in mailed' \ mailed, ~First(r),
                      NEW d \in Docs
               PROVE  Fresh(d)
    BY DEF Fresh
  <2>1. ASSUME NEW s \in Slots, NotifySend(s) PROVE Fresh(d)
    BY <2>1 DEF NotifySend, NotifySteps, SerialInv, SlotSerial, FlattenHeld
  <2>2. ASSUME NEW s \in Slots, SendMail(s) PROVE FALSE
    BY <2>2 DEF SendMail, IInv, TurnHeld
  <2>3. ASSUME NEW s \in Slots, RecipientStep(s), ~NotifySend(s) PROVE FALSE
    BY <2>3 DEF RecipientStep, ConsentRecord, ConsentStamp, ConsentAudit,
       SignCommit, SignLose, SignRecheck, NotifyMark, NotifyAudit, DeclineCommit,
       DeclineAudit, log
  <2>4. ASSUME NEW s \in Slots, SealingStep(s) PROVE FALSE
    BY <2>4 DEF SealingStep, SealSkip, SealLoad, SealUpload, SealRecord,
       SealCertify, SealComplete, SealAudit, SealMail, FlattenLoad, FlattenSkip,
       FlattenUpload, FlattenRecord, FlattenEnd, log
  <2>5. ASSUME NEW s \in Slots, SenderStep(s), ~SendMail(s) PROVE FALSE
    BY <2>5 DEF SenderStep, SendAudit, SendCommit, VoidCommit, VoidAudit, log
  <2>6. ASSUME NEW s \in Slots, Request(s) \/ Abort(s) PROVE FALSE
    BY <2>6 DEF Request, SendBegin, VoidBegin, ConsentBegin, SignBegin,
       DeclineBegin, Abort, log
  <2>7. ASSUME NEW q \in Recipients, Expire(q) PROVE FALSE
    BY <2>7 DEF Expire, log
  <2> QED
    BY <2>1, <2>2, <2>3, <2>4, <2>5, <2>6, <2>7 DEF Next, Step
<1>2. [][IInv /\ SerialInv /\ [Next]_vars => [Shown]_vars]_vars
  BY <1>1, PTL
<1> QED
  BY <1>1, SerialHolds, PTL DEF Spec, NextSignerSeesPrior
===============================================================================
