------------------------------ MODULE FormProofs ------------------------------
(***************************************************************************)
(* What a signer can rely on in her browser, for any fields: the form says *)
(* "Signing Complete" of what is recorded, records no empty required field *)
(* and no signature she did not put there; and the modal's photo is the    *)
(* one she chose last.                                                     *)
(***************************************************************************)
EXTENDS SignatureModal, FiniteSetTheorems, WellFoundedInduction, TLAPS

-----------------------------------------------------------------------------
\* The inductive invariant of the form.

\* Values that may be recorded: signatures where the signer put them or where her
\* focus strayed to, and every
\* required field filled, unless one was emptied under the dialog.
Sound(v, slip, put) ==
  /\ v \in [Fields -> Values]
  /\ ~slip => \A f \in Required : v[f] # ""
  /\ SignaturesIn(v) \subseteq put

\* The last POST is the one that completes the form, and nothing is recorded
\* after it.
AnswerHeld ==
  step = "COMPLETE" => status # "SENT" /\ recorded = posts[Len(posts)]

RecordHeld ==
  /\ \A n \in pending : Sound(posts[n], slipped, adopted \cup strayed)
  /\ recorded # << >> => Sound(recorded, slipped, adopted \cup strayed)

\* The dialog opens over a filled form.
DialogHeld == confirm /\ ~slipped => AllRequiredDone

\* A signature field is active only while the modal was opened for it, another
\* only where the focus strayed to; and a signature waits for its font only on
\* such a field.
ModalHeld ==
  /\ active \in Signatures => opened = active
  /\ modal => opened \in Signatures /\ active \in Signatures \cup strayed
  /\ SignaturesIn(value) \cup adopting \subseteq adopted \cup strayed

FormInv == TypeOK /\ AnswerHeld /\ RecordHeld /\ DialogHeld /\ ModalHeld

LEMMA FormInit == Init => FormInv
<1> SUFFICES ASSUME Init PROVE FormInv
  OBVIOUS
<1>1. TypeOK
  <2>1. value \in [Fields -> Values]
    BY DEF Init, Values
  <2>2. /\ posts \in Seq([Fields -> Values] \cup {<< >>}) /\ Len(posts) <= MaxPosts
        /\ pending \subseteq DOMAIN posts
    <3>1. posts = << >> /\ pending = {}
      BY DEF Init
    <3>2. << >> \in Seq([Fields -> Values] \cup {<< >>}) /\ Len(<< >>) = 0
      OBVIOUS
    <3>3. 0 <= MaxPosts
      BY FormAssumption
    <3> QED
      BY <3>1, <3>2, <3>3
  <2>3. modal \in BOOLEAN /\ busy \in BOOLEAN /\ confirm \in BOOLEAN
        /\ declining \in BOOLEAN /\ slipped \in BOOLEAN
    BY Zenon DEF Init
  <2>4. /\ active \in Fields \cup {NoField} /\ opened \in Signatures \cup {NoField}
        /\ adopting \subseteq Fields /\ adopted \subseteq Signatures
        /\ strayed \subseteq Inline
    BY DEF Init
  <2>5. recorded \in [Fields -> Values] \cup {<< >>}
    BY DEF Init
  <2> QED
    BY <2>1, <2>2, <2>3, <2>4, <2>5, Zenon DEF Init, TypeOK
<1>2. AnswerHeld /\ RecordHeld /\ DialogHeld
  BY DEF Init, AnswerHeld, RecordHeld, DialogHeld
<1>3. ModalHeld
  BY FormAssumption DEF Init, ModalHeld, Fields, SignaturesIn
<1> QED
  BY <1>1, <1>2, <1>3 DEF FormInv

-----------------------------------------------------------------------------
\* Types, in two parts.

PageTypes ==
  /\ step \in {"SIGNING", "SUBMITTING", "COMPLETE", "LEFT"}
  /\ value \in [Fields -> Values]
  /\ active \in Fields \cup {NoField}
  /\ modal \in BOOLEAN /\ busy \in BOOLEAN
  /\ adopting \subseteq Fields
  /\ confirm \in BOOLEAN
  /\ declining \in BOOLEAN
  /\ opened \in Signatures \cup {NoField}
  /\ adopted \subseteq Signatures /\ strayed \subseteq Inline
  /\ slipped \in BOOLEAN

ServerTypes ==
  /\ posts \in Seq([Fields -> Values] \cup {<< >>}) /\ Len(posts) <= MaxPosts
  /\ pending \subseteq DOMAIN posts
  /\ status \in {"SENT", "SIGNED", "CLOSED"}
  /\ recorded \in [Fields -> Values] \cup {<< >>}

LEMMA TypeParts == TypeOK <=> PageTypes /\ ServerTypes
  BY Zenon DEF TypeOK, PageTypes, ServerTypes

LEMMA TypePartsNext == TypeOK' <=> PageTypes' /\ ServerTypes'
  BY Zenon DEF TypeOK, PageTypes, ServerTypes

\* What was sound stays so: the signer only adopts more, and a slip is kept.
LEMMA SoundStays ==
  ASSUME NEW v, NEW slip, NEW slip2, NEW put, NEW put2,
         Sound(v, slip, put), ~slip2 => ~slip, put \subseteq put2
  PROVE  Sound(v, slip2, put2)
  BY DEF Sound

\* A step of the page alone.
Local ==
  /\ UNCHANGED server
  /\ step' = step
  /\ adopted \subseteq adopted' /\ strayed \subseteq strayed'
  /\ ~slipped' => ~slipped

LEMMA LocalKeeps ==
  ASSUME FormInv, Local
  PROVE  ServerTypes' /\ AnswerHeld' /\ RecordHeld'
<1>1. UNCHANGED <<posts, pending, status, recorded, step>>
  BY DEF Local, server
<1>2. ServerTypes'
  BY <1>1, TypeParts, Zenon DEF FormInv, ServerTypes
<1>3. AnswerHeld'
  BY <1>1, Zenon DEF FormInv, AnswerHeld
<1>4. \A v : Sound(v, slipped, adopted \cup strayed)
               => Sound(v, slipped', adopted' \cup strayed')
  <2>1. adopted \cup strayed \subseteq adopted' \cup strayed'
    BY DEF Local
  <2> QED
    BY <2>1, SoundStays DEF Local
<1>5. RecordHeld'
  BY <1>1, <1>4 DEF FormInv, RecordHeld
<1> QED
  BY <1>2, <1>3, <1>5

\* A signature comes to a field of its own.
LEMMA StampKeeps ==
  ASSUME FormInv, NEW f \in Fields, Stamp(f), f \in adopted' \cup strayed,
         adopted \subseteq adopted', adopted' \subseteq Signatures,
         adopting' \subseteq adopting,
         UNCHANGED <<step, confirm, declining, strayed, slipped>>
  PROVE  PageTypes' /\ DialogHeld' /\ ModalHeld'
<1>0. PageTypes
  BY TypeParts DEF FormInv
<1>1. /\ value' \in [Fields -> Values]
      /\ value'[f] = "ink" /\ \A g \in Fields \ {f} : value'[g] = value[g]
  BY <1>0 DEF Stamp, PageTypes, Values
<1>2. /\ modal' = FALSE /\ busy' = FALSE
      /\ active' = NoField /\ opened' = NoField
  BY DEF Stamp, CloseModal
<1>3. modal' \in BOOLEAN /\ busy' \in BOOLEAN
  BY <1>2, Zenon
<1>4. PageTypes'
  <2>1. /\ active' \in Fields \cup {NoField} /\ opened' \in Signatures \cup {NoField}
        /\ adopting' \subseteq Fields
    BY <1>0, <1>2 DEF PageTypes
  <2> QED
    BY <1>0, <1>1, <1>3, <2>1, Zenon DEF PageTypes
<1>5. DialogHeld'
  <2>1. AllRequiredDone => AllRequiredDone'
    BY <1>1, FormAssumption DEF AllRequiredDone
  <2> QED
    BY <2>1, Zenon DEF FormInv, DialogHeld
<1>6. ModalHeld'
  <2>1. NoField \notin Signatures /\ Signatures \subseteq Fields
    BY FormAssumption DEF Fields
  <2>2. SignaturesIn(value') \cup adopting' \subseteq adopted' \cup strayed
    BY <1>1, <2>1 DEF FormInv, ModalHeld, SignaturesIn
  <2> QED
    BY <1>2, <2>1, <2>2 DEF ModalHeld
<1> QED
  BY <1>4, <1>5, <1>6

-----------------------------------------------------------------------------
\* What the signer does keeps the invariant.

\* The mouse reaches a field only while the modal is closed.
LEMMA NoModal ==
  ASSUME FormInv, Uncovered
  PROVE  ~modal
<1>1. NoField \notin Signatures \cup strayed
  BY FormAssumption DEF FormInv, TypeOK, Fields
<1> QED
  BY <1>1 DEF FormInv, ModalHeld, Uncovered, ModalShown

LEMMA ClickSignatureKeeps ==
  ASSUME FormInv, NEW f \in Signatures, ClickSignature(f)
  PROVE  FormInv'
<1>0. PageTypes /\ f \in Fields
  BY TypeParts DEF FormInv, Fields
<1>1. Local
  BY <1>0, Zenon DEF ClickSignature, Local
<1>2. ~confirm' /\ UNCHANGED <<step, adopting, confirm, declining, strayed, slipped>>
  BY DEF ClickSignature, Uncovered
<1>3. DialogHeld'
  BY <1>2, Zenon DEF DialogHeld
<1>4. CASE value[f] = "" /\ f \in Saved
  <2>1. /\ value' = [value EXCEPT ![f] = "saved"] /\ active' = NoField
        /\ adopted' = adopted \cup {f} /\ UNCHANGED <<modal, busy, opened>>
    BY <1>4, Zenon DEF ClickSignature
  <2>2. value' \in [Fields -> Values]
    BY <1>0, <2>1 DEF PageTypes, Values
  <2>3. active' \in Fields \cup {NoField} /\ adopted' \subseteq Signatures
    BY <1>0, <2>1 DEF PageTypes
  <2>4. PageTypes'
    BY <1>0, <1>2, <2>1, <2>2, <2>3, Zenon DEF PageTypes
  <2>5. ModalHeld'
    <3>1. NoField \notin Signatures
      BY FormAssumption DEF Fields
    <3>2. SignaturesIn(value') \cup adopting \subseteq adopted' \cup strayed
      <4>1. \A g \in Fields \ {f} : value'[g] = value[g]
        BY <1>0, <2>1 DEF PageTypes
      <4> QED
        BY <1>0, <2>1, <4>1 DEF FormInv, ModalHeld, SignaturesIn
    <3>3. ~modal'
      BY <2>1, NoModal, Zenon DEF ClickSignature
    <3> QED
      BY <1>2, <2>1, <3>1, <3>2, <3>3, Zenon DEF ModalHeld
  <2> QED
    BY <1>1, <1>3, <2>4, <2>5, LocalKeeps, TypePartsNext DEF FormInv
<1>5. CASE ~(value[f] = "" /\ f \in Saved)
  <2>1. /\ active' = f /\ modal' = TRUE /\ busy' = FALSE /\ opened' = f
        /\ UNCHANGED <<value, adopted>>
    BY <1>5, Zenon DEF ClickSignature
  <2>2. modal' \in BOOLEAN /\ busy' \in BOOLEAN
    BY <2>1, Zenon
  <2>3. active' \in Fields \cup {NoField} /\ opened' \in Signatures \cup {NoField}
    BY <1>0, <2>1
  <2>4. PageTypes'
    BY <1>0, <1>2, <2>1, <2>2, <2>3, Zenon DEF PageTypes
  <2>5. ModalHeld'
    <3>1. active' \in Signatures \cup strayed'
      BY <2>1
    <3> QED
      BY <1>2, <2>1, <3>1, Zenon DEF FormInv, ModalHeld, SignaturesIn
  <2> QED
    BY <1>1, <1>3, <2>4, <2>5, LocalKeeps, TypePartsNext DEF FormInv
<1> QED
  BY <1>4, <1>5

LEMMA ClickOtherKeeps ==
  ASSUME FormInv, NEW f \in Boxes \cup Dated, ClickOther(f)
  PROVE  FormInv'
<1>0. PageTypes /\ f \in Fields \ Signatures
  BY TypeParts, FormAssumption DEF FormInv, Fields
<1>1. Local
  BY Zenon DEF ClickOther, Local, history
<1>2. /\ ~confirm' /\ UNCHANGED <<step, modal, busy, adopting, confirm, declining>>
      /\ UNCHANGED <<opened, adopted, strayed, slipped>> /\ active' = NoField
  BY DEF ClickOther, Uncovered, history
<1>3. /\ value' \in [Fields -> Values] /\ value'[f] \in {"auto", "true", ""}
      /\ \A g \in Fields \ {f} : value'[g] = value[g]
  BY <1>0 DEF ClickOther, Toggle, PageTypes, Values
<1>4. PageTypes'
  <2>1. active' \in Fields \cup {NoField}
    BY <1>2
  <2> QED
    BY <1>0, <1>2, <1>3, <2>1, Zenon DEF PageTypes
<1>5. DialogHeld'
  BY <1>2, Zenon DEF DialogHeld
<1>6. ModalHeld'
  <2>1. NoField \notin Signatures /\ Signatures \subseteq Fields
    BY FormAssumption DEF Fields
  <2>2. SignaturesIn(value') \cup adopting \subseteq adopted \cup strayed
    BY <1>0, <1>3, <2>1 DEF FormInv, ModalHeld, SignaturesIn
  <2>3. ~modal'
    BY <1>2, NoModal DEF ClickOther
  <2> QED
    BY <1>2, <2>1, <2>2, <2>3, Zenon DEF FormInv, ModalHeld
<1> QED
  BY <1>1, <1>4, <1>5, <1>6, LocalKeeps, TypePartsNext DEF FormInv

LEMMA TypeInlineKeeps ==
  ASSUME FormInv, NEW f \in Inline, NEW v \in {"", "typed", value[f]}, TypeInline(f, v)
  PROVE  FormInv'
<1>0. PageTypes /\ f \in Fields \ Signatures
  BY TypeParts, FormAssumption DEF FormInv, Fields
<1>1. slipped' = (slipped \/ (confirm /\ f \in Required /\ v = ""))
  BY DEF TypeInline
<1>2. slipped' \in BOOLEAN /\ (~slipped' => ~slipped)
  BY <1>1, Zenon
<1>3. Local
  <2>1. strayed \subseteq strayed'
    BY DEF TypeInline
  <2> QED
    BY <1>2, <2>1, Zenon DEF TypeInline, Local
<1>4. /\ UNCHANGED <<step, modal, busy, adopting, confirm, declining, opened, adopted>>
      /\ strayed' = strayed \cup (IF ModalShown THEN {f} ELSE {})
  BY DEF TypeInline
<1>5. /\ value' \in [Fields -> Values] /\ value'[f] = v /\ active' = f
      /\ \A g \in Fields \ {f} : value'[g] = value[g]
  BY <1>0 DEF TypeInline, PageTypes, Values
<1>6. PageTypes'
  <2>1. active' \in Fields \cup {NoField} /\ strayed' \subseteq Inline
    BY <1>0, <1>4, <1>5 DEF PageTypes
  <2> QED
    BY <1>0, <1>2, <1>4, <1>5, <2>1, Zenon DEF PageTypes
<1>7. DialogHeld'
  <2>1. SUFFICES ASSUME confirm, ~slipped' PROVE AllRequiredDone'
    BY <1>4, Zenon DEF DialogHeld
  <2>2. AllRequiredDone
    BY <1>2, <2>1, Zenon DEF FormInv, DialogHeld
  <2>3. f \in Required => v # ""
    BY <1>1, <2>1, Zenon
  <2> QED
    BY <1>5, <2>2, <2>3, FormAssumption DEF AllRequiredDone
<1>8. ModalHeld'
  <2>1. SignaturesIn(value') \subseteq SignaturesIn(value)
    BY <1>0, <1>5 DEF SignaturesIn
  <2>2. SignaturesIn(value') \cup adopting' \subseteq adopted' \cup strayed'
    BY <1>4, <2>1 DEF FormInv, ModalHeld
  <2>3. active' = f /\ f \notin Signatures
    BY <1>0, <1>5
  <2>4. modal' => ModalShown
    <3>1. modal => active # NoField
      BY FormAssumption DEF FormInv, ModalHeld, TypeOK, Fields
    <3>2. modal' = modal /\ Shown
      BY <1>4 DEF TypeInline
    <3> QED
      BY <3>1, <3>2, Zenon DEF ModalShown
  <2>5. modal' => active' \in strayed'
    BY <1>4, <2>3, <2>4
  <2> QED
    BY <1>4, <2>2, <2>3, <2>5 DEF FormInv, ModalHeld
<1> QED
  BY <1>3, <1>6, <1>7, <1>8, LocalKeeps, TypePartsNext DEF FormInv

\* Where the modal is on the screen it was opened for the active field, unless
\* the focus strayed to that one.
LEMMA ModalOpened ==
  ASSUME FormInv, ModalShown
  PROVE  /\ active \in Fields /\ opened \in Signatures
         /\ active \in {opened} \cup strayed
  BY DEF FormInv, ModalShown, ModalHeld, TypeOK

LEMMA AdoptKeeps ==
  ASSUME FormInv, Adopt
  PROVE  FormInv'
<1>1. /\ active \in Fields /\ opened \in Signatures
      /\ active \in {opened} \cup strayed
  BY ModalOpened DEF Adopt
<1>2. /\ Stamp(active) /\ adopted' = adopted \cup {opened}
      /\ UNCHANGED <<step, adopting, confirm, declining, server, strayed, slipped>>
  BY DEF Adopt
<1>3. adopted' \subseteq Signatures /\ adopted \subseteq adopted'
  BY <1>1, <1>2 DEF FormInv, TypeOK
<1>4. PageTypes' /\ DialogHeld' /\ ModalHeld'
  <2>1. active \in adopted' \cup strayed
    BY <1>1, <1>2
  <2> QED
    BY <1>1, <1>2, <1>3, <2>1, StampKeeps
<1>5. Local
  <2>1. strayed \subseteq strayed'
    BY <1>2
  <2> QED
    BY <1>2, <1>3, <2>1, Zenon DEF Local
<1> QED
  BY <1>4, <1>5, LocalKeeps, TypePartsNext DEF FormInv

LEMMA FontLoadedKeeps ==
  ASSUME FormInv, NEW f \in adopting, FontLoaded(f)
  PROVE  FormInv'
<1>1. f \in Fields /\ f \in adopted \cup strayed
  BY DEF FormInv, TypeOK, ModalHeld
<1>2. /\ Stamp(f) /\ adopting' \subseteq adopting
      /\ UNCHANGED <<step, confirm, declining, server, adopted, strayed, slipped>>
  BY DEF FontLoaded
<1>3. adopted \subseteq Signatures
  BY DEF FormInv, TypeOK
<1>4. PageTypes' /\ DialogHeld' /\ ModalHeld'
  BY <1>1, <1>2, <1>3, StampKeeps
<1>5. Local
  BY <1>2, Zenon DEF Local
<1> QED
  BY <1>4, <1>5, LocalKeeps, TypePartsNext DEF FormInv

LEMMA AdoptTypedKeeps ==
  ASSUME FormInv, AdoptTyped
  PROVE  FormInv'
<1>0. PageTypes
  BY TypeParts DEF FormInv
<1>1. /\ active \in Fields /\ opened \in Signatures
      /\ active \in {opened} \cup strayed
  BY ModalOpened DEF AdoptTyped
<1>2. /\ busy' = TRUE /\ adopting' = adopting \cup {active}
      /\ adopted' = adopted \cup {opened}
      /\ UNCHANGED <<step, value, active, modal, confirm, declining, server,
                     opened, strayed, slipped>>
  BY DEF AdoptTyped
<1>3. /\ adopted' \subseteq Signatures /\ adopted \subseteq adopted'
      /\ adopting' \subseteq Fields
  BY <1>0, <1>1, <1>2 DEF PageTypes
<1>4. Local
  BY <1>2, <1>3, Zenon DEF Local
<1>5. PageTypes'
  <2>1. busy' \in BOOLEAN
    BY <1>2, Zenon
  <2> QED
    BY <1>0, <1>2, <1>3, <2>1, Zenon DEF PageTypes
<1>6. DialogHeld'
  BY <1>2, Zenon DEF FormInv, DialogHeld, AllRequiredDone
<1>7. ModalHeld'
  <2>1. SignaturesIn(value) \cup adopting' \subseteq adopted' \cup strayed
    BY <1>1, <1>2 DEF FormInv, ModalHeld
  <2> QED
    BY <1>2, <2>1, Zenon DEF FormInv, ModalHeld, SignaturesIn
<1> QED
  BY <1>4, <1>5, <1>6, <1>7, LocalKeeps, TypePartsNext DEF FormInv

LEMMA CancelModalKeeps ==
  ASSUME FormInv, CancelModal
  PROVE  FormInv'
<1>0. PageTypes
  BY TypeParts DEF FormInv
<1>1. /\ modal' = FALSE /\ busy' = FALSE
      /\ active' = NoField /\ opened' = NoField
      /\ UNCHANGED <<step, value, adopting, confirm, declining, server,
                     adopted, strayed, slipped>>
  BY DEF CancelModal, CloseModal
<1>2. Local
  BY <1>1, Zenon DEF Local
<1>3. PageTypes'
  <2>1. modal' \in BOOLEAN /\ busy' \in BOOLEAN
    BY <1>1, Zenon
  <2>2. active' \in Fields \cup {NoField} /\ opened' \in Signatures \cup {NoField}
    BY <1>1
  <2> QED
    BY <1>0, <1>1, <2>1, <2>2, Zenon DEF PageTypes
<1>4. DialogHeld'
  BY <1>1, Zenon DEF FormInv, DialogHeld, AllRequiredDone
<1>5. ModalHeld'
  <2>1. NoField \notin Signatures
    BY FormAssumption DEF Fields
  <2> QED
    BY <1>1, <2>1, Zenon DEF FormInv, ModalHeld
<1> QED
  BY <1>2, <1>3, <1>4, <1>5, LocalKeeps, TypePartsNext DEF FormInv

LEMMA DialogKeeps ==
  ASSUME FormInv, OpenConfirm \/ CloseConfirm \/ Decline
  PROVE  FormInv'
<1>0. PageTypes
  BY TypeParts DEF FormInv
<1>1. UNCHANGED <<step, value, active, modal, busy, adopting, server, opened,
                  adopted, strayed, slipped>>
  BY Zenon DEF OpenConfirm, CloseConfirm, Decline, history
<1>2. confirm' \in BOOLEAN /\ declining' \in BOOLEAN
  BY <1>0, Zenon DEF OpenConfirm, CloseConfirm, Decline, PageTypes
<1>3. Local
  BY <1>1, Zenon DEF Local
<1>4. PageTypes'
  BY <1>0, <1>1, <1>2, Zenon DEF PageTypes
<1>5. DialogHeld'
  BY <1>1, Zenon DEF FormInv, DialogHeld, AllRequiredDone, OpenConfirm, CloseConfirm,
     Decline
<1>6. ModalHeld'
  BY <1>1, Zenon DEF FormInv, ModalHeld
<1> QED
  BY <1>3, <1>4, <1>5, <1>6, LocalKeeps, TypePartsNext DEF FormInv

\* A step that leaves the fields, the modal and what was adopted alone.
Away == UNCHANGED <<value, active, modal, busy, adopting, declining, opened,
                    adopted, strayed, slipped>>

LEMMA AwayKeeps ==
  ASSUME FormInv, Away, confirm' \in {confirm, FALSE},
         step' \in {"SIGNING", "SUBMITTING", "COMPLETE", "LEFT"}
  PROVE  PageTypes' /\ DialogHeld' /\ ModalHeld'
<1>0. PageTypes
  BY TypeParts DEF FormInv
<1>1. confirm' \in BOOLEAN
  BY <1>0, Zenon DEF PageTypes
<1>2. PageTypes'
  BY <1>0, <1>1, Zenon DEF PageTypes, Away
<1>3. DialogHeld'
  BY Zenon DEF FormInv, DialogHeld, AllRequiredDone, Away
<1>4. ModalHeld'
  BY Zenon DEF FormInv, ModalHeld, Away
<1> QED
  BY <1>2, <1>3, <1>4

LEMMA CompleteKeeps ==
  ASSUME FormInv, Complete
  PROVE  FormInv'
<1>0. ServerTypes /\ PageTypes
  BY TypeParts DEF FormInv
<1>1. /\ confirm' = FALSE /\ step' = "SUBMITTING"
      /\ UNCHANGED <<status, recorded>> /\ Away
  BY DEF Complete, Away, history
<1>2. PageTypes' /\ DialogHeld' /\ ModalHeld'
  BY <1>1, AwayKeeps
<1>3. AnswerHeld'
  BY <1>1 DEF AnswerHeld
<1>4. Sound(value, slipped, adopted \cup strayed)
  <2>1. ~slipped => AllRequiredDone
    BY Zenon DEF Complete, FormInv, DialogHeld
  <2> QED
    BY <1>0, <2>1 DEF Sound, AllRequiredDone, FormInv, ModalHeld, PageTypes
<1> DEFINE kept == [n \in DOMAIN posts |-> IF n \in pending THEN posts[n] ELSE << >>]
           Posts == [Fields -> Values] \cup {<< >>}
<1>5. kept \in Seq(Posts) /\ Len(kept) = Len(posts)
  BY <1>0 DEF ServerTypes
<1>6. /\ posts' = Append(kept, value) /\ pending' = pending \cup {Len(posts) + 1}
      /\ Len(posts) < MaxPosts
  BY DEF Complete
<1>7. value \in Posts
  BY <1>0 DEF PageTypes
<1> HIDE DEF kept, Posts
<1>8. /\ posts' \in Seq(Posts) /\ Len(posts') = Len(posts) + 1
      /\ posts'[Len(posts) + 1] = value
      /\ \A n \in 1..Len(posts) : posts'[n] = kept[n]
  BY <1>5, <1>6, <1>7
<1>9. Len(posts) \in Nat /\ DOMAIN posts = 1..Len(posts) /\ pending \subseteq 1..Len(posts)
  BY <1>0 DEF ServerTypes
<1>10. \A n \in pending : kept[n] = posts[n]
  BY <1>9 DEF kept
<1>11. ServerTypes'
  <2>1. DOMAIN posts' = 1..(Len(posts) + 1)
    BY <1>8, <1>9
  <2>2. pending' \subseteq DOMAIN posts'
    <3>1. pending' \subseteq 1..(Len(posts) + 1)
      <4>1. Len(posts) + 1 \in 1..(Len(posts) + 1)
        BY <1>9
      <4>2. 1..Len(posts) \subseteq 1..(Len(posts) + 1)
        BY <1>9
      <4> QED
        BY <1>6, <1>9, <4>1, <4>2, Zenon
    <3> QED
      BY <2>1, <3>1, Zenon
  <2>3. Len(posts') <= MaxPosts
    BY <1>6, <1>8, <1>9, FormAssumption
  <2> QED
    BY <1>0, <1>1, <1>8, <2>2, <2>3 DEF ServerTypes, Posts
<1>12. RecordHeld'
  <2>1. UNCHANGED <<slipped, adopted, strayed>>
    BY <1>1 DEF Away
  <2>2. \A n \in pending' : Sound(posts'[n], slipped, adopted \cup strayed)
    <3>1. ASSUME NEW n \in pending' PROVE Sound(posts'[n], slipped, adopted \cup strayed)
      <4>1. CASE n = Len(posts) + 1
        BY <1>4, <1>8, <4>1
      <4>2. CASE n # Len(posts) + 1
        <5>1. n \in pending /\ n \in 1..Len(posts)
          BY <1>6, <1>9, <4>2, <3>1
        <5>2. posts'[n] = posts[n]
          BY <1>8, <1>10, <5>1
        <5> QED
          BY <5>1, <5>2 DEF FormInv, RecordHeld
      <4> QED
        BY <4>1, <4>2
    <3> QED
      BY <3>1
  <2>3. recorded' # << >> => Sound(recorded', slipped, adopted \cup strayed)
    BY <1>1 DEF FormInv, RecordHeld
  <2> QED
    BY <2>1, <2>2, <2>3, Zenon DEF RecordHeld
<1> QED
  BY <1>2, <1>3, <1>11, <1>12, TypePartsNext DEF FormInv

-----------------------------------------------------------------------------
\* What the server does keeps the invariant.

LEMMA HandlePostKeeps ==
  ASSUME FormInv, NEW n \in pending, HandlePost(n)
  PROVE  FormInv'
<1>0. ServerTypes /\ PageTypes
  BY TypeParts DEF FormInv
<1>1. confirm' = confirm /\ Away
  BY DEF HandlePost, Away, history
<1>2. step' \in {step, "COMPLETE", "SIGNING"}
  BY DEF HandlePost, Answered
<1>3. PageTypes' /\ DialogHeld' /\ ModalHeld'
  <2>1. step' \in {"SIGNING", "SUBMITTING", "COMPLETE", "LEFT"}
    BY <1>0, <1>2 DEF PageTypes
  <2> QED
    BY <1>1, <2>1, AwayKeeps
<1>4. Len(posts) \in Nat /\ DOMAIN posts = 1..Len(posts) /\ pending \subseteq 1..Len(posts)
  BY <1>0 DEF ServerTypes
<1>5. /\ posts' \in Seq([Fields -> Values] \cup {<< >>}) /\ Len(posts') = Len(posts)
      /\ \A m \in 1..Len(posts) : m # n \/ n = Len(posts) => posts'[m] = posts[m]
      /\ DOMAIN posts' = 1..Len(posts)
  <2>1. CASE n = Len(posts)
    BY <1>0, <1>4, <2>1 DEF HandlePost, ServerTypes
  <2>2. CASE n # Len(posts)
    <3>1. posts' = [posts EXCEPT ![n] = << >>]
      BY <2>2 DEF HandlePost
    <3> QED
      BY <1>0, <1>4, <2>2, <3>1 DEF ServerTypes
  <2> QED
    BY <2>1, <2>2
<1>6. pending' = pending \ {n}
  BY DEF HandlePost
<1>7. Sound(posts[n], slipped, adopted \cup strayed)
  BY DEF FormInv, RecordHeld
<1>8. \/ recorded' = posts[n] /\ status = "SENT" /\ status' = "SIGNED"
      \/ UNCHANGED <<recorded, status>>
  BY DEF HandlePost, Accepts
<1>9. ServerTypes'
  <2>1. pending' \subseteq DOMAIN posts'
    BY <1>4, <1>5, <1>6
  <2>2. recorded' \in [Fields -> Values] \cup {<< >>}
    BY <1>0, <1>7, <1>8 DEF Sound, ServerTypes
  <2>3. status' \in {"SENT", "SIGNED", "CLOSED"}
    BY <1>0, <1>8 DEF ServerTypes
  <2>4. Len(posts') <= MaxPosts
    BY <1>0, <1>5 DEF ServerTypes
  <2> QED
    BY <1>5, <2>1, <2>2, <2>3, <2>4, Zenon DEF ServerTypes
<1>10. RecordHeld'
  <2>1. UNCHANGED <<slipped, adopted, strayed>>
    BY <1>1 DEF Away
  <2>2. \A m \in pending' : posts'[m] = posts[m] /\ m \in pending
    BY <1>4, <1>5, <1>6
  <2>3. \A m \in pending' : Sound(posts'[m], slipped, adopted \cup strayed)
    BY <2>2 DEF FormInv, RecordHeld
  <2>4. recorded' # << >> => Sound(recorded', slipped, adopted \cup strayed)
    BY <1>7, <1>8 DEF FormInv, RecordHeld
  <2> QED
    BY <2>1, <2>3, <2>4, Zenon DEF RecordHeld
<1>11. AnswerHeld'
  <2>1. SUFFICES ASSUME step' = "COMPLETE"
                 PROVE  status' # "SENT" /\ recorded' = posts'[Len(posts)]
    BY <1>5 DEF AnswerHeld
  <2>2. CASE step = "COMPLETE"
    <3>1. status # "SENT" /\ recorded = posts[Len(posts)]
      BY <2>2 DEF FormInv, AnswerHeld
    <3>2. UNCHANGED <<recorded, status>>
      BY <1>8, <3>1
    <3>3. posts'[Len(posts)] = posts[Len(posts)]
      BY <1>4, <1>5
    <3> QED
      BY <3>1, <3>2, <3>3
  <2>3. CASE step # "COMPLETE"
    <3>1. Accepts /\ n = Len(posts)
      BY <2>1, <2>3 DEF HandlePost, Answered
    <3>2. posts'[Len(posts)] = posts[n]
      BY <1>4, <1>5, <3>1
    <3> QED
      BY <3>1, <3>2 DEF HandlePost
  <2> QED
    BY <2>2, <2>3
<1> QED
  BY <1>3, <1>9, <1>10, <1>11, TypePartsNext DEF FormInv

LEMMA OtherKeeps ==
  ASSUME FormInv, LoseConnection \/ HandleDecline \/ Void
  PROVE  FormInv'
<1>0. ServerTypes /\ PageTypes
  BY TypeParts DEF FormInv
<1>1. UNCHANGED <<value, active, modal, busy, adopting, confirm, posts, recorded,
                  opened, adopted, strayed, slipped>>
  BY Zenon DEF LoseConnection, HandleDecline, Void, history, form
<1>2. pending' \subseteq pending
  BY DEF LoseConnection, HandleDecline, Void
<1>3. /\ status' \in {status, "CLOSED"}
      /\ step' \in {step, "SIGNING", "LEFT"}
  BY DEF LoseConnection, HandleDecline, Void, form
<1>4. declining' \in BOOLEAN
  BY <1>0, Zenon DEF PageTypes, LoseConnection, HandleDecline, Void, form
<1>5. PageTypes'
  <2>1. step' \in {"SIGNING", "SUBMITTING", "COMPLETE", "LEFT"}
    BY <1>0, <1>3 DEF PageTypes
  <2> QED
    BY <1>0, <1>1, <1>4, <2>1, Zenon DEF PageTypes
<1>6. ServerTypes'
  <2>1. status' \in {"SENT", "SIGNED", "CLOSED"}
    BY <1>0, <1>3 DEF ServerTypes
  <2>2. pending' \subseteq DOMAIN posts'
    BY <1>0, <1>1, <1>2 DEF ServerTypes
  <2> QED
    BY <1>0, <1>1, <2>1, <2>2, Zenon DEF ServerTypes
<1>7. AnswerHeld'
  BY <1>1, <1>3 DEF FormInv, AnswerHeld
<1>8. RecordHeld'
  <2>1. \A m \in pending' : Sound(posts[m], slipped, adopted \cup strayed)
    BY <1>2 DEF FormInv, RecordHeld
  <2> QED
    BY <1>1, <2>1, Zenon DEF FormInv, RecordHeld
<1>9. DialogHeld' /\ ModalHeld'
  BY <1>1, Zenon DEF FormInv, DialogHeld, AllRequiredDone, ModalHeld
<1> QED
  BY <1>5, <1>6, <1>7, <1>8, <1>9, TypePartsNext DEF FormInv

LEMMA FormNext == FormInv /\ [Next]_vars => FormInv'
<1> SUFFICES ASSUME FormInv, [Next]_vars PROVE FormInv'
  OBVIOUS
<1>1. CASE UNCHANGED vars
  <2>1. TypeOK'
    BY <1>1, Zenon DEF FormInv, TypeOK, vars, form, server, history
  <2>2. AnswerHeld' /\ RecordHeld' /\ DialogHeld' /\ ModalHeld'
    BY <1>1, Zenon DEF FormInv, AnswerHeld, RecordHeld, DialogHeld, AllRequiredDone,
       ModalHeld, vars, form, server, history
  <2> QED
    BY <2>1, <2>2 DEF FormInv
<1>2. CASE Signer
  BY <1>2, ClickSignatureKeeps, ClickOtherKeeps, TypeInlineKeeps, AdoptKeeps,
     AdoptTypedKeeps, CancelModalKeeps, DialogKeeps, CompleteKeeps DEF Signer
<1> QED
  BY <1>1, <1>2, FontLoadedKeeps, HandlePostKeeps, OtherKeeps DEF Next

-----------------------------------------------------------------------------
\* The photo of the modal.

Jobs == [at : {"read", "decode"}, of : Photos, strip : BOOLEAN]

\* The one job under way has the choice of the box, and is of the last photo.
Underway(job) ==
  /\ jobs = {job} /\ job.strip = strip
  /\ job.at = "read" => preview = Nothing
  /\ job.at = "decode" => job.of = source

PhotoTypes ==
  /\ strip \in BOOLEAN /\ overtaken \in BOOLEAN
  /\ source \in Photos \cup {NoPhoto}
  /\ preview # Nothing => preview.of \in Photos
  /\ jobs \subseteq Jobs

\* Without an overlap one job at most is under way.
PhotoHeld ==
  /\ PhotoTypes
  /\ ~overtaken => PreviewIsChosen /\ (jobs = {} \/ \E job \in jobs : Underway(job))

LEMMA NoUpload ==
  ASSUME source' = NoPhoto, preview' = Nothing, strip' = TRUE, jobs' = {},
         overtaken' = FALSE
  PROVE  PhotoHeld'
<1>1. strip' \in BOOLEAN /\ overtaken' \in BOOLEAN
  BY Zenon
<1>2. PhotoTypes'
  BY <1>1, Zenon DEF PhotoTypes
<1>3. PreviewIsChosen'
  BY Zenon DEF PreviewIsChosen
<1> QED
  BY <1>2, <1>3, Zenon DEF PhotoHeld

LEMMA SameUpload ==
  ASSUME PhotoHeld, UNCHANGED upload
  PROVE  PhotoHeld'
  BY Zenon DEF PhotoHeld, PhotoTypes, PreviewIsChosen, Underway, upload

\* What starts runs alone, or is noted as an overlap.
LEMMA StartsHeld ==
  ASSUME PhotoTypes, NEW job \in Jobs, Starts(job), PhotoTypes',
         jobs = {} => /\ job.strip = strip'
                      /\ job.at = "read" => preview' = Nothing
                      /\ job.at = "decode" => job.of = source'
  PROVE  PhotoHeld'
<1> SUFFICES ASSUME ~overtaken'
             PROVE  PreviewIsChosen' /\ \E j \in jobs' : Underway(j)'
  BY Zenon DEF PhotoHeld
<1>1. jobs = {}
  BY Zenon DEF Starts
<1>2. jobs' = {job}
  BY <1>1 DEF Starts
<1>3. PreviewIsChosen'
  <2>1. jobs' # {}
    BY <1>2
  <2> QED
    BY <2>1, Zenon DEF PreviewIsChosen
<1>4. \A j \in jobs' : Underway(j)'
  BY <1>1, <1>2, Zenon DEF Underway
<1> QED
  BY <1>2, <1>3, <1>4

LEMMA ChooseFileHeld ==
  ASSUME PhotoHeld, NEW photo \in Photos, ChooseFile(photo)
  PROVE  PhotoHeld'
<1>1. PICK job : job = [at |-> "read", of |-> photo, strip |-> strip]
  OBVIOUS
<1>2. job.at = "read" /\ job.strip = strip
  BY <1>1
<1>3. job \in Jobs
  BY <1>1, Zenon DEF PhotoHeld, PhotoTypes, Jobs
<1>4. Starts(job) /\ preview = Nothing /\ UNCHANGED <<source, preview, strip>>
  BY <1>1, Zenon DEF ChooseFile
<1>5. PhotoTypes'
  <2>1. overtaken' \in BOOLEAN
    BY <1>4, Zenon DEF Starts
  <2>2. jobs' \subseteq Jobs
    BY <1>3, <1>4 DEF Starts, PhotoHeld, PhotoTypes
  <2> QED
    BY <1>4, <2>1, <2>2, Zenon DEF PhotoHeld, PhotoTypes
<1>6. (job.at = "decode" => job.of = source') /\ job.strip = strip' /\ preview' = Nothing
  BY <1>2, <1>4
<1> QED
  BY <1>3, <1>4, <1>5, <1>6, StartsHeld, Zenon DEF PhotoHeld

LEMMA FileReadHeld ==
  ASSUME PhotoHeld, NEW job \in jobs, FileRead(job)
  PROVE  PhotoHeld'
<1>0. job \in Jobs /\ job.at = "read" /\ job.of \in Photos
  BY DEF PhotoHeld, PhotoTypes, Jobs, FileRead
<1>1. PICK next : next = [job EXCEPT !.at = "decode"]
  OBVIOUS
<1>2. next \in Jobs
  BY <1>0, <1>1 DEF Jobs
<1>3. next.at = "decode" /\ next.of = job.of /\ next.strip = job.strip
  BY <1>0, <1>1 DEF Jobs
<1>4. /\ source' = job.of /\ jobs' = (jobs \ {job}) \cup {next}
      /\ UNCHANGED <<preview, strip, overtaken>>
  BY <1>1 DEF FileRead, JobStep
<1>5. PhotoTypes'
  <2>1. jobs' \subseteq Jobs /\ source' \in Photos \cup {NoPhoto}
    BY <1>0, <1>2, <1>4 DEF PhotoHeld, PhotoTypes
  <2> QED
    BY <1>4, <2>1, Zenon DEF PhotoHeld, PhotoTypes
<1>6. ASSUME ~overtaken' PROVE PreviewIsChosen' /\ \E j \in jobs' : Underway(j)'
  <2>1. jobs = {job} /\ job.strip = strip
    BY <1>4, <1>6, Zenon DEF PhotoHeld, Underway
  <2>2. jobs' = {next}
    BY <1>4, <2>1
  <2>3. jobs' # {}
    BY <2>2
  <2>4. PreviewIsChosen'
    BY <2>3, Zenon DEF PreviewIsChosen
  <2>5. \A j \in jobs' : Underway(j)'
    BY <1>3, <1>4, <2>1, <2>2 DEF Underway
  <2> QED
    BY <2>2, <2>4, <2>5
<1> QED
  BY <1>5, <1>6, Zenon DEF PhotoHeld

LEMMA ImageDecodedHeld ==
  ASSUME PhotoHeld, NEW job \in jobs, ImageDecoded(job)
  PROVE  PhotoHeld'
<1>0. job \in Jobs /\ job.at = "decode" /\ job.of \in Photos
  BY DEF PhotoHeld, PhotoTypes, Jobs, ImageDecoded
<1>1. PICK pic : pic = Process(job.of.pic, job.strip)
  OBVIOUS
<1>2. /\ jobs' = jobs \ {job} /\ UNCHANGED <<source, strip, overtaken>>
      /\ preview' = IF pic = NoPicture THEN Nothing
                     ELSE [of |-> job.of, strip |-> job.strip, pic |-> pic]
  BY <1>1, Zenon DEF ImageDecoded, JobStep
<1>3. preview' = Nothing => pic = NoPicture
  <2>1. DOMAIN [of |-> job.of, strip |-> job.strip, pic |-> pic] = {"of", "strip", "pic"}
    OBVIOUS
  <2>2. DOMAIN Nothing = {}
    BY DEF Nothing
  <2> QED
    BY <1>2, <2>1, <2>2
<1>4. preview' # Nothing => preview'.of = job.of /\ preview'.strip = job.strip
  BY <1>2
<1>5. PhotoTypes'
  <2>1. jobs' \subseteq Jobs
    BY <1>2 DEF PhotoHeld, PhotoTypes
  <2> QED
    BY <1>0, <1>2, <1>4, <2>1, Zenon DEF PhotoHeld, PhotoTypes
<1>6. ASSUME ~overtaken' PROVE PreviewIsChosen' /\ jobs' = {}
  <2>1. jobs = {job} /\ job.strip = strip /\ job.of = source
    BY <1>0, <1>2, <1>6, Zenon DEF PhotoHeld, Underway
  <2>2. jobs' = {}
    BY <1>2, <2>1
  <2>3. preview' = Nothing => Process(source'.pic, strip') = NoPicture
    BY <1>1, <1>2, <1>3, <2>1, Zenon
  <2>4. preview' # Nothing => preview'.of = source' /\ preview'.strip = strip'
    BY <1>2, <1>4, <2>1, Zenon
  <2> QED
    BY <2>2, <2>3, <2>4, Zenon DEF PreviewIsChosen
<1> QED
  BY <1>5, <1>6, Zenon DEF PhotoHeld

LEMMA ToggleBackgroundHeld ==
  ASSUME PhotoHeld, ToggleBackground
  PROVE  PhotoHeld'
<1>0. /\ strip' = ~strip /\ preview # Nothing /\ UNCHANGED <<source, preview>>
      /\ strip' \in BOOLEAN /\ preview.of \in Photos
  BY Zenon DEF ToggleBackground, PhotoHeld, PhotoTypes
<1>1. CASE source = NoPhoto
  <2>1. UNCHANGED <<jobs, overtaken>>
    BY <1>1, Zenon DEF ToggleBackground
  <2>2. ~overtaken => FALSE
    <3>1. SUFFICES ASSUME ~overtaken PROVE FALSE
      OBVIOUS
    <3>2. NoPhoto \notin Photos
      BY ModalAssumption
    <3>3. jobs # {}
      BY <1>0, <1>1, <3>1, <3>2, Zenon DEF PhotoHeld, PreviewIsChosen
    <3>4. PICK job \in jobs : Underway(job)
      BY <3>1, <3>3, Zenon DEF PhotoHeld
    <3>5. job.at \in {"read", "decode"} /\ job.of \in Photos
      BY DEF PhotoHeld, PhotoTypes, Jobs
    <3> QED
      BY <1>0, <1>1, <3>2, <3>4, <3>5 DEF Underway
  <2>3. PhotoTypes'
    BY <1>0, <2>1, Zenon DEF PhotoHeld, PhotoTypes
  <2> QED
    BY <2>1, <2>2, <2>3, Zenon DEF PhotoHeld
<1>2. CASE source # NoPhoto
  <2>1. PICK job : job = [at |-> "decode", of |-> source, strip |-> ~strip]
    OBVIOUS
  <2>2. job.at = "decode" /\ job.of = source /\ job.strip = strip'
    BY <1>0, <2>1, Zenon
  <2>3. source \in Photos
    BY <1>2 DEF PhotoHeld, PhotoTypes
  <2>4. job \in Jobs
    BY <1>0, <2>1, <2>3, Zenon DEF Jobs
  <2>5. Starts(job)
    BY <1>2, <2>1, Zenon DEF ToggleBackground
  <2>6. PhotoTypes'
    <3>1. overtaken' \in BOOLEAN
      BY <2>5, Zenon DEF Starts
    <3>2. jobs' \subseteq Jobs
      BY <2>4, <2>5 DEF Starts, PhotoHeld, PhotoTypes
    <3> QED
      BY <1>0, <3>1, <3>2, Zenon DEF PhotoHeld, PhotoTypes
  <2>7. job.of = source' /\ ~(job.at = "read")
    BY <1>0, <2>2
  <2> QED
    BY <2>2, <2>4, <2>5, <2>6, <2>7, StartsHeld, Zenon DEF PhotoHeld
<1> QED
  BY <1>1, <1>2

LEMMA ResetUploadHeld ==
  ASSUME PhotoHeld, ResetUpload
  PROVE  PhotoHeld'
<1>1. /\ source' = NoPhoto /\ preview' = Nothing /\ UNCHANGED <<strip, jobs>>
      /\ overtaken' = (overtaken \/ jobs # {})
  BY DEF ResetUpload
<1>2. overtaken' \in BOOLEAN
  BY <1>1, Zenon
<1>3. PhotoTypes'
  BY <1>1, <1>2, Zenon DEF PhotoHeld, PhotoTypes
<1>4. PreviewIsChosen'
  BY <1>1, Zenon DEF PreviewIsChosen
<1> QED
  BY <1>1, <1>3, <1>4, Zenon DEF PhotoHeld

-----------------------------------------------------------------------------
\* The modal is a part of the form, and keeps its photo.

LEMMA ModalStepIsForm == [ModalNext]_<<vars, modalVars>> => [Next]_vars
<1> SUFFICES ASSUME [ModalNext]_<<vars, modalVars>> PROVE [Next]_vars
  OBVIOUS
<1>1. CASE UNCHANGED <<vars, modalVars>>
  BY <1>1
<1>2. CASE FormStep
  BY <1>2 DEF FormStep
<1>3. ASSUME NEW f \in Signatures, OpenModal(f) PROVE Next
  BY <1>3 DEF OpenModal, Next, Signer
<1>4. ASSUME NEW f \in Signatures, FontIsThere(f) PROVE Next
  BY <1>4 DEF FontIsThere, FontLoaded, Next
<1>5. ASSUME Edit \/ JobStep PROVE UNCHANGED vars
  BY <1>5 DEF Edit, JobStep
<1>6. CASE AdoptDrawn \/ AdoptUploaded \/ AdoptWritten \/ Cancel
  BY <1>6 DEF AdoptDrawn, AdoptUploaded, AdoptWritten, Cancel, Next, Signer
<1> QED
  BY <1>1, <1>2, <1>3, <1>4, <1>5, <1>6, Zenon DEF ModalNext, PickTab, PenDown, PenMove, PenUp,
     ResizeCanvas, Undo, Clear, Write, PickFont, ChooseFile, FileRead, ImageDecoded,
     ToggleBackground, ResetUpload

LEMMA PhotoNext == PhotoHeld /\ [ModalNext]_<<vars, modalVars>> => PhotoHeld'
<1> SUFFICES ASSUME PhotoHeld, [ModalNext]_<<vars, modalVars>> PROVE PhotoHeld'
  OBVIOUS
<1>1. ASSUME Unmount PROVE PhotoHeld'
  BY <1>1, NoUpload DEF Unmount
<1>2. ASSUME UNCHANGED upload PROVE PhotoHeld'
  BY <1>2, SameUpload
<1>3. ASSUME UNCHANGED <<vars, modalVars>> PROVE UNCHANGED upload
  BY <1>3 DEF modalVars
<1> QED
  BY <1>1, <1>2, <1>3, ChooseFileHeld, FileReadHeld, ImageDecodedHeld,
     ToggleBackgroundHeld, ResetUploadHeld, Zenon
     DEF ModalNext, FormStep, OpenModal, FontIsThere, PickTab, PenDown, PenMove, PenUp,
         ResizeCanvas, Undo, Clear, Write, PickFont, AdoptDrawn, AdoptUploaded,
         AdoptWritten, Cancel

\* The modal adds detail to the form and changes nothing about it: what holds of
\* every behaviour of the form holds while its modal is followed.
THEOREM ModalIsForm == ModalSpec => Spec
<1>1. ModalInit => Init
  BY DEF ModalInit
<1> QED
  BY <1>1, ModalStepIsForm, PTL DEF ModalSpec, Spec

\* Every reachable state of the form satisfies its invariant.
THEOREM FormHolds == Spec => []FormInv
<1> QED
  BY FormInit, FormNext, PTL DEF Spec

\* The form says "Signing Complete" only of a POST whose values the server has
\* recorded, for any fields, any number of attempts, and answers that are late or
\* lost.
THEOREM CompleteRecorded == ModalSpec => []CompleteIsRecorded
<1>1. FormInv => CompleteIsRecorded
  BY DEF FormInv, AnswerHeld, CompleteIsRecorded
<1> QED
  BY <1>1, ModalIsForm, FormHolds, PTL

\* No required field is recorded empty, unless the signer emptied it beneath the
\* dialog: no other path from the check of "Complete Signing" to the POST
\* empties a field.
THEOREM RequiredHolds == ModalSpec => []RequiredFilled
<1>1. FormInv => RequiredFilled
  BY DEF FormInv, RecordHeld, Sound, RequiredFilled
<1> QED
  BY <1>1, ModalIsForm, FormHolds, PTL

\* A signature stands, on the page and in the record, only where the signer put
\* it or where her focus had strayed to beneath the modal, although adoptions that
\* wait for a font end late and in any order.
THEOREM InkHolds == ModalSpec => []InkWhereAdopted
<1>1. FormInv => InkWhereAdopted
  BY DEF FormInv, RecordHeld, Sound, ModalHeld, InkWhereAdopted
<1> QED
  BY <1>1, ModalIsForm, FormHolds, PTL

\* Once nothing is under way the preview is of the photo chosen last, as its box
\* says, for any photos, any picture processing and any number of jobs, unless
\* two overlapped.
THEOREM PreviewHolds == ModalSpec => []PreviewIsChosen
<1>1. ModalInit => PhotoHeld
  <2>1. ASSUME ModalInit PROVE PhotoHeld
    <3>1. strip \in BOOLEAN /\ overtaken \in BOOLEAN
      BY <2>1, Zenon DEF ModalInit
    <3>2. PhotoTypes
      BY <2>1, <3>1 DEF ModalInit, PhotoTypes
    <3>3. PreviewIsChosen
      BY <2>1, Zenon DEF ModalInit, PreviewIsChosen
    <3>4. jobs = {}
      BY <2>1 DEF ModalInit
    <3> QED
      BY <3>2, <3>3, <3>4, Zenon DEF PhotoHeld
  <2> QED
    BY <2>1
<1>2. PhotoHeld => PreviewIsChosen \/ overtaken
  BY Zenon DEF PhotoHeld
<1>3. overtaken => PreviewIsChosen
  BY Zenon DEF PreviewIsChosen
<1> QED
  BY <1>1, <1>2, <1>3, PhotoNext, PTL DEF ModalSpec

-----------------------------------------------------------------------------
\* Pictures: cropping keeps the ink, and stripping keeps what stands out.

LEMMA NatMin ==
  ASSUME NEW T, T \subseteq Nat, T # {}
  PROVE  \E n \in T : \A m \in T : n <= m
<1>1. IsWellFoundedOn(OpToRel(<, Nat), Nat)
  BY NatLessThanWellFounded
<1>2. PICK n \in T : \A m \in T : ~(<<m, n>> \in OpToRel(<, Nat))
  BY <1>1, WFMin
<1>3. \A m \in T : ~(m < n)
  BY <1>2 DEF OpToRel
<1> QED
  BY <1>3

LEMMA LeastIs ==
  ASSUME NEW T, T \subseteq Nat, T # {}
  PROVE  Least(T) \in T /\ \A m \in T : Least(T) <= m
<1>1. \E n \in T : \A m \in T : n <= m
  BY NatMin
<1> QED
  BY <1>1 DEF Least

LEMMA MostIs ==
  ASSUME NEW w \in Nat, NEW T, T \subseteq 0..w, T # {}
  PROVE  Most(T) \in T /\ \A m \in T : Most(T) >= m
<1>1. PICK n \in {w - m : m \in T} : \A k \in {w - m : m \in T} : n <= k
  <2>0. \A m \in T : w - m \in Nat
    OBVIOUS
  <2>1. {w - m : m \in T} \subseteq Nat /\ {w - m : m \in T} # {}
    BY <2>0
  <2> QED
    BY <2>1, NatMin
<1>2. PICK t \in T : n = w - t
  OBVIOUS
<1>3. \A m \in T : t >= m
  BY <1>1, <1>2
<1> QED
  BY <1>3 DEF Most

\* A rectangle of pixels has a last one.
Bounded(D) == \E w \in Nat : D \subseteq (0..w) \X (0..w)

LEMMA CropKeepsInk ==
  ASSUME NEW pic, Bounded(DOMAIN pic), Ink(pic) # {}
  PROVE  Ink(Crop(pic)) = Ink(pic) /\ DOMAIN Crop(pic) \subseteq DOMAIN pic
<1>1. PICK w \in Nat : DOMAIN pic \subseteq (0..w) \X (0..w)
  BY DEF Bounded
<1> DEFINE xs == {p[1] : p \in Ink(pic)}
           ys == {p[2] : p \in Ink(pic)}
           box == (Least(xs) - Padding .. Most(xs) + Padding)
                    \X (Least(ys) - Padding .. Most(ys) + Padding)
<1>2. xs \subseteq 0..w /\ ys \subseteq 0..w /\ xs # {} /\ ys # {}
  BY <1>1 DEF Ink
<1>3. /\ Least(xs) \in 0..w /\ \A m \in xs : Least(xs) <= m
      /\ Least(ys) \in 0..w /\ \A m \in ys : Least(ys) <= m
  <2> HIDE DEF xs, ys
  <2>1. xs \subseteq Nat /\ ys \subseteq Nat
    BY <1>2
  <2>2. Least(xs) \in xs /\ \A m \in xs : Least(xs) <= m
    BY <1>2, <2>1, LeastIs
  <2>3. Least(ys) \in ys /\ \A m \in ys : Least(ys) <= m
    BY <1>2, <2>1, LeastIs
  <2> QED
    BY <1>2, <2>2, <2>3
<1>4. /\ Most(xs) \in 0..w /\ \A m \in xs : Most(xs) >= m
      /\ Most(ys) \in 0..w /\ \A m \in ys : Most(ys) >= m
  BY <1>2, MostIs
<1>5. ASSUME NEW p \in Ink(pic) PROVE p \in box
  <2>1. p \in (0..w) \X (0..w) /\ p[1] \in xs /\ p[2] \in ys
    BY <1>1 DEF Ink
  <2>2. /\ p[1] \in Int /\ Least(xs) <= p[1] /\ p[1] <= Most(xs)
        /\ p[2] \in Int /\ Least(ys) <= p[2] /\ p[2] <= Most(ys)
    BY <1>3, <1>4, <2>1
  <2>3. p[1] \in Least(xs) - Padding .. Most(xs) + Padding
    BY <1>3, <1>4, <2>2, ImageAssumption
  <2>4. p[2] \in Least(ys) - Padding .. Most(ys) + Padding
    BY <1>3, <1>4, <2>2, ImageAssumption
  <2>5. p = <<p[1], p[2]>>
    BY <2>1
  <2> QED
    BY <2>3, <2>4, <2>5
<1>6. Crop(pic) = [p \in DOMAIN pic \cap box |-> pic[p]]
  BY DEF Crop
<1> HIDE DEF box
<1>7. DOMAIN Crop(pic) = DOMAIN pic \cap box
      /\ \A p \in DOMAIN pic \cap box : Crop(pic)[p] = pic[p]
  BY <1>6
<1> QED
  BY <1>5, <1>7 DEF Ink

\* What processSignatureSource looks at.
Stripped(pic, strips) == IF strips THEN RemoveBackground(pic) ELSE pic

LEMMA ProcessKeepsInk ==
  ASSUME NEW pic, NEW strips \in BOOLEAN, Bounded(DOMAIN Stripped(pic, strips)),
         pic # NoPicture, Ink(Stripped(pic, strips)) # {}
  PROVE  Ink(Process(pic, strips)) = Ink(Stripped(pic, strips))
<1>1. Process(pic, strips) = Crop(Stripped(pic, strips))
  BY Zenon DEF Process, Stripped
<1> QED
  BY <1>1, CropKeepsInk

\* From 16 grey levels off the paper a pixel stays visible.
LEMMA OpacityIs ==
  ASSUME NEW pic, NEW p, pic[p].a \in Grey, pic[p].g \in Grey, PaperOf(pic) \in Grey
  PROVE  Opacity(pic, p) > 24 <=>
           pic[p].a > 24 /\ Abs(pic[p].g - PaperOf(pic)) >= 16
<1> DEFINE d == Abs(pic[p].g - PaperOf(pic))
           m == (2 * 255 * (d - 10) + 62) \div 124
<1>1. d \in Nat
  <2>0. PICK g \in Int, v \in Int : g = pic[p].g /\ v = PaperOf(pic)
    <3>1. Grey \subseteq Int
      BY DEF Grey
    <3>2. pic[p].g \in Int /\ PaperOf(pic) \in Int
      BY <3>1, Zenon
    <3> QED
      BY <3>2, Zenon
  <2>1. pic[p].g - PaperOf(pic) \in Int
    <3>1. g - v \in Int
      OBVIOUS
    <3> QED
      BY <2>0, <3>1, Zenon
  <2>2. \A n \in Int : Abs(n) \in Nat
    BY DEF Abs
  <2> QED
    BY <2>1, <2>2
<1> HIDE DEF d
<1>2. m \in Int /\ (m > 24 <=> d >= 16)
  BY <1>1
<1> HIDE DEF m
<1>3. Most({0, m}) \in Nat /\ (Most({0, m}) > 24 <=> m > 24)
  <2>1. \E n \in {0, m} : \A k \in {0, m} : n >= k
    BY <1>2
  <2>2. Most({0, m}) \in {0, m} /\ \A k \in {0, m} : Most({0, m}) >= k
    BY <2>1 DEF Most
  <2> QED
    BY <1>2, <2>2
<1> DEFINE three == {pic[p].a, 255, Most({0, m})}
<1>4. Least(three) \in three /\ \A n \in three : Least(three) <= n
  <2>1. three \subseteq Nat /\ three # {}
    BY <1>3 DEF Grey
  <2> QED
    BY <2>1, LeastIs
<1>5. Least(three) > 24 <=> pic[p].a > 24 /\ Most({0, m}) > 24
  BY <1>3, <1>4 DEF Grey
<1>6. Opacity(pic, p) = Least(three)
  BY DEF Opacity, m, d
<1> QED
  BY <1>2, <1>3, <1>5, <1>6 DEF d

\* The pixels of an image.
Rectangle(D) == \E w \in Nat : \E X, Y \in SUBSET (0..w) : D = X \X Y

LEMMA SamplesAre ==
  ASSUME NEW D, Rectangle(D), NEW pic \in [D -> Pixel]
  PROVE  /\ IsFiniteSet(Samples(pic))
         /\ \A s \in Samples(pic) : pic[<<s[1], s[2]>>].g \in Grey
<1>1. PICK w \in Nat : \E X, Y \in SUBSET (0..w) : D = X \X Y
  BY DEF Rectangle
<1>2. PICK X \in SUBSET (0..w), Y \in SUBSET (0..w) : D = X \X Y
  BY <1>1
<1> DEFINE xs == {p[1] : p \in DOMAIN pic}
           ys == {p[2] : p \in DOMAIN pic}
           W  == 0..w
           C  == {"row", "column"}
           F  == [q \in (W \X W) \X C |-> <<q[1][1], q[1][2], q[2]>>]
           R  == {F[q] : q \in (W \X W) \X C}
           rows == {<<x, y, "row">> : x \in xs, y \in {Least(ys), Most(ys)}}
           columns == {<<x, y, "column">> : x \in {Least(xs), Most(xs)}, y \in ys}
           ring == rows \cup columns
<1>0. Samples(pic) \subseteq ring
  <2>1. Samples(pic) = {s \in ring : pic[<<s[1], s[2]>>].a >= 200}
    BY DEF Samples
  <2> HIDE DEF ring
  <2> QED
    BY <2>1
<1>3. DOMAIN pic = X \X Y
  BY <1>2
<1>4. CASE X = {} \/ Y = {}
  <2>1. xs = {} /\ ys = {}
    BY <1>3, <1>4
  <2>2. Samples(pic) = {}
    <3> HIDE DEF xs, ys
    <3>1. ring = {}
      BY <2>1
    <3> HIDE DEF ring
    <3> QED
      BY <1>0, <3>1
  <2> QED
    BY <2>2, FS_EmptySet
<1>5. CASE X # {} /\ Y # {}
  <2>1. xs = X /\ ys = Y
    <3>1. PICK a \in X, b \in Y : TRUE
      BY <1>5
    <3>2. xs \subseteq X /\ ys \subseteq Y
      BY <1>3
    <3>3. ASSUME NEW x \in X PROVE x \in xs
      <4>1. <<x, b>> \in DOMAIN pic /\ <<x, b>>[1] = x
        BY <1>3
      <4> QED
        BY <4>1
    <3>4. ASSUME NEW y \in Y PROVE y \in ys
      <4>1. <<a, y>> \in DOMAIN pic /\ <<a, y>>[2] = y
        BY <1>3
      <4> QED
        BY <4>1
    <3> QED
      BY <3>2, <3>3, <3>4
  <2>2. Least(X) \in X /\ Most(X) \in X /\ Least(Y) \in Y /\ Most(Y) \in Y
    <3>1. X \subseteq Nat /\ Y \subseteq Nat
      OBVIOUS
    <3>2. Least(X) \in X /\ Least(Y) \in Y
      BY <1>5, <3>1, LeastIs
    <3>3. Most(X) \in X /\ Most(Y) \in Y
      BY <1>5, MostIs
    <3> QED
      BY <3>2, <3>3
  <2>3. \A s \in Samples(pic) : \E x \in X, y \in Y, c \in C : s = <<x, y, c>>
    <3> HIDE DEF xs, ys
    <3> HIDE DEF F, R, W, ring
    <3>0. Least(xs) \in X /\ Most(xs) \in X /\ Least(ys) \in Y /\ Most(ys) \in Y
      BY <2>1, <2>2, Zenon
    <3>1. \A s \in rows : \E x \in X, y \in Y : s = <<x, y, "row">>
      <4>1. SUFFICES ASSUME NEW s \in rows PROVE \E x \in X, y \in Y : s = <<x, y, "row">>
        OBVIOUS
      <4>2. PICK i \in xs, j \in {Least(ys), Most(ys)} : s = <<i, j, "row">>
        BY <4>1
      <4>3. i \in X /\ j \in Y
        BY <2>1, <3>0, <4>2
      <4> HIDE DEF rows
      <4>4. \E b \in Y : s = <<i, b, "row">>
        BY <4>2, <4>3
      <4> QED
        BY <4>3, <4>4
    <3>2. \A s \in columns : \E x \in X, y \in Y : s = <<x, y, "column">>
      <4>1. SUFFICES ASSUME NEW s \in columns
                     PROVE  \E x \in X, y \in Y : s = <<x, y, "column">>
        OBVIOUS
      <4>2. PICK i \in {Least(xs), Most(xs)}, j \in ys : s = <<i, j, "column">>
        BY <4>1
      <4>3. i \in X /\ j \in Y
        BY <2>1, <3>0, <4>2
      <4> HIDE DEF columns
      <4>4. \E b \in Y : s = <<i, b, "column">>
        BY <4>2, <4>3
      <4> QED
        BY <4>3, <4>4
    <3> HIDE DEF rows, columns
    <3>3. \A s \in ring : \E x \in X, y \in Y, c \in C : s = <<x, y, c>>
      BY <3>1, <3>2 DEF ring
    <3> HIDE DEF ring
    <3> QED
      BY <1>0, <3>3
  <2>4. \A s \in Samples(pic) : pic[<<s[1], s[2]>>].g \in Grey
    <3>1. SUFFICES ASSUME NEW s \in Samples(pic) PROVE pic[<<s[1], s[2]>>].g \in Grey
      OBVIOUS
    <3>2. PICK x \in X, y \in Y, c \in C : s = <<x, y, c>>
      BY <2>3
    <3>3. <<s[1], s[2]>> \in D
      BY <1>2, <3>2
    <3> QED
      BY <3>3 DEF Pixel
  <2>5. IsFiniteSet(R)
    <3>1. IsFiniteSet(W) /\ IsFiniteSet(C)
      <4>1. IsFiniteSet(W)
        BY FS_Interval
      <4>2. C = ({} \cup {"row"}) \cup {"column"}
        OBVIOUS
      <4>3. IsFiniteSet({} \cup {"row"})
        BY FS_EmptySet, FS_AddElement
      <4>4. IsFiniteSet(({} \cup {"row"}) \cup {"column"})
        BY <4>3, FS_AddElement
      <4> QED
        BY <4>1, <4>2, <4>4, Zenon
    <3>2. IsFiniteSet((W \X W) \X C)
      <4>1. IsFiniteSet(W \X W)
        BY <3>1, FS_Product
      <4> QED
        BY <3>1, <4>1, FS_Product
    <3>3. F \in Surjection((W \X W) \X C, R)
      BY DEF Surjection
    <3> QED
      BY <3>2, <3>3, FS_Surjection
  <2>6. Samples(pic) \subseteq R
    <3>1. SUFFICES ASSUME NEW s \in Samples(pic) PROVE s \in R
      OBVIOUS
    <3>2. PICK x \in X, y \in Y, c \in C : s = <<x, y, c>>
      BY <2>3
    <3>3. PICK q : q = <<<<x, y>>, c>>
      OBVIOUS
    <3>4. q \in (W \X W) \X C /\ F[q] = <<x, y, c>>
      BY <3>3
    <3> QED
      BY <3>2, <3>4
  <2>7. IsFiniteSet(Samples(pic))
    BY <2>5, <2>6, FS_Subset
  <2> QED
    BY <2>4, <2>7
<1> QED
  BY <1>4, <1>5

\* The upper median of the samples is the grey of one of them.
LEMMA PaperIsGrey ==
  ASSUME NEW D, Rectangle(D), NEW pic \in [D -> Pixel], IsLight(pic)
  PROVE  PaperOf(pic) \in Grey
<1> DEFINE S == Samples(pic)
           grey(s) == pic[<<s[1], s[2]>>].g
           Darker(v) == {s \in S : grey(s) < v}
           c == Cardinality(S) \div 2
<1>1. IsFiniteSet(S) /\ \A s \in S : grey(s) \in Grey
  BY SamplesAre
<1>2. Cardinality(S) \in Nat /\ Cardinality(S) >= MinSamples
  BY <1>1, FS_CardinalityType DEF IsLight
<1>3. c \in Nat /\ c < Cardinality(S)
  BY <1>2, ImageAssumption
<1> HIDE DEF S, c
<1>4. \A v : Cardinality(Darker(v)) \in Nat
  <2>1. SUFFICES ASSUME NEW v PROVE Cardinality(Darker(v)) \in Nat
    OBVIOUS
  <2>2. IsFiniteSet(Darker(v))
    BY <1>1, FS_Subset
  <2> QED
    BY <2>2, FS_CardinalityType
<1> DEFINE T == {n \in Nat : c < Cardinality(Darker(n + 1))}
<1>5. 255 \in T
  <2>1. Darker(256) = S
    BY <1>1 DEF Grey
  <2>2. Cardinality(Darker(255 + 1)) = Cardinality(S)
    <3>1. ASSUME NEW v, v = 256 PROVE Cardinality(Darker(v)) = Cardinality(S)
      BY <2>1, <3>1, Zenon
    <3>2. 255 + 1 = 256
      OBVIOUS
    <3> HIDE DEF Darker
    <3> QED
      BY <3>1, <3>2, Zenon
  <2> HIDE DEF Darker
  <2> QED
    BY <1>3, <2>2
<1>6. PICK v \in T : \A n \in T : v <= n
  <2>1. T \subseteq Nat /\ T # {}
    BY <1>5
  <2> HIDE DEF T
  <2> QED
    BY <2>1, NatMin
<1>7. v \in Nat /\ c < Cardinality(Darker(v + 1))
  BY <1>6
<1>8. Cardinality(Darker(v)) <= c
  <2>1. CASE v = 0
    <3>1. Darker(0) = {}
      BY <1>1 DEF Grey
    <3>2. Cardinality(Darker(v)) = 0
      BY <2>1, <3>1, FS_EmptySet, Zenon
    <3> HIDE DEF Darker
    <3> QED
      BY <1>3, <3>2
  <2>2. CASE v # 0
    <3> HIDE DEF Darker
    <3>1. v - 1 \in Nat /\ (v - 1) + 1 = v /\ ~(v <= v - 1)
      BY <1>7, <2>2
    <3>2. v - 1 \notin T
      BY <1>6, <3>1
    <3>3. ~(c < Cardinality(Darker((v - 1) + 1)))
      BY <3>1, <3>2
    <3>4. ~(c < Cardinality(Darker(v)))
      BY <3>1, <3>3, Zenon
    <3>5. Cardinality(Darker(v)) \in Nat
      BY <1>4, Zenon
    <3> QED
      BY <1>3, <3>4, <3>5
  <2> QED
    BY <2>1, <2>2
<1>9. v \in {grey(s) : s \in S}
  <2>1. SUFFICES ASSUME \A s \in S : grey(s) # v PROVE FALSE
    OBVIOUS
  <2>2. Grey \subseteq Int /\ \A n \in Int : n # v => (n < v <=> n < v + 1)
    BY <1>7 DEF Grey
  <2>3. \A s \in S : grey(s) < v <=> grey(s) < v + 1
    BY <1>1, <2>1, <2>2, Zenon
  <2>4. Darker(v) = Darker(v + 1)
    BY <2>3, Zenon
  <2>5. Cardinality(Darker(v)) = Cardinality(Darker(v + 1))
    BY <2>4, Zenon
  <2>6. Cardinality(Darker(v)) \in Nat
    BY <1>4, Zenon
  <2> HIDE DEF Darker
  <2> QED
    BY <1>3, <1>7, <1>8, <2>5, <2>6
<1>10. PaperOf(pic) = CHOOSE n \in {grey(s) : s \in S} :
         Cardinality(Darker(n)) <= c /\ c < Cardinality(Darker(n + 1))
  BY Zenon DEF PaperOf, S, c
<1>11. PaperOf(pic) \in {grey(s) : s \in S}
  BY <1>7, <1>8, <1>9, <1>10, Zenon
<1> QED
  BY <1>1, <1>11

\* A photo on which the pen shows: 16 grey levels off its paper, if that is light
\* and the photo is no cutout; and nothing but the pen stands out so.
Legible(photo) ==
  photo.pic # NoPicture =>
    /\ Rectangle(DOMAIN photo.pic) /\ photo.pic \in [DOMAIN photo.pic -> Pixel]
    /\ photo.pen \subseteq Ink(photo.pic)
    /\ IsLight(photo.pic) => \A p \in Ink(photo.pic) :
         p \in photo.pen <=> \/ IsCutout(photo.pic)
                            \/ Abs(photo.pic[p].g - PaperOf(photo.pic)) >= 16

LEMMA StrippedInk ==
  ASSUME NEW photo, NEW strips \in BOOLEAN, Legible(photo), photo.pic # NoPicture
  PROVE  /\ DOMAIN Stripped(photo.pic, strips) = DOMAIN photo.pic
         /\ photo.pen \subseteq Ink(Stripped(photo.pic, strips))
         /\ strips /\ IsLight(photo.pic) =>
              Ink(Stripped(photo.pic, strips)) \subseteq photo.pen
<1> DEFINE P == photo.pic
           D == DOMAIN P
<1>1. /\ Rectangle(D) /\ P \in [D -> Pixel] /\ photo.pen \subseteq Ink(P)
      /\ IsLight(P) => \A p \in Ink(P) :
           p \in photo.pen <=> IsCutout(P) \/ Abs(P[p].g - PaperOf(P)) >= 16
  BY DEF Legible
<1> HIDE DEF P
<1>2. CASE strips /\ IsLight(P) /\ ~IsCutout(P)
  <2>1. Stripped(P, strips) = [p \in D |-> [P[p] EXCEPT !.a = Opacity(P, p)]]
    BY <1>2, Zenon DEF Stripped, RemoveBackground
  <2>2. PaperOf(P) \in Grey
    BY <1>1, <1>2, PaperIsGrey
  <2>3. ASSUME NEW p \in D
        PROVE  Opacity(P, p) > 24 <=> P[p].a > 24 /\ Abs(P[p].g - PaperOf(P)) >= 16
    <3>1. P[p].a \in Grey /\ P[p].g \in Grey
      BY <1>1 DEF Pixel
    <3> QED
      BY <2>2, <3>1, OpacityIs
  <2>4. ASSUME NEW p \in D PROVE Stripped(P, strips)[p].a = Opacity(P, p)
    BY <1>1, <2>1 DEF Pixel
  <2>5. DOMAIN Stripped(P, strips) = D
    BY <2>1
  <2>6. \A p \in D : p \in Ink(Stripped(P, strips)) <=> Opacity(P, p) > 24
    BY <2>4, <2>5 DEF Ink
  <2>7. \A p \in D : p \in Ink(P) <=> P[p].a > 24
    BY DEF Ink
  <2>8. \A p \in D : p \in Ink(Stripped(P, strips)) <=> p \in photo.pen
    BY <1>1, <1>2, <2>3, <2>6, <2>7, Zenon
  <2>9. photo.pen \subseteq D /\ Ink(Stripped(P, strips)) \subseteq D
    BY <1>1, <2>5 DEF Ink
  <2> QED
    BY <2>5, <2>8, <2>9 DEF P
<1>3. CASE ~(strips /\ IsLight(P) /\ ~IsCutout(P))
  <2>1. Stripped(P, strips) = P
    BY <1>3, Zenon DEF Stripped, RemoveBackground
  <2>2. strips /\ IsLight(P) => Ink(P) \subseteq photo.pen
    BY <1>1, <1>3, Zenon
  <2> QED
    BY <1>1, <2>1, <2>2 DEF P
<1> QED
  BY <1>2, <1>3

\* What comes of a legible photo, if anything does.
LEMMA PhotoInk ==
  ASSUME NEW photo, NEW strips \in BOOLEAN, Legible(photo),
         Process(photo.pic, strips) # NoPicture
  PROVE  /\ photo.pen \subseteq Ink(Process(photo.pic, strips))
         /\ Ink(Process(photo.pic, strips)) \subseteq DOMAIN photo.pic
         /\ strips /\ IsLight(photo.pic) =>
              Ink(Process(photo.pic, strips)) \subseteq photo.pen
<1>1. photo.pic # NoPicture /\ Ink(Stripped(photo.pic, strips)) # {}
  BY Zenon DEF Process, Stripped
<1>2. /\ DOMAIN Stripped(photo.pic, strips) = DOMAIN photo.pic
      /\ photo.pen \subseteq Ink(Stripped(photo.pic, strips))
      /\ strips /\ IsLight(photo.pic) =>
           Ink(Stripped(photo.pic, strips)) \subseteq photo.pen
  BY <1>1, StrippedInk
<1>3. Bounded(DOMAIN Stripped(photo.pic, strips))
  <2>1. PICK w \in Nat : \E X, Y \in SUBSET (0..w) : DOMAIN photo.pic = X \X Y
    BY <1>1 DEF Legible, Rectangle
  <2>2. DOMAIN photo.pic \subseteq (0..w) \X (0..w)
    BY <2>1
  <2> QED
    BY <1>2, <2>2 DEF Bounded
<1>4. Ink(Process(photo.pic, strips)) = Ink(Stripped(photo.pic, strips))
  BY <1>1, <1>3, ProcessKeepsInk
<1>5. Ink(Stripped(photo.pic, strips)) \subseteq DOMAIN photo.pic
  BY <1>2 DEF Ink
<1> QED
  BY <1>2, <1>4, <1>5

\* What comes of strokes.
Spots == Nat \X Nat
Strokes == Seq(Seq(Spots) \ {<< >>})

LEMMA DrawnInk ==
  ASSUME Bounded(Canvas), NEW ss \in Strokes
  PROVE  /\ \A i \in DOMAIN ss : Points(ss[i]) \subseteq Canvas =>
              Points(ss[i]) \cap Ink(Process(Drawn(Canvas, ss), FALSE)) # {}
         /\ Ink(Process(Drawn(Canvas, ss), FALSE))
              \subseteq UNION {Points(ss[i]) : i \in DOMAIN ss}
<1> DEFINE pic == Drawn(Canvas, ss)
           got == Process(pic, FALSE)
<1>1. ASSUME NEW i \in DOMAIN ss
      PROVE  Marks(ss[i]) # {} /\ Marks(ss[i]) \subseteq Points(ss[i])
  <2>1. PICK st : st = ss[i]
    OBVIOUS
  <2>2. st \in Seq(Spots) /\ st # << >>
    BY <2>1 DEF Strokes
  <2>3. Len(st) \in Nat /\ Len(st) >= 1 /\ DOMAIN st = 1..Len(st)
    BY <2>2
  <2>4. CASE Len(st) < 3
    BY <2>1, <2>3, <2>4 DEF Marks, Points
  <2>5. CASE ~(Len(st) < 3)
    <3>1. Marks(st) = {st[k] : k \in 2 .. Len(st) - 1} /\ 2 \in 2 .. Len(st) - 1
      BY <2>3, <2>5 DEF Marks
    <3>2. 2 .. Len(st) - 1 \subseteq DOMAIN st
      BY <2>3
    <3> QED
      BY <2>1, <3>1, <3>2 DEF Points
  <2> QED
    BY <2>4, <2>5
<1>2. DOMAIN pic = Canvas /\ \A p \in Canvas : pic[p].a > 24 <=> p \in AllMarks(ss)
  BY DEF Drawn, Inked
<1>3. Ink(pic) = Canvas \cap AllMarks(ss)
  BY <1>2 DEF Ink
<1>4. AllMarks(ss) \subseteq UNION {Points(ss[i]) : i \in DOMAIN ss}
  BY <1>1 DEF AllMarks
<1> HIDE DEF pic
<1>5. CASE Ink(pic) = {}
  <2>1. got = NoPicture
    BY <1>5, Zenon DEF Process
  <2>2. Ink(got) = {}
    <3>1. Ink(NoPicture) = {}
      BY DEF Ink, NoPicture
    <3> QED
      BY <2>1, <3>1, Zenon
  <2>3. ASSUME NEW i \in DOMAIN ss, Points(ss[i]) \subseteq Canvas PROVE FALSE
    BY <1>1, <1>3, <1>5, <2>3 DEF AllMarks
  <2> QED
    BY <2>2, <2>3 DEF pic
<1>6. CASE Ink(pic) # {}
  <2>1. pic # NoPicture
    BY <1>6 DEF NoPicture, Ink
  <2>2. Stripped(pic, FALSE) = pic
    BY Zenon DEF Stripped
  <2>3. Ink(got) = Ink(pic)
    <3>1. Bounded(DOMAIN Stripped(pic, FALSE)) /\ Ink(Stripped(pic, FALSE)) # {}
      BY <1>2, <1>6, <2>2, Zenon
    <3>2. FALSE \in BOOLEAN
      OBVIOUS
    <3> QED
      BY <2>1, <2>2, <3>1, <3>2, ProcessKeepsInk, Zenon
  <2>4. ASSUME NEW i \in DOMAIN ss, Points(ss[i]) \subseteq Canvas
        PROVE  Points(ss[i]) \cap Ink(got) # {}
    <3>1. PICK p : p \in Marks(ss[i])
      BY <1>1
    <3>2. p \in Points(ss[i]) /\ p \in AllMarks(ss)
      BY <1>1, <3>1 DEF AllMarks
    <3> QED
      BY <1>3, <2>3, <2>4, <3>2
  <2> QED
    BY <1>3, <1>4, <2>3, <2>4 DEF pic
<1> QED
  BY <1>5, <1>6

\* What comes of a text.
LEMMA WrittenInk ==
  ASSUME NEW text, NEW face
  PROVE  Ink(Written(text, face)) = {<<text, face>>}
  BY DEF Written, Ink, Inked

-----------------------------------------------------------------------------
\* What the modal holds is what a signature is made of.

CanvasHeld == strokes \in Strokes /\ pen \in Seq(Spots)

\* A text that waits for its font is one that was written.
WritingHeld ==
  /\ typed \in Texts /\ font \in Fonts
  /\ waiting = Nothing \/ waiting \in Texts \X Fonts
  /\ inside /\ adopting # {} => waiting # Nothing

\* The preview comes of its photo.
PreviewHeld ==
  preview # Nothing =>
    \E photo \in Photos, strips \in BOOLEAN :
      /\ preview.of = photo /\ preview.strip = strips
      /\ preview.pic = Process(photo.pic, strips) /\ preview.pic # NoPicture

InkInv == PhotoTypes /\ CanvasHeld /\ WritingHeld /\ PreviewHeld /\ InkIsKept

LEMMA Resets ==
  ASSUME Unmount
  PROVE  PhotoTypes' /\ CanvasHeld' /\ WritingHeld' /\ PreviewHeld'
<1>1. strip' \in BOOLEAN /\ overtaken' \in BOOLEAN
  BY Zenon DEF Unmount
<1>2. PhotoTypes'
  BY <1>1, Zenon DEF Unmount, PhotoTypes
<1>3. CanvasHeld'
  BY DEF Unmount, CanvasHeld, Strokes
<1>4. WritingHeld'
  BY ModalAssumption, Zenon DEF Unmount, WritingHeld
<1>5. PreviewHeld'
  BY Zenon DEF Unmount, PreviewHeld
<1> QED
  BY <1>2, <1>3, <1>4, <1>5

\* The drawing is as the signer left it.
LEMMA AdoptDrawnInk ==
  ASSUME InkInv, Bounded(Canvas), AdoptDrawn
  PROVE  InkInv'
<1> DEFINE touched == {Points(strokes[i]) : i \in DOMAIN strokes}
           got == Process(Drawn(Canvas, strokes), FALSE)
<1>1. /\ \A i \in DOMAIN strokes : Points(strokes[i]) \subseteq Canvas =>
           Points(strokes[i]) \cap Ink(got) # {}
      /\ Ink(got) \subseteq UNION touched
  BY DrawnInk DEF InkInv, CanvasHeld
<1> HIDE DEF got
<1>2. \A S \in {S \in touched : S \subseteq Canvas} : S \cap Ink(got) # {}
  BY <1>1
<1>3. stamped' = [marks |-> {S \in touched : S \subseteq Canvas},
                  room |-> UNION touched, got |-> got]
  BY Zenon DEF AdoptDrawn, got
<1> HIDE DEF touched
<1>4. /\ stamped'.marks = {S \in touched : S \subseteq Canvas}
      /\ stamped'.room = UNION touched /\ stamped'.got = got
  BY <1>3
<1>5. InkIsKept'
  BY <1>1, <1>2, <1>4, Zenon DEF InkIsKept
<1> QED
  BY <1>5, Resets DEF AdoptDrawn, InkInv

LEMMA AdoptUploadedInk ==
  ASSUME InkInv, \A photo \in Photos : Legible(photo), AdoptUploaded
  PROVE  InkInv'
<1>1. preview # Nothing
  BY DEF AdoptUploaded, HasContent
<1>2. PICK photo \in Photos, strips \in BOOLEAN :
        /\ preview.of = photo /\ preview.strip = strips
        /\ preview.pic = Process(photo.pic, strips) /\ preview.pic # NoPicture
  BY <1>1, Zenon DEF InkInv, PreviewHeld
<1> DEFINE paper == {p \in DOMAIN photo.pic \ photo.pen : strips /\ IsLight(photo.pic)}
<1>3. stamped' = [marks |-> {{p} : p \in photo.pen},
                  room |-> DOMAIN photo.pic \ paper, got |-> preview.pic]
  BY <1>2, Zenon DEF AdoptUploaded
<1>4. /\ photo.pen \subseteq Ink(preview.pic)
      /\ Ink(preview.pic) \subseteq DOMAIN photo.pic
      /\ strips /\ IsLight(photo.pic) => Ink(preview.pic) \subseteq photo.pen
  <2>1. Process(photo.pic, strips) # NoPicture
    BY <1>2, Zenon
  <2>2. Legible(photo)
    OBVIOUS
  <2>3. /\ photo.pen \subseteq Ink(Process(photo.pic, strips))
        /\ Ink(Process(photo.pic, strips)) \subseteq DOMAIN photo.pic
        /\ strips /\ IsLight(photo.pic) =>
             Ink(Process(photo.pic, strips)) \subseteq photo.pen
    BY <2>1, <2>2, PhotoInk
  <2> QED
    BY <1>2, <2>3, Zenon
<1>5. \A mark \in {{p} : p \in photo.pen} : mark \cap Ink(preview.pic) # {}
  BY <1>4
<1>6. Ink(preview.pic) \subseteq DOMAIN photo.pic \ paper
  BY <1>4, Zenon
<1> HIDE DEF paper
<1>7. /\ stamped'.marks = {{p} : p \in photo.pen}
      /\ stamped'.room = DOMAIN photo.pic \ paper /\ stamped'.got = preview.pic
  BY <1>3
<1>8. InkIsKept'
  BY <1>5, <1>6, <1>7, Zenon DEF InkIsKept
<1> QED
  BY <1>8, Resets DEF AdoptUploaded, InkInv

LEMMA FontIsThereInk ==
  ASSUME InkInv, NEW f \in Signatures, FontIsThere(f)
  PROVE  InkInv'
<1>1. waiting \in Texts \X Fonts
  BY DEF InkInv, WritingHeld, FontIsThere, FontLoaded
<1>2. waiting = <<waiting[1], waiting[2]>>
  BY <1>1
<1>3. Ink(Written(waiting[1], waiting[2])) = {waiting}
  BY <1>2, WrittenInk, Zenon
<1>4. /\ stamped'.marks = {{waiting}} /\ stamped'.room = {waiting}
      /\ stamped'.got = Written(waiting[1], waiting[2])
  BY DEF FontIsThere
<1>5. InkIsKept'
  BY <1>3, <1>4 DEF InkIsKept
<1> QED
  BY <1>5, Resets DEF FontIsThere, InkInv

\* The parts that a step leaves alone.
LEMMA SameParts ==
  /\ CanvasHeld /\ UNCHANGED canvas => CanvasHeld'
  /\ WritingHeld /\ UNCHANGED <<writing, waiting>> /\ UNCHANGED <<inside, adopting>>
       => WritingHeld'
  /\ PreviewHeld /\ UNCHANGED preview => PreviewHeld'
<1>1. CanvasHeld /\ UNCHANGED canvas => CanvasHeld'
  BY Zenon DEF CanvasHeld, canvas
<1>2. WritingHeld /\ UNCHANGED <<writing, waiting>> /\ UNCHANGED <<inside, adopting>>
        => WritingHeld'
  <2>1. SUFFICES ASSUME WritingHeld, UNCHANGED <<writing, waiting>>,
                        UNCHANGED <<inside, adopting>>
                 PROVE  WritingHeld'
    OBVIOUS
  <2>2. typed' = typed /\ font' = font /\ waiting' = waiting
    BY <2>1, Zenon DEF writing
  <2>3. inside' = inside /\ adopting' = adopting
    BY <2>1, Zenon
  <2>4. /\ typed \in Texts /\ font \in Fonts
        /\ waiting = Nothing \/ waiting \in Texts \X Fonts
        /\ inside /\ adopting # {} => waiting # Nothing
    BY <2>1, Zenon DEF WritingHeld
  <2>5. inside' /\ adopting' # {} => waiting' # Nothing
    BY <2>2, <2>3, <2>4, Zenon
  <2>6. waiting' = Nothing \/ waiting' \in Texts \X Fonts
    BY <2>2, <2>4, Zenon
  <2> QED
    BY <2>2, <2>4, <2>5, <2>6, Zenon DEF WritingHeld
<1>3. PreviewHeld /\ UNCHANGED preview => PreviewHeld'
  BY Zenon DEF PreviewHeld
<1> QED
  BY <1>1, <1>2, <1>3

LEMMA NothingStamped ==
  ASSUME stamped' = Nothing
  PROVE  InkIsKept'
  BY Zenon DEF InkIsKept

LEMMA CanvasInk ==
  ASSUME InkInv, PhotoTypes', Bounded(Canvas),
         \/ \E p \in Canvas : PenDown(p) \/ PenMove(p)
         \/ PenUp \/ ResizeCanvas \/ Undo \/ Clear
  PROVE  InkInv'
<1>1. /\ stamped' = Nothing /\ UNCHANGED <<writing, preview>>
      /\ UNCHANGED <<inside, adopting, waiting>>
  BY Zenon DEF PenDown, PenMove, PenUp, ResizeCanvas, Undo, Clear, Edit, upload, vars, form
<1>2. Canvas \subseteq Spots
  BY DEF Bounded, Spots
<1>3. CanvasHeld
  BY DEF InkInv
<1>4. ASSUME NEW p \in Canvas, PenDown(p) \/ PenMove(p) PROVE CanvasHeld'
  <2>1. strokes' = strokes /\ strokes \in Strokes /\ pen \in Seq(Spots) /\ p \in Spots
    BY <1>2, <1>3, <1>4, Zenon DEF PenDown, PenMove, CanvasHeld
  <2>2. pen' = <<p>> \/ pen' = Append(pen, p)
    BY <1>4, Zenon DEF PenDown, PenMove
  <2>3. <<p>> \in Seq(Spots) /\ Append(pen, p) \in Seq(Spots)
    BY <2>1
  <2>4. pen' \in Seq(Spots)
    BY <2>2, <2>3, Zenon
  <2> QED
    BY <2>1, <2>4, Zenon DEF CanvasHeld
<1>5. ASSUME PenUp PROVE CanvasHeld'
  <2>1. pen \in Seq(Spots) \ {<< >>} /\ strokes' = Append(strokes, pen) /\ pen' = << >>
    BY <1>3, <1>5 DEF PenUp, CanvasHeld
  <2>2. strokes' \in Strokes
    BY <1>3, <2>1 DEF CanvasHeld, Strokes
  <2>3. pen' \in Seq(Spots)
    BY <2>1
  <2> QED
    BY <2>2, <2>3, Zenon DEF CanvasHeld
<1>6. ASSUME ResizeCanvas PROVE CanvasHeld'
  <2>1. pen' = [i \in DOMAIN pen |-> <<pen[i][1] + 1, pen[i][2]>>] /\ strokes' = strokes
    BY <1>6 DEF ResizeCanvas
  <2>2. \A i \in DOMAIN pen : <<pen[i][1] + 1, pen[i][2]>> \in Spots
    <3>1. SUFFICES ASSUME NEW i \in DOMAIN pen
                   PROVE  <<pen[i][1] + 1, pen[i][2]>> \in Spots
      OBVIOUS
    <3>2. pen[i] \in Spots
      BY <1>3 DEF CanvasHeld
    <3>3. pen[i][1] \in Nat /\ pen[i][2] \in Nat
      BY <3>2 DEF Spots
    <3> QED
      BY <3>3 DEF Spots
  <2>3. Len(pen) \in Nat /\ DOMAIN pen = 1..Len(pen)
    BY <1>3 DEF CanvasHeld
  <2>4. pen' \in Seq(Spots)
    BY <2>1, <2>2, <2>3
  <2> QED
    BY <1>3, <2>1, <2>4, Zenon DEF CanvasHeld
<1>7. ASSUME Undo PROVE CanvasHeld'
  <2>1. strokes' = SubSeq(strokes, 1, Len(strokes) - 1) /\ pen' = pen
    BY <1>7 DEF Undo
  <2>2. strokes' \in Strokes
    BY <1>3, <1>7, <2>1 DEF CanvasHeld, Strokes, Undo
  <2> QED
    BY <1>3, <2>1, <2>2, Zenon DEF CanvasHeld
<1>8. ASSUME Clear PROVE CanvasHeld'
  <2>1. strokes' = << >> /\ pen' = << >>
    BY <1>8, Zenon DEF Clear
  <2>2. strokes' \in Strokes
    BY <2>1 DEF Strokes
  <2>3. pen' \in Seq(Spots)
    BY <2>1
  <2> QED
    BY <2>2, <2>3, Zenon DEF CanvasHeld
<1>9. CanvasHeld'
  BY <1>4, <1>5, <1>6, <1>7, <1>8, Zenon
<1>10. WritingHeld' /\ PreviewHeld'
  BY <1>1, SameParts, Zenon DEF InkInv
<1> QED
  BY <1>1, <1>9, <1>10, NothingStamped DEF InkInv

LEMMA WritingInk ==
  ASSUME InkInv, PhotoTypes',
         \/ \E t \in Texts : Write(t)
         \/ \E f \in Fonts : PickFont(f)
         \/ \E f \in Signatures : OpenModal(f)
         \/ FormStep \/ AdoptWritten
  PROVE  InkInv'
<1>1. stamped' = Nothing /\ UNCHANGED <<canvas, preview>>
  BY Zenon DEF Write, PickFont, OpenModal, FormStep, AdoptWritten, Edit, upload
<1>2. /\ typed \in Texts /\ font \in Fonts
      /\ waiting = Nothing \/ waiting \in Texts \X Fonts
      /\ inside /\ adopting # {} => waiting # Nothing
  BY Zenon DEF InkInv, WritingHeld
<1>3. ASSUME (\E t \in Texts : Write(t)) \/ (\E f \in Fonts : PickFont(f))
      PROVE  WritingHeld'
  <2>1. typed' \in Texts /\ font' \in Fonts
    BY <1>2, <1>3, Zenon DEF Write, PickFont
  <2>2. UNCHANGED <<waiting, inside, adopting>>
    BY <1>3, Zenon DEF Write, PickFont, Edit, vars, form
  <2> QED
    BY <1>2, <2>1, <2>2, Zenon DEF WritingHeld
<1>4. ASSUME NEW f \in Signatures, OpenModal(f) PROVE WritingHeld'
  <2>1. adopting' = {} /\ UNCHANGED <<typed, font, waiting>>
    BY <1>4, Zenon DEF OpenModal, Untouched, ClickSignature, writing
  <2>2. inside' /\ adopting' # {} => waiting' # Nothing
    BY <2>1, Zenon
  <2>3. typed' = typed /\ font' = font /\ waiting' = waiting
    BY <2>1, Zenon
  <2> QED
    BY <1>2, <2>2, <2>3, Zenon DEF WritingHeld
<1>5. ASSUME FormStep PROVE WritingHeld'
  <2>1. ~inside' /\ UNCHANGED <<typed, font, waiting>>
    BY <1>5, Zenon DEF FormStep, writing
  <2>2. inside' /\ adopting' # {} => waiting' # Nothing
    BY <2>1, Zenon
  <2>3. typed' = typed /\ font' = font /\ waiting' = waiting
    BY <2>1, Zenon
  <2> QED
    BY <1>2, <2>2, <2>3, Zenon DEF WritingHeld
<1>6. ASSUME AdoptWritten PROVE WritingHeld'
  <2>1. waiting' = <<typed, font>> /\ UNCHANGED <<typed, font>>
    BY <1>6, Zenon DEF AdoptWritten, writing
  <2>2. waiting' \in Texts \X Fonts
    BY <1>2, <2>1
  <2>3. waiting' # Nothing
    BY <2>1 DEF Nothing
  <2>4. inside' /\ adopting' # {} => waiting' # Nothing
    BY <2>3, Zenon
  <2>5. typed' = typed /\ font' = font
    BY <2>1, Zenon
  <2> QED
    BY <1>2, <2>2, <2>4, <2>5, Zenon DEF WritingHeld
<1>7. WritingHeld'
  BY <1>3, <1>4, <1>5, <1>6, Zenon
<1>8. CanvasHeld' /\ PreviewHeld'
  BY <1>1, SameParts, Zenon DEF InkInv
<1> QED
  BY <1>1, <1>7, <1>8, NothingStamped DEF InkInv

LEMMA UploadInk ==
  ASSUME InkInv, PhotoTypes',
         \/ \E photo \in Photos : ChooseFile(photo)
         \/ \E job \in jobs : FileRead(job) \/ ImageDecoded(job)
         \/ ToggleBackground \/ ResetUpload
         \/ \E t \in {"draw", "type", "upload"} : PickTab(t)
  PROVE  InkInv'
<1>1. /\ stamped' = Nothing /\ UNCHANGED <<canvas, writing>>
      /\ UNCHANGED <<inside, adopting, waiting>>
  BY Zenon DEF ChooseFile, FileRead, ImageDecoded, ToggleBackground, ResetUpload, PickTab,
     Edit, JobStep, vars, form
<1>2. ASSUME NEW job \in jobs, ImageDecoded(job) PROVE PreviewHeld'
  <2>1. job.of \in Photos /\ job.strip \in BOOLEAN
    <3>1. job \in Jobs
      BY DEF InkInv, PhotoTypes
    <3>2. PICK place, photo, strips : /\ place \in {"read", "decode"} /\ photo \in Photos
                                    /\ strips \in BOOLEAN
                                    /\ job = [at |-> place, of |-> photo, strip |-> strips]
      BY <3>1, Zenon DEF Jobs
    <3>3. job.of = photo /\ job.strip = strips
      BY <3>2
    <3> QED
      BY <3>2, <3>3, Zenon
  <2>2. PICK pic : pic = Process(job.of.pic, job.strip)
    OBVIOUS
  <2>3. preview' = IF pic = NoPicture THEN Nothing
                   ELSE [of |-> job.of, strip |-> job.strip, pic |-> pic]
    BY <1>2, <2>2, Zenon DEF ImageDecoded
  <2>4. preview' # Nothing => /\ preview'.of = job.of /\ preview'.strip = job.strip
                              /\ preview'.pic = pic /\ pic # NoPicture
    BY <2>3
  <2> QED
    BY <2>1, <2>2, <2>4, Zenon DEF PreviewHeld
<1>3. ASSUME preview' = Nothing PROVE PreviewHeld'
  BY <1>3, Zenon DEF PreviewHeld
<1>4. ASSUME UNCHANGED preview PROVE PreviewHeld'
  BY <1>4, SameParts, Zenon DEF InkInv
<1>5. PreviewHeld'
  <2>1. \/ \E job \in jobs : ImageDecoded(job)
        \/ preview' = Nothing
        \/ UNCHANGED preview
    BY Zenon DEF ChooseFile, FileRead, ToggleBackground, ResetUpload, PickTab, upload
  <2> QED
    BY <2>1, <1>2, <1>3, <1>4, Zenon
<1>6. CanvasHeld' /\ WritingHeld'
  BY <1>1, SameParts, Zenon DEF InkInv
<1> QED
  BY <1>1, <1>5, <1>6, NothingStamped DEF InkInv

LEMMA CancelInk ==
  ASSUME InkInv, PhotoTypes', Cancel
  PROVE  InkInv'
<1>1. stamped' = Nothing
  BY Zenon DEF Cancel
<1>2. CASE waiting = Nothing
  BY <1>1, <1>2, Resets, NothingStamped DEF Cancel, InkInv
<1>3. CASE waiting # Nothing
  <2>1. UNCHANGED <<canvas, writing, waiting, preview>> /\ UNCHANGED <<inside, adopting>>
    BY <1>3, Zenon DEF Cancel, CancelModal, upload
  <2> QED
    BY <1>1, <2>1, SameParts, NothingStamped, Zenon DEF InkInv
<1> QED
  BY <1>2, <1>3

\* What is put on the form is what the signer made of it, for any canvas, text,
\* font and photo on which the pen shows: whatever she draws, writes, uploads,
\* undoes, resizes or cancels meanwhile, handleAdopt goes on with the strokes, the
\* text in its font or the preview that it saw at the click, and cropping and
\* stripping lose none of their ink and add nothing to it.
THEOREM InkKept ==
  ASSUME Bounded(Canvas), \A photo \in Photos : Legible(photo)
  PROVE  ModalSpec => []InkIsKept
<1>1. ASSUME ModalInit PROVE InkInv /\ PhotoHeld
  <2>1. strip \in BOOLEAN /\ overtaken \in BOOLEAN
    BY <1>1, Zenon DEF ModalInit
  <2>2. PhotoTypes
    BY <1>1, <2>1 DEF ModalInit, PhotoTypes
  <2>3. PreviewIsChosen /\ jobs = {}
    BY <1>1, Zenon DEF ModalInit, PreviewIsChosen
  <2>4. CanvasHeld
    BY <1>1 DEF ModalInit, CanvasHeld, Strokes
  <2>5. WritingHeld /\ PreviewHeld /\ InkIsKept
    BY <1>1, ModalAssumption, Zenon DEF ModalInit, WritingHeld, PreviewHeld, InkIsKept
  <2> QED
    BY <2>2, <2>3, <2>4, <2>5, Zenon DEF InkInv, PhotoHeld
<1>2. ASSUME InkInv, PhotoHeld, [ModalNext]_<<vars, modalVars>> PROVE InkInv' /\ PhotoHeld'
  <2>1. PhotoHeld'
    BY <1>2, PhotoNext
  <2>2. PhotoTypes'
    BY <2>1, Zenon DEF PhotoHeld
  <2>3. CASE UNCHANGED <<vars, modalVars>>
    <3>1. UNCHANGED <<canvas, writing, waiting, preview, stamped>>
          /\ UNCHANGED <<inside, adopting>>
      BY <2>3 DEF modalVars, upload, vars, form
    <3>2. InkIsKept'
      BY <1>2, <3>1, Zenon DEF InkInv, InkIsKept
    <3> QED
      BY <1>2, <2>1, <2>2, <3>1, <3>2, SameParts, Zenon DEF InkInv
  <2>4. CASE ModalNext
    <3>1. InkInv'
      BY <1>2, <2>2, <2>4, AdoptDrawnInk, AdoptUploadedInk, FontIsThereInk, CanvasInk,
         WritingInk, UploadInk, CancelInk DEF ModalNext
    <3> QED
      BY <2>1, <3>1
  <2> QED
    BY <1>2, <2>3, <2>4
<1>3. InkInv => InkIsKept
  BY DEF InkInv
<1> QED
  BY <1>1, <1>2, <1>3, PTL DEF ModalSpec
===============================================================================
