------------------------------ MODULE SigningForm ------------------------------
(***************************************************************************)
(* The signing form that one browser page shows once its signer has        *)
(* consented: fields, the signature modal with its asynchronous adoption,  *)
(* the confirm and decline dialogs, and the requests of the page.  The     *)
(* server accepts one answer of the signer; an answer may be late or lost. *)
(* Dialogs and modal cover the page for the mouse, but nothing keeps the   *)
(* keyboard from the inputs and buttons beneath.                           *)
(***************************************************************************)
EXTENDS Naturals, Sequences

CONSTANTS
  Signatures,  \* fields of type SIGNATURE or INITIALS
  Saved,       \* those of a type for which the signer has a saved adoption
  Inline,      \* TEXT, DROPDOWN, RADIO, ATTACHMENT: filled in the overlay
  Boxes,       \* CHECKBOX
  Dated,       \* NAME and DATE, filled when the step begins
  Required,    \* fields that must be filled
  NoField,     \* activeFieldId = null
  MaxPosts     \* bound: times the signer completes the form

Fields == Signatures \cup Inline \cup Boxes \cup Dated

ASSUME FormAssumption ==
  /\ Saved \subseteq Signatures /\ Required \subseteq Fields
  /\ NoField \notin Fields
  /\ Inline \cap (Signatures \cup Boxes \cup Dated) = {}
  /\ Signatures \cap (Boxes \cup Dated) = {}
  /\ MaxPosts \in Nat

VARIABLES
  step,      \* the page's step; "LEFT" once it reloads
  value,     \* the values of the fields
  active,    \* activeFieldId
  modal,     \* showSignatureModal
  busy,      \* the modal's own "adopting"
  adopting,  \* fields for which a typed signature waits for its font
  confirm,   \* showConfirmDialog
  declining, \* a decline is under way; its dialog may be closed again
  posts,     \* the values of each POST of the form, as they were captured;
             \* of the last one, and of those that are pending
  pending,   \* the POSTs the server has not handled yet
  status,    \* of the recipient and its envelope, at the server
  recorded,  \* the values the server has recorded, or << >>
  opened,    \* history: the field that the open modal was opened for
  adopted,   \* history: the fields the signer has put a signature on
  strayed,   \* history: inputs that got the focus beneath the open modal
  slipped    \* history: a required field was emptied under the dialog

form    == <<step, value, active, modal, busy, adopting, confirm, declining>>
server  == <<posts, pending, status, recorded>>
history == <<opened, adopted, strayed, slipped>>
vars == <<form, server, history>>

Values == {"", "auto", "typed", "true", "saved", "ink"}

TypeOK ==
  /\ step \in {"SIGNING", "SUBMITTING", "COMPLETE", "LEFT"}
  /\ value \in [Fields -> Values]
  /\ active \in Fields \cup {NoField}
  /\ modal \in BOOLEAN /\ busy \in BOOLEAN
  /\ adopting \subseteq Fields
  /\ confirm \in BOOLEAN
  /\ declining \in BOOLEAN
  /\ posts \in Seq([Fields -> Values] \cup {<< >>}) /\ Len(posts) <= MaxPosts
  /\ pending \subseteq DOMAIN posts
  /\ status \in {"SENT", "SIGNED", "CLOSED"}
  /\ recorded \in [Fields -> Values] \cup {<< >>}
  /\ opened \in Signatures \cup {NoField}
  /\ adopted \subseteq Signatures /\ strayed \subseteq Inline
  /\ slipped \in BOOLEAN

\* NAME and DATE are filled as soon as the step begins; nothing is pre-signed.
Init ==
  /\ step = "SIGNING"
  /\ value = [f \in Fields |-> IF f \in Dated THEN "auto" ELSE ""]
  /\ active = NoField
  /\ modal = FALSE /\ busy = FALSE /\ adopting = {}
  /\ confirm = FALSE /\ declining = FALSE
  /\ posts = << >> /\ pending = {}
  /\ status = "SENT" /\ recorded = << >>
  /\ opened = NoField /\ adopted = {} /\ strayed = {} /\ slipped = FALSE

-----------------------------------------------------------------------------
\* The form is on the screen, behind a spinner or not.
Shown == step \in {"SIGNING", "SUBMITTING"}

\* The modal renders only while a field is active.
ModalShown == Shown /\ modal /\ active # NoField

\* Fields are no buttons: only the mouse reaches them.
Uncovered == Shown /\ ~ModalShown /\ ~confirm

\* Mutation: one field is enough.
SomeRequiredDone == Required = {} \/ \E f \in Required : value[f] # ""

AllRequiredDone == \A f \in Required : value[f] # ""

Toggle(v) == IF v = "" THEN "true" ELSE ""

\* Clicking an empty signature field applies the saved signature; a filled one,
\* or one with nothing saved, opens the modal.
ClickSignature(f) ==
  /\ Uncovered
  /\ IF value[f] = "" /\ f \in Saved
     THEN /\ value' = [value EXCEPT ![f] = "saved"]
          /\ active' = NoField
          /\ adopted' = adopted \cup {f}
          /\ UNCHANGED <<modal, busy, opened>>
     ELSE /\ active' = f
          /\ modal' = TRUE /\ busy' = FALSE
          /\ opened' = f
          /\ UNCHANGED <<value, adopted>>
  /\ UNCHANGED <<step, adopting, confirm, declining, server, strayed, slipped>>

ClickOther(f) ==
  /\ Uncovered
  /\ value' = [value EXCEPT ![f] = IF f \in Boxes THEN Toggle(@) ELSE "auto"]
  /\ active' = NoField
  /\ UNCHANGED <<step, modal, busy, adopting, confirm, declining, server,
                 history>>

\* Focus makes the input the active field, whatever is open above it; the signer
\* may type or leave it as it is.
TypeInline(f, v) ==
  /\ Shown
  /\ active' = f
  /\ value' = [value EXCEPT ![f] = v]
  /\ strayed' = strayed \cup (IF ModalShown THEN {f} ELSE {})
  /\ slipped' = (slipped \/ (confirm /\ f \in Required /\ v = ""))
  /\ UNCHANGED <<step, modal, busy, adopting, confirm, declining, server,
                 opened, adopted>>

-----------------------------------------------------------------------------
CloseModal ==
  /\ modal' = FALSE /\ busy' = FALSE
  /\ active' = NoField
  /\ opened' = NoField

\* handleSignatureAdopt, of the render in which f was the active field.
Stamp(f) ==
  /\ value' = [value EXCEPT ![f] = "ink"]
  /\ CloseModal

\* A drawn or an uploaded signature is adopted at once.
Adopt ==
  /\ ModalShown /\ ~busy
  /\ Stamp(active)
  /\ adopted' = adopted \cup {opened}
  /\ UNCHANGED <<step, adopting, confirm, declining, server, strayed, slipped>>

\* A typed one waits for its font first.
AdoptTyped ==
  /\ ModalShown /\ ~busy
  /\ busy' = TRUE
  /\ adopting' = adopting \cup {active}
  /\ adopted' = adopted \cup {opened}
  /\ UNCHANGED <<step, value, active, modal, confirm, declining, server,
                 opened, strayed, slipped>>

\* Mutation: the field that is active by now gets the signature.
FontLoadedLate(f) ==
  /\ f \in adopting
  /\ adopting' = adopting \ {f}
  /\ value' = [g \in Fields |-> IF g = active THEN "ink" ELSE value[g]]
  /\ CloseModal
  /\ UNCHANGED <<step, confirm, declining, server, adopted, strayed, slipped>>

\* The modal may have been cancelled meanwhile, or be open for another field.
FontLoaded(f) ==
  /\ f \in adopting
  /\ adopting' = adopting \ {f}
  /\ Stamp(f)
  /\ UNCHANGED <<step, confirm, declining, server, adopted, strayed, slipped>>

CancelModal ==
  /\ ModalShown
  /\ CloseModal
  /\ UNCHANGED <<step, value, adopting, confirm, declining, server,
                 adopted, strayed, slipped>>

-----------------------------------------------------------------------------
\* "Complete Signing" is disabled until all required fields are filled; the
\* dialog it opens does not look again.
OpenConfirm ==
  /\ step = "SIGNING" /\ ~confirm
  /\ AllRequiredDone
  /\ confirm' = TRUE
  /\ UNCHANGED <<step, value, active, modal, busy, adopting, declining,
                 server, history>>

CloseConfirm ==
  /\ Shown /\ confirm
  /\ confirm' = FALSE
  /\ UNCHANGED <<step, value, active, modal, busy, adopting, declining,
                 server, history>>

\* handleComplete.
Complete ==
  /\ Shown /\ confirm
  /\ Len(posts) < MaxPosts
  /\ confirm' = FALSE
  /\ step' = "SUBMITTING"
  /\ posts' = Append([n \in DOMAIN posts |->
                        IF n \in pending THEN posts[n] ELSE << >>], value)
  /\ pending' = pending \cup {Len(posts) + 1}
  /\ UNCHANGED <<value, active, modal, busy, adopting, declining, status,
                 recorded, history>>

\* handleDecline.
Decline ==
  /\ Shown /\ ~declining
  /\ declining' = TRUE
  /\ UNCHANGED <<step, value, active, modal, busy, adopting, confirm,
                 server, history>>

-----------------------------------------------------------------------------
\* What the page does with the answer to its last POST.
Answered(n, next) ==
  step' = IF n = Len(posts) /\ step = "SUBMITTING" THEN next ELSE step

\* Mutation: the second POST of a signer who has signed is taken too.
AcceptsAgain == status \in {"SENT", "SIGNED"}

Accepts == status = "SENT"

\* POST /api/sign/[token]: recorded once; an error may follow the commit.
HandlePost(n) ==
  /\ n \in pending
  /\ pending' = pending \ {n}
  /\ IF Accepts
     THEN /\ status' = "SIGNED"
          /\ recorded' = posts[n]
          /\ \E next \in {"COMPLETE", "SIGNING"} : Answered(n, next)
     ELSE /\ Answered(n, "SIGNING")
          /\ UNCHANGED <<status, recorded>>
  /\ posts' = IF n = Len(posts) THEN posts ELSE [posts EXCEPT ![n] = << >>]
  /\ UNCHANGED <<value, active, modal, busy, adopting, confirm, declining,
                 history>>

\* The connection breaks, before the POST has arrived or after.
LoseConnection ==
  /\ step = "SUBMITTING"
  /\ step' = "SIGNING"
  /\ \E lost \in SUBSET {Len(posts)} : pending' = pending \ lost
  /\ UNCHANGED <<value, active, modal, busy, adopting, confirm, declining,
                 posts, status, recorded, history>>

\* POST /api/sign/[token]/decline; the page reloads if it hears of a success.
HandleDecline ==
  /\ declining
  /\ declining' = FALSE
  /\ \/ /\ status = "SENT"
        /\ status' = "CLOSED"
        /\ step' \in {step, "LEFT"}
     \/ UNCHANGED <<step, status>>
  /\ UNCHANGED <<value, active, modal, busy, adopting, confirm, posts,
                 pending, recorded, history>>

\* The sender voids the envelope, or the signer declines it from another page.
Void ==
  /\ status = "SENT"
  /\ status' = "CLOSED"
  /\ UNCHANGED <<form, posts, pending, recorded, history>>

-----------------------------------------------------------------------------
Signer ==
  \/ \E f \in Signatures : ClickSignature(f)
  \/ \E f \in Boxes \cup Dated : ClickOther(f)
  \/ \E f \in Inline : \E v \in {"", "typed", value[f]} : TypeInline(f, v)
  \/ Adopt \/ AdoptTyped \/ CancelModal
  \/ OpenConfirm \/ CloseConfirm \/ Complete
  \/ Decline

Next ==
  \/ Signer
  \/ \E f \in adopting : FontLoaded(f)
  \/ \E n \in pending : HandlePost(n)
  \/ LoseConnection
  \/ HandleDecline
  \/ Void

Spec == Init /\ [][Next]_vars

-----------------------------------------------------------------------------
\* A page says "Signing Complete" only if the server has recorded exactly what
\* this last POST carried, although an earlier one may arrive late, the form
\* stays editable while it waits, and errors may follow the commit.
CompleteIsRecorded ==
  step = "COMPLETE" => recorded = posts[Len(posts)]

\* What is recorded has every required field filled, unless the signer emptied
\* one with the keyboard under the dialog: only the page looks for values, the
\* server for field ids.
RequiredFilled ==
  recorded # << >> /\ ~slipped => \A f \in Required : recorded[f] # ""

\* The fields that carry a signature, by the values v.
SignaturesIn(v) ==
  {f \in Fields : v[f] # "" /\ (f \in Signatures \/ v[f] \in {"saved", "ink"})}

\* A signature stands, on the page and in the record, only where the signer put
\* it, or in an input that she focused with the keyboard beneath the open modal
\* (Adopt marks the active field, which may be a text field by then): an adoption
\* that ends late, or after its modal was cancelled, marks no other field.
InkWhereAdopted ==
  /\ SignaturesIn(value) \subseteq adopted \cup strayed
  /\ recorded # << >> => SignaturesIn(recorded) \subseteq adopted \cup strayed
===============================================================================
