---------------------------- MODULE SignatureModal ----------------------------
(***************************************************************************)
(* The signature modal of the signing form: its canvas, its text and its   *)
(* photo, whose reading and stripping end in any order.  One opening of    *)
(* the modal on a form that is not filled in yet is followed in detail,    *)
(* while the form rests; every other opening is one step of SigningForm.   *)
(***************************************************************************)
EXTENDS SigningForm, SignatureImage

CONSTANTS
  Canvas,       \* the pixels the pen can touch
  Photos,       \* files: their picture, and the pixels of the pen in it
  NoPhoto,
  Texts,        \* what the signer may write, trimmed
  DefaultText,  \* her name or her initials
  Fonts,
  DefaultFont,
  MaxEdits,     \* bound: what she does in one opening of the modal
  MaxJobs       \* bound: reads and decodes of photos under way

ASSUME ModalAssumption ==
  /\ "" \in Texts /\ DefaultText \in Texts /\ DefaultFont \in Fonts
  /\ NoPhoto \notin Photos
  /\ \A photo \in Photos : photo.pen \subseteq DOMAIN photo.pic

VARIABLES
  inside,    \* this opening is followed in detail
  tab,       \* activeTab
  strokes,   \* strokesRef; strokeCount is its length
  pen,       \* activeStroke
  typed,     \* typedText
  font,      \* fontId
  source,    \* uploadedSrc
  preview,   \* processedUpload, with the photo and the choice it comes from
  strip,     \* removeBg
  jobs,      \* FileReaders and decodes of images that are under way
  overtaken, \* history: two jobs, or a reset and a job, were under way at once
  edits,     \* counter for MaxEdits
  waiting,   \* text and font of the handleAdopt that waits for the font
  stamped    \* history: what the last step put on the form, or Nothing

canvas  == <<strokes, pen>>
writing == <<typed, font>>
upload  == <<source, preview, strip, jobs, overtaken>>
modalVars == <<inside, tab, canvas, writing, upload, edits, waiting, stamped>>

Nothing == << >>

ModalInit ==
  /\ Init
  /\ tab = "draw" /\ strokes = << >> /\ pen = << >>
  /\ typed = DefaultText /\ font = DefaultFont
  /\ source = NoPhoto /\ preview = Nothing /\ strip = TRUE
  /\ jobs = {} /\ overtaken = FALSE /\ edits = 0
  /\ inside = FALSE /\ waiting = Nothing /\ stamped = Nothing

\* The modal is gone, and its state with it.
Unmount ==
  /\ tab' = "draw" /\ strokes' = << >> /\ pen' = << >>
  /\ typed' = DefaultText /\ font' = DefaultFont
  /\ source' = NoPhoto /\ preview' = Nothing /\ strip' = TRUE
  /\ jobs' = {} /\ overtaken' = FALSE /\ edits' = 0
  /\ inside' = FALSE /\ waiting' = Nothing

-----------------------------------------------------------------------------
\* Bound: only an opening of a form with nothing but signatures on it is
\* followed in detail.
Untouched ==
  /\ \A f \in Inline \cup Boxes : value[f] = ""
  /\ posts = << >> /\ status = "SENT"
  /\ adopting = {} /\ ~declining /\ strayed = {} /\ ~slipped

OpenModal(f) ==
  /\ ~inside /\ Untouched
  /\ ClickSignature(f) /\ modal'
  /\ inside' = TRUE
  /\ stamped' = Nothing
  /\ UNCHANGED <<tab, canvas, writing, upload, edits, waiting>>

FormStep ==
  /\ ~inside
  /\ Next
  /\ stamped' = Nothing
  /\ UNCHANGED <<inside, tab, canvas, writing, upload, edits, waiting>>

\* The signer does something in the modal.
Edit ==
  /\ inside /\ ModalShown
  /\ edits < MaxEdits
  /\ edits' = edits + 1
  /\ stamped' = Nothing
  /\ UNCHANGED <<vars, inside, waiting>>

PickTab(t) ==
  /\ Edit /\ t # tab
  /\ tab' = t
  /\ UNCHANGED <<canvas, writing, upload>>

-----------------------------------------------------------------------------
\* The canvas.
PenDown(p) ==
  /\ Edit /\ tab = "draw"
  /\ pen' = <<p>>
  /\ UNCHANGED <<tab, strokes, writing, upload>>

\* A stroke that lost its canvas to another tab goes on when it is back.
PenMove(p) ==
  /\ Edit /\ tab = "draw" /\ pen # << >>
  /\ pen' = Append(pen, p)
  /\ UNCHANGED <<tab, strokes, writing, upload>>

PenUp ==
  /\ Edit /\ tab = "draw" /\ pen # << >>
  /\ strokes' = Append(strokes, pen)
  /\ pen' = << >>
  /\ UNCHANGED <<tab, writing, upload>>

\* setupCanvas scales the strokes with the canvas; the one under way stays
\* where it was on the screen, which may be off the canvas by now.
ResizeCanvas ==
  /\ Edit /\ tab = "draw" /\ pen # << >>
  /\ pen' = [i \in DOMAIN pen |-> <<pen[i][1] + 1, pen[i][2]>>]
  /\ UNCHANGED <<tab, strokes, writing, upload>>

Undo ==
  /\ Edit /\ tab = "draw" /\ strokes # << >>
  /\ strokes' = SubSeq(strokes, 1, Len(strokes) - 1)
  /\ UNCHANGED <<tab, pen, writing, upload>>

Clear ==
  /\ Edit /\ tab = "draw" /\ strokes # << >>
  /\ strokes' = << >> /\ pen' = << >>
  /\ UNCHANGED <<tab, writing, upload>>

-----------------------------------------------------------------------------
\* The text.
Write(t) ==
  /\ Edit /\ tab = "type"
  /\ typed' = t
  /\ UNCHANGED <<tab, font, canvas, upload>>

PickFont(f) ==
  /\ Edit /\ tab = "type" /\ typed # ""
  /\ font' = f
  /\ UNCHANGED <<tab, typed, canvas, upload>>

-----------------------------------------------------------------------------
\* The photo.
Starts(job) ==
  /\ job \notin jobs /\ Cardinality(jobs) < MaxJobs
  /\ jobs' = jobs \cup {job}
  /\ overtaken' = (overtaken \/ jobs # {})

\* handleFileUpload keeps the choice of the render it was called in; only the
\* tab without a preview has the button.
ChooseFile(photo) ==
  /\ Edit /\ tab = "upload" /\ preview = Nothing
  /\ Starts([at |-> "read", of |-> photo, strip |-> strip])
  /\ UNCHANGED <<tab, canvas, writing, source, preview, strip>>

JobStep ==
  /\ inside /\ ModalShown
  /\ stamped' = Nothing
  /\ UNCHANGED <<vars, inside, tab, canvas, writing, strip, overtaken, edits,
                 waiting>>

FileRead(job) ==
  /\ JobStep /\ job.at = "read"
  /\ source' = job.of
  /\ jobs' = (jobs \ {job}) \cup {[job EXCEPT !.at = "decode"]}
  /\ UNCHANGED preview

\* processUpload; an image that cannot be read, or has no ink, is an error.
ImageDecoded(job) ==
  /\ JobStep /\ job.at = "decode"
  /\ jobs' = jobs \ {job}
  /\ LET pic == Process(job.of.pic, job.strip)
     IN  preview' = IF pic = NoPicture THEN Nothing
                    ELSE [of |-> job.of, strip |-> job.strip, pic |-> pic]
  /\ UNCHANGED source

\* Mutation: the photo is processed with the choice as it was.
ToggleBackgroundStale ==
  /\ Edit /\ tab = "upload" /\ preview # Nothing
  /\ strip' = ~strip
  /\ IF source = NoPhoto THEN UNCHANGED <<jobs, overtaken>>
     ELSE Starts([at |-> "decode", of |-> source, strip |-> strip])
  /\ UNCHANGED <<tab, canvas, writing, source, preview>>

\* handleRemoveBgToggle: the photo is processed once more.
ToggleBackground ==
  /\ Edit /\ tab = "upload" /\ preview # Nothing
  /\ strip' = ~strip
  /\ IF source = NoPhoto THEN UNCHANGED <<jobs, overtaken>>
     ELSE Starts([at |-> "decode", of |-> source, strip |-> ~strip])
  /\ UNCHANGED <<tab, canvas, writing, source, preview>>

\* What is under way is not cancelled.
ResetUpload ==
  /\ Edit /\ tab = "upload" /\ preview # Nothing
  /\ source' = NoPhoto /\ preview' = Nothing
  /\ overtaken' = (overtaken \/ jobs # {})
  /\ UNCHANGED <<tab, canvas, writing, strip, jobs>>

-----------------------------------------------------------------------------
\* "Adopt and sign" is disabled without content.
HasContent ==
  CASE tab = "draw"   -> strokes # << >>
    [] tab = "type"   -> typed # ""
    [] tab = "upload" -> preview # Nothing

Points(stroke) == {stroke[i] : i \in DOMAIN stroke}

\* Nothing is adopted where the strokes left no ink on the canvas.
AdoptDrawn ==
  /\ inside /\ tab = "draw" /\ HasContent
  /\ Adopt
  /\ LET touched == {Points(strokes[i]) : i \in DOMAIN strokes}
         got     == Process(Drawn(Canvas, strokes), FALSE)
     IN  /\ got # NoPicture
         /\ stamped' = [marks |-> {S \in touched : S \subseteq Canvas},
                        room  |-> UNION touched,
                        got   |-> got]
  /\ Unmount

\* The paper of a photo whose background was taken away is no mark.
AdoptUploaded ==
  /\ inside /\ tab = "upload" /\ HasContent
  /\ Adopt
  /\ LET photo == preview.of
         paper == {p \in DOMAIN photo.pic \ photo.pen :
                     preview.strip /\ IsLight(photo.pic)}
     IN  stamped' = [marks |-> {{p} : p \in photo.pen},
                     room  |-> DOMAIN photo.pic \ paper,
                     got   |-> preview.pic]
  /\ Unmount

AdoptWritten ==
  /\ inside /\ tab = "type" /\ HasContent
  /\ AdoptTyped
  /\ waiting' = <<typed, font>>
  /\ stamped' = Nothing
  /\ UNCHANGED <<inside, tab, canvas, writing, upload, edits>>

\* handleAdopt goes on with the text and the font of the render it began in.
FontIsThere(f) ==
  /\ inside /\ FontLoaded(f)
  /\ stamped' = [marks |-> {{waiting}}, room |-> {waiting},
                 got   |-> Written(waiting[1], waiting[2])]
  /\ Unmount

Cancel ==
  /\ inside /\ CancelModal
  /\ stamped' = Nothing
  /\ IF waiting = Nothing THEN Unmount
     ELSE UNCHANGED <<inside, tab, canvas, writing, upload, edits, waiting>>

ModalNext ==
  \/ FormStep
  \/ \E f \in Signatures : OpenModal(f) \/ FontIsThere(f)
  \/ \E t \in {"draw", "type", "upload"} : PickTab(t)
  \/ \E p \in Canvas : PenDown(p) \/ PenMove(p)
  \/ PenUp \/ ResizeCanvas \/ Undo \/ Clear
  \/ \E t \in Texts : Write(t)
  \/ \E f \in Fonts : PickFont(f)
  \/ \E photo \in Photos : ChooseFile(photo)
  \/ \E job \in jobs : FileRead(job) \/ ImageDecoded(job)
  \/ ToggleBackground \/ ResetUpload
  \/ AdoptDrawn \/ AdoptUploaded \/ AdoptWritten \/ Cancel

ModalSpec == ModalInit /\ [][ModalNext]_<<vars, modalVars>>

-----------------------------------------------------------------------------
\* What is put on the form is what the signer made of it: every stroke that lies
\* on the canvas, the text in the font it had at the click, every mark of the
\* pen on a photo; and nothing else, no paper either if it was light and to be
\* taken away.
InkIsKept ==
  stamped # Nothing =>
    /\ \A mark \in stamped.marks : mark \cap Ink(stamped.got) # {}
    /\ Ink(stamped.got) \subseteq stamped.room

\* Once no job is under way the preview is the photo that was chosen last, with
\* or without its paper as the box says, unless jobs or a reset overlapped.
PreviewIsChosen ==
  jobs = {} /\ ~overtaken =>
    IF preview = Nothing
    THEN source = NoPhoto \/ Process(source.pic, strip) = NoPicture
    ELSE preview.of = source /\ preview.strip = strip
===============================================================================
