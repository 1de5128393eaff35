------------------------------ MODULE Certificate ------------------------------
(***************************************************************************)
(* The layout of the Certificate of Completion, which breaks its pages by  *)
(* hand.  A certificate is made of marks: "text" leaves a line and moves   *)
(* down, "rule" and "gap" too, "need" starts a page if too little of this  *)
(* one is left, and "head" opens a block whose first line should not be on *)
(* another page.  What the lines say, and how wide they are, is left out.  *)
(***************************************************************************)
EXTENDS Integers, Sequences

PageTop    == 792 - 60
Bottom     == 60
FooterTop  == 30 + 8
LineHeight == 14
SectionGap == 24

Text(down)    == [kind |-> "text", by |-> down]
Heading(down) == [kind |-> "head", by |-> down]
Gap(down)     == [kind |-> "gap", by |-> down]
Need(room)    == [kind |-> "need", by |-> room]
DrawRule      == [kind |-> "rule", by |-> 12]

-----------------------------------------------------------------------------
\* A page in the making: the next line is at y, low is the lowest mark so far on
\* any page, opened the page of a heading that has no line yet, torn is set once
\* such a heading and its first line are on different pages.
PageState == [y : Int, page : Nat, low : Int, opened : Nat, torn : BOOLEAN]

FirstPage == [y |-> PageTop, page |-> 1, low |-> PageTop, opened |-> 0,
              torn |-> FALSE]

\* Mutation: any room is enough, as long as the cursor is on the page.
LeavesRoomAny(y, room) == y >= Bottom
LeavesRoom(y, room) == y - room >= Bottom

\* ensureSpace: the footer is drawn on every page that is left, and on the last.
EnsureSpace(s, room) ==
  IF LeavesRoom(s.y, room) THEN s
  ELSE [s EXCEPT !.y = PageTop, !.page = @ + 1]

\* A mark at y, and the cursor below it.
Draw(s, mark) ==
  [s EXCEPT !.y = @ - mark.by,
            !.low = IF s.y < @ THEN s.y ELSE @,
            !.opened = IF mark.kind = "head" THEN s.page
                       ELSE IF mark.kind = "text" THEN 0 ELSE @,
            !.torn = @ \/ (mark.kind = "text" /\ s.opened \notin {0, s.page})]

\* What a mark, and a block of marks, makes of a page; a certificate is a
\* sequence of blocks.
Put(mark) ==
  [s \in PageState |->
     CASE mark.kind = "need" -> EnsureSpace(s, mark.by)
       [] mark.kind = "gap"  -> [s EXCEPT !.y = @ - mark.by]
       [] OTHER              -> Draw(s, mark)]

PutBlock(block) ==
  [s \in PageState |->
     LET after[n \in 0..Len(block)] ==
           IF n = 0 THEN s ELSE Put(block[n])[after[n - 1]]
     IN  after[Len(block)]]

PutBlocks(blocks) ==
  LET after[n \in 0..Len(blocks)] ==
        IF n = 0 THEN FirstPage ELSE PutBlock(blocks[n])[after[n - 1]]
  IN  after[Len(blocks)]

-----------------------------------------------------------------------------
Repeat(n, block) == [i \in 1..n |-> block]

DrawRow == <<Need(LineHeight + 4), Text(LineHeight + 4)>>

Section(room) == <<Need(room), Heading(20)>>

EndOfSection == <<Gap(8), DrawRule>>

Header ==
  <<<<Text(24), Text(SectionGap), DrawRule, Heading(20)>>>>
    \o Repeat(5, DrawRow) \o <<EndOfSection>>

Sender == <<Section(80), DrawRow, DrawRow, EndOfSection>>

\* Name, email, time, address and method; a separator between two signers.
SignerBlock == <<Need(100), Heading(22)>> \o DrawRow \o DrawRow \o DrawRow
                 \o DrawRow \o DrawRow \o <<Gap(8)>>

Separator == <<Gap(-4), [DrawRule EXCEPT !.by = 8]>>

\* The heading "Signer Details" may be the last line of a page: 40 points are
\* reserved for it, 100 for the first signer.  So it opens no block here.
SignerDetails(n) ==
  <<<<Need(40), Text(20)>>>>
    \o Repeat(n - 1, SignerBlock \o Separator)
    \o <<SignerBlock, EndOfSection>>

\* Blank lines reserve a line and take 6 points.
LegalNotice ==
  LET line  == <<Need(LineHeight), Text(LineHeight)>>
      blank == <<Need(LineHeight), Gap(6)>>
  IN  <<Section(120), line, blank, line, line, line, blank, line, line, blank,
        line, line, line>>

DigitalSignature(profile) ==
  IF profile = "unsigned" THEN <<>>
  ELSE <<EndOfSection, Section(80)>>
         \o Repeat(2, <<Need(LineHeight), Text(LineHeight)>>) \o <<<<Gap(6)>>>>
         \o Repeat(IF profile = "CAdES-T" THEN 2 ELSE 1, DrawRow)

\* An entry is two lines, and a page may end between them.
Entry == <<Need(LineHeight + 2), Text(LineHeight - 2),
           Need(LineHeight), Text(LineHeight)>>

AuditTrail(n, hasHead) ==
  IF n = 0 THEN <<>>
  ELSE <<EndOfSection, Section(60)>> \o Repeat(n, Entry)
         \o IF ~hasHead THEN <<>>
            ELSE <<<<Gap(4)>>>>
                   \o Repeat(2, <<Need(LineHeight), Text(LineHeight)>>)

\* generateCertificate.
Layout(signerCount, rowCount, profile, hasHead) ==
  PutBlocks(Header \o Sender \o SignerDetails(signerCount) \o LegalNotice
              \o DigitalSignature(profile) \o AuditTrail(rowCount, hasHead))
===============================================================================
