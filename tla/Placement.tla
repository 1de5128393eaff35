------------------------------- MODULE Placement -------------------------------
(***************************************************************************)
(* Where a field is: points from the top left in DocuSign, per cent of the *)
(* page as it is shown in SwiftSign, points from the bottom left when the  *)
(* sealed file is drawn.  Per cents are integers, in hundredths.           *)
(***************************************************************************)
EXTENDS Integers, Sequences

Letter == [w |-> 612, h |-> 792, rotation |-> 0]

Full == 10000

Clamp(v) == IF v < 0 THEN 0 ELSE IF v > Full THEN Full ELSE v

\* Rounded to the nearest, halves up.
Percent(v, dim) == (2 * Full * v + dim) \div (2 * dim)

Pct(v, dim) == Clamp(Percent(v, dim))

\* The page as it is shown.
Turned(size) ==
  IF size.rotation \in {90, 270} THEN [size EXCEPT !.w = size.h, !.h = size.w]
  ELSE size

\* Pages whose size cannot be read are taken for US Letter.
PageSize(pdf, page) ==
  Turned(IF pdf.readable /\ page \in DOMAIN pdf.pages THEN pdf.pages[page]
         ELSE Letter)

\* A tab at a fixed position; w and h are 0 where they are not given.
FixedPlace(tab, pdf) ==
  LET page == IF tab.page >= 1 THEN tab.page ELSE 1
      size == PageSize(pdf, page)
  IN  [page |-> page,
       x |-> Pct(tab.x, size.w), y |-> Pct(tab.y, size.h),
       w |-> IF tab.w > 0 THEN Pct(tab.w, size.w) ELSE 0,
       h |-> IF tab.h > 0 THEN Pct(tab.h, size.h) ELSE 0]

-----------------------------------------------------------------------------
\* extractTextPositions: a text has its own origin at the bottom left.
TextPosition(t, pdf) ==
  LET size == Turned(pdf.pages[t.page])
  IN  [page |-> t.page,
       x |-> Percent(t.x, size.w), y |-> Percent(size.h - t.y, size.h)]

Occurrences(anchor, pdf) ==
  {i \in DOMAIN pdf.texts : pdf.texts[i].text = anchor}

LastOccurrence(anchor, pdf) ==
  CHOOSE i \in Occurrences(anchor, pdf) :
    \A j \in Occurrences(anchor, pdf) : j <= i

\* A field with an anchor goes 8 % right of it, unless x is given, and 2 % above.
AnchorPlace(f, pdf) ==
  LET at == TextPosition(pdf.texts[LastOccurrence(f.anchor, pdf)], pdf)
  IN  [f EXCEPT !.page = at.page,
                !.x = IF f.x # 0 THEN f.x ELSE at.x + 800,
                !.y = at.y - 200]

-----------------------------------------------------------------------------
\* Fields on pages that do not exist are skipped.
OnPage(f, pdf) == f.page \in DOMAIN pdf.pages

\* Fields whose value is drawn as a picture.
Pictures == {"SIGNATURE", "INITIALS"}

Smaller(a, b) == IF a < b THEN a ELSE b
Larger(a, b)  == IF a > b THEN a ELSE b

\* How far a signature crosses the line it sits on: 12 % of its box, 18 % of the
\* picture, 3 points at most.  The picture takes `share` per cent of the height of
\* the box; initials stay in it.
Overhang(f, height, share) ==
  IF f.type # "SIGNATURE" THEN 0
  ELSE Smaller(3 * Full, Smaller((12 * height) \div 100,
                                 (18 * ((share * height) \div 100)) \div 100))

\* Mutation: y is measured from the bottom.
DrawnUpsideDown(f, pdf, share) ==
  LET size == pdf.pages[f.page]
  IN  [left |-> f.x * size.w, bottom |-> f.y * size.h]

\* The lower left corner, in ten-thousandths of a point, of a picture, which does
\* not leave the page at its bottom, or of the box that the other values are
\* written in.  A page that is turned has the size it has before.
Drawn(f, pdf, share) ==
  LET size == pdf.pages[f.page]
      foot == (Full - f.y - f.h) * size.h
  IN  [left   |-> f.x * size.w,
       bottom |-> IF f.type \in Pictures
                  THEN Larger(0, foot - Overhang(f, f.h * size.h, share))
                  ELSE foot]
=================================================================================
