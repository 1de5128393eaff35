--------------------------- MODULE MCSignatureModal ---------------------------
(* Instances of the signing form and its signature modal for TLC. *)
EXTENDS SignatureModal

Grid == (1..5) \X (1..3)
ThreePixels == (1..3) \X {1}

Picture(g(_)) == [p \in Grid |-> [g |-> g(p), a |-> 255]]

\* A line in the middle, with one soft pixel at its end.
Line == {<<2, 2>>, <<3, 2>>}

\* Greyish paper, not quite even.
OnPaper ==
  LET grey(p) == IF p \in Line THEN 30 ELSE IF p = <<4, 2>> THEN 150
                 ELSE IF p[1] = 1 THEN 215 ELSE 220
  IN  [pic |-> Picture(grey), pen |-> Line \cup {<<4, 2>>}]

\* Light ink on dark paper: the paper stays.
OnSlate ==
  LET grey(p) == IF p \in Line THEN 220 ELSE 40
  IN  [pic |-> Picture(grey), pen |-> Line]

\* A cutout, with nothing around the line.
Cutout ==
  [pic |-> [p \in Grid |-> IF p \in Line THEN Inked ELSE [g |-> 0, a |-> 0]],
   pen |-> Line]

\* Paper without a line.
Blank ==
  LET grey(p) == 235
  IN  [pic |-> Picture(grey), pen |-> {}]

Unreadable == [pic |-> NoPicture, pen |-> {}]

SomePhotos == {OnPaper, OnSlate, Cutout, Blank, Unreadable}
===============================================================================
