---------------------------- MODULE SignatureImage ----------------------------
(***************************************************************************)
(* How a signature becomes a picture: strokes are drawn, a photo loses its *)
(* paper, and what is left is cropped to its ink.  A picture maps its      *)
(* pixels to a grey level and an opacity; the three colours of a pixel,    *)
(* which the code treats alike, are one, and nothing is scaled.            *)
(***************************************************************************)
EXTENDS Integers, Sequences, FiniteSets

CONSTANTS
  Padding,     \* pixels left around the ink
  MinSamples   \* opaque border pixels without which no paper is recognised

ASSUME ImageAssumption == Padding \in Nat /\ MinSamples \in Nat \ {0}

NoPicture == << >>

Grey == 0..255
Pixel == [g : Grey, a : Grey]
Inked == [g |-> 27, a |-> 255]

Least(S) == CHOOSE n \in S : \A m \in S : n <= m
Most(S)  == CHOOSE n \in S : \A m \in S : n >= m
Abs(n) == IF n < 0 THEN -n ELSE n

\* inkBoundingBox looks for these.
Ink(pic) == {p \in DOMAIN pic : pic[p].a > 24}

-----------------------------------------------------------------------------
\* drawStroke: a tap is a dot; a line runs between the midpoints of its points.
Marks(stroke) ==
  IF Len(stroke) < 3 THEN {stroke[1]}
  ELSE {stroke[i] : i \in 2 .. Len(stroke) - 1}

AllMarks(strokes) == UNION {Marks(strokes[i]) : i \in DOMAIN strokes}

\* The offscreen canvas is transparent where nothing is drawn.
Drawn(canvas, strokes) ==
  [p \in canvas |-> IF p \in AllMarks(strokes) THEN Inked
                    ELSE [g |-> 0, a |-> 0]]

\* renderTypedSignature: what was written, in its font, is one pixel here.
Written(text, font) == [p \in {<<text, font>>} |-> Inked]

-----------------------------------------------------------------------------
\* The border ring, corners twice, without what is transparent already.
Samples(pic) ==
  LET xs == {p[1] : p \in DOMAIN pic}
      ys == {p[2] : p \in DOMAIN pic}
      ring == {<<x, y, "row">> : x \in xs, y \in {Least(ys), Most(ys)}}
                \cup {<<x, y, "column">> : x \in {Least(xs), Most(xs)}, y \in ys}
  IN  {s \in ring : pic[<<s[1], s[2]>>].a >= 200}

\* The upper median of the samples.
PaperOf(pic) ==
  LET S == Samples(pic)
      grey(s) == pic[<<s[1], s[2]>>].g
      below(v) == Cardinality({s \in S : grey(s) < v})
  IN  CHOOSE v \in {grey(s) : s \in S} :
        below(v) <= Cardinality(S) \div 2 /\ Cardinality(S) \div 2 < below(v + 1)

\* Only light paper is stripped.
IsLight(pic) ==
  Cardinality(Samples(pic)) >= MinSamples /\ PaperOf(pic) >= 160

\* An image with real transparency is a cutout already.
IsCutout(pic) ==
  50 * Cardinality({p \in DOMAIN pic : pic[p].a < 250})
    > Cardinality(DOMAIN pic)

\* Mutation: the distance from white, not from the paper.
OpacityFromWhite(pic, p) ==
  LET d == Abs(pic[p].g - 255)
  IN  Least({pic[p].a, 255, Most({0, (2 * 255 * (d - 10) + 62) \div 124})})

\* Clear within 10 of the paper, untouched beyond 72, a ramp in between.
Opacity(pic, p) ==
  LET d == Abs(pic[p].g - PaperOf(pic))
  IN  Least({pic[p].a, 255, Most({0, (2 * 255 * (d - 10) + 62) \div 124})})

RemoveBackground(pic) ==
  IF IsCutout(pic) \/ ~IsLight(pic) THEN pic
  ELSE [p \in DOMAIN pic |-> [pic[p] EXCEPT !.a = Opacity(pic, p)]]

-----------------------------------------------------------------------------
\* The ink's bounding box with its padding, clipped to the picture.
Crop(pic) ==
  LET xs == {p[1] : p \in Ink(pic)}
      ys == {p[2] : p \in Ink(pic)}
      box == (Least(xs) - Padding .. Most(xs) + Padding)
               \X (Least(ys) - Padding .. Most(ys) + Padding)
  IN  [p \in DOMAIN pic \cap box |-> pic[p]]

\* processSignatureSource: no picture without a picture, or without visible ink.
Process(pic, removeBackground) ==
  LET stripped == IF removeBackground THEN RemoveBackground(pic) ELSE pic
  IN  IF pic = NoPicture \/ Ink(stripped) = {} THEN NoPicture
      ELSE Crop(stripped)
===============================================================================
