------------------------------ MODULE Orientation ------------------------------
(***************************************************************************)
(* How the pixels of a photo are turned: the corrections orientation.cpp   *)
(* makes of the eight EXIF orientations, and the ones by which the viewer  *)
(* shows them.  A transform is a matrix of QTransform, for row vectors     *)
(* with y pointing down; a picture is its width, its height and what is at *)
(* each of its places, from 0.                                             *)
(***************************************************************************)
EXTENDS Integers, Sequences, SequencesExt

Orientations == 1..8
TOP_LEFT_ORIGIN == 1

\* The orientations of pictures that are mirrored, and those of them that
\* toTransform takes for each other.
Mirrored == {2, 4, 5, 7}
Transposed == {5, 7}

\* fromOrientation
Correction ==
    << [angle |-> 0, scale |-> 1],   [angle |-> 0, scale |-> -1],
       [angle |-> 180, scale |-> 1], [angle |-> 180, scale |-> -1],
       [angle |-> -90, scale |-> -1], [angle |-> 90, scale |-> 1],
       [angle |-> 90, scale |-> -1], [angle |-> -90, scale |-> 1] >>

Sin(angle) == IF angle = 90 THEN 1 ELSE IF angle = -90 THEN -1 ELSE 0
Cos(angle) == IF angle = 0 THEN 1 ELSE IF angle = 180 THEN -1 ELSE 0

\* toTransform: scale, then rotate, which QTransform applies to a point the
\* other way round.
ToTransform(c) ==
    [xx |-> Cos(c.angle) * c.scale, xy |-> Sin(c.angle),
     yx |-> -Sin(c.angle) * c.scale, yy |-> Cos(c.angle)]

Identity == [xx |-> 1, xy |-> 0, yx |-> 0, yy |-> 1]
QuarterRight == [xx |-> 0, xy |-> 1, yx |-> -1, yy |-> 0]

\* The image reader of the viewer (PhotoImageProvider sets autoTransform):
\* row 0 and column 0 go to the sides an orientation is named for.
Shows ==
    << Identity,
       [xx |-> -1, xy |-> 0, yx |-> 0, yy |-> 1],
       [xx |-> -1, xy |-> 0, yx |-> 0, yy |-> -1],
       [xx |-> 1, xy |-> 0, yx |-> 0, yy |-> -1],
       [xx |-> 0, xy |-> 1, yx |-> 1, yy |-> 0],
       QuarterRight,
       [xx |-> 0, xy |-> -1, yx |-> -1, yy |-> 0],
       [xx |-> 0, xy |-> -1, yx |-> 1, yy |-> 0] >>

SequenceA == <<1, 8, 3, 6>>
SequenceB == <<2, 7, 4, 5>>

\* Mutant: right is taken for left.
RotatedLeft(orientation) ==
    LET sequence == IF orientation \in Range(SequenceA) THEN SequenceA
                    ELSE SequenceB
        current == CHOOSE i \in 1..4: sequence[i] = orientation
    IN  sequence[(current % 4) + 1]

\* rotateOrientation to the right: three steps on in the sequence.
RotateOrientation(orientation) ==
    LET sequence == IF orientation \in Range(SequenceA) THEN SequenceA
                    ELSE SequenceB
        current == CHOOSE i \in 1..4: sequence[i] = orientation
    IN  sequence[((current + 2) % 4) + 1]

-----------------------------------------------------------------------------
Places(width, height) == (0..width - 1) \X (0..height - 1)

\* A coordinate that is kept or counted from the other end.
Along(sign, k, length) == IF sign = 1 THEN k ELSE length - 1 - k

\* QImage::transformed, by a transform that only turns and mirrors.
Transformed(picture, t) ==
    LET width == IF t.xx # 0 THEN picture.width ELSE picture.height
        height == IF t.xx # 0 THEN picture.height ELSE picture.width
    IN  [width |-> width, height |-> height,
         at |-> [p \in Places(width, height) |->
                   IF t.xx # 0
                   THEN picture.at[<<Along(t.xx, p[1], picture.width),
                                     Along(t.yy, p[2], picture.height)>>]
                   ELSE picture.at[<<Along(t.xy, p[2], picture.width),
                                     Along(t.yx, p[1], picture.height)>>]]]

\* A pixel no place of a photo is in.
Blank == <<>>

\* QImage::copy, which is blank where there is no picture.
Part(picture, left, top, width, height) ==
    [width |-> width, height |-> height,
     at |-> [p \in Places(width, height) |->
               LET from == <<left + p[1], top + p[2]>>
               IN  IF from \in DOMAIN picture.at THEN picture.at[from]
                   ELSE Blank]]
===============================================================================
