------------------------------ MODULE MCPhotoCrop ------------------------------
(* A viewport of four by four pixels and a least frame of two.             *)
EXTENDS PhotoCrop

MCNoDrag == [none |-> TRUE]
MCNoFit == [none |-> TRUE]
Photo(jpeg, tag, width, height, grain, changes, pulls, handles) ==
    [jpeg |-> jpeg, tag |-> tag, width |-> width, height |-> height,
     grain |-> grain, edits |-> changes, drags |-> pulls, handles |-> handles]
\* All orientations, not dragged.
Turned == {Photo(jpeg, tag, 3, 2, 1, 2, 0, {}): jpeg \in BOOLEAN, tag \in Orientations}
\* All orientations, with one drag, in half pixels.
Framed == {Photo(TRUE, tag, 2, 1, 2, 2, 1, Handles): tag \in Orientations}
\* Two drags that meet the animation.
Animated == {Photo(FALSE, 1, 4, 2, 1, 1, 2, Handles)}
\* Four drags, and a thin photo: frames that are less than the least size.
Strained == {Photo(FALSE, 1, 4, 2, 1, 1, 4, {<<"second", "none">>, <<"none", "first">>}),
             Photo(FALSE, 1, 4, 1, 1, 1, 2, Handles)}
MCPhotos == Turned \cup Framed \cup Animated \cup Strained
===============================================================================
