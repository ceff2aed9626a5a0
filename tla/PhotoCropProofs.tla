---------------------------- MODULE PhotoCropProofs ----------------------------
(***************************************************************************)
(* For every viewport, least frame and photo, and any number of drags: the *)
(* frame of the crop tool stays on the photo, and is fit at rest; turns    *)
(* turn what is shown to the right; what is cropped is what was framed.    *)
(***************************************************************************)
EXTENDS PhotoCrop, TLAPS

-----------------------------------------------------------------------------
(* Turns and corrections of pictures, for pictures of every size *)

\* A picture is its size and what is at each of its places.
Formed(p) ==
    /\ p.width \in Nat /\ p.height \in Nat
    /\ p = [width |-> p.width, height |-> p.height, at |-> p.at]
    /\ p.at = [q \in Places(p.width, p.height) |-> p.at[q]]

\* Keeping or mirroring both directions, or exchanging them as well.
Straight == [xx: {1, -1}, xy: {0}, yx: {0}, yy: {1, -1}]
Across == [xx: {0}, xy: {1, -1}, yx: {1, -1}, yy: {0}]

\* A transform, and then a quarter to the right.
ThenRight(s) == [xx |-> -s.xy, xy |-> s.xx, yx |-> -s.yy, yy |-> s.yx]

\* What was counted from one end and is turned round is counted from the other.
LEMMA AlongBack ==
    ASSUME NEW sign \in {1, -1}, NEW length \in Nat, NEW k \in 0..length - 1
    PROVE  /\ Along(sign, k, length) \in 0..length - 1
           /\ Along(-1, k, length) \in 0..length - 1
           /\ Along(1, k, length) = k
           /\ Along(sign, Along(-1, k, length), length) = Along(-sign, k, length)
  BY DEF Along

\* QImage::transformed of a picture is a picture, of the same size or of the
\* size on its side.
LEMMA TransformedStraight ==
    ASSUME NEW p, NEW t \in Straight
    PROVE  Transformed(p, t) =
             [width |-> p.width, height |-> p.height,
              at |-> [q \in Places(p.width, p.height) |->
                        p.at[<<Along(t.xx, q[1], p.width),
                               Along(t.yy, q[2], p.height)>>]]]
  <1>1. t.xx # 0
    BY DEF Straight
  <1>2. QED
    BY <1>1 DEF Transformed

LEMMA TransformedAcross ==
    ASSUME NEW p, NEW t \in Across
    PROVE  Transformed(p, t) =
             [width |-> p.height, height |-> p.width,
              at |-> [q \in Places(p.height, p.width) |->
                        p.at[<<Along(t.xy, q[2], p.width),
                               Along(t.yx, q[1], p.height)>>]]]
  <1>1. t.xx = 0
    BY DEF Across
  <1>2. QED
    BY <1>1 DEF Transformed

LEMMA TransformedFormed ==
    ASSUME NEW p, Formed(p), NEW t \in Straight \cup Across
    PROVE  Formed(Transformed(p, t))
  <1>1. CASE t \in Straight
    BY <1>1, TransformedStraight DEF Formed
  <1>2. CASE t \in Across
    BY <1>2, TransformedAcross DEF Formed
  <1>3. QED
    BY <1>1, <1>2

\* The identity leaves a picture as it is.
LEMMA TransformedIdentity ==
    ASSUME NEW p, Formed(p)
    PROVE  Transformed(p, Identity) = p
  <1>1. Identity \in Straight /\ Identity.xx = 1 /\ Identity.yy = 1
    BY DEF Identity, Straight
  <1>2. \A q \in Places(p.width, p.height): p.at[<<Along(1, q[1], p.width),
                               Along(1, q[2], p.height)>>] = p.at[q]
    BY DEF Along, Places, Formed
  <1>3. [q \in Places(p.width, p.height) |->
           p.at[<<Along(1, q[1], p.width), Along(1, q[2], p.height)>>]] = p.at
    BY <1>2 DEF Formed
  <1>4. Transformed(p, Identity)
          = [width |-> p.width, height |-> p.height,
             at |-> [q \in Places(p.width, p.height) |->
                       p.at[<<Along(1, q[1], p.width),
                              Along(1, q[2], p.height)>>]]]
    BY <1>1, TransformedStraight
  <1>5. Transformed(p, Identity) = [width |-> p.width, height |-> p.height,
                                    at |-> p.at]
    BY <1>3, <1>4, Zenon
  <1>6. p = [width |-> p.width, height |-> p.height, at |-> p.at]
    BY DEF Formed
  <1>7. QED
    BY <1>5, <1>6, Zenon

\* Turning a transformed picture to the right is one transform.
LEMMA TurnedRight ==
    ASSUME NEW p, Formed(p), NEW s \in Straight \cup Across
    PROVE  Transformed(Transformed(p, s), QuarterRight) = Transformed(p, ThenRight(s))
  <1> DEFINE w == p.width
             h == p.height
  <1>1. /\ QuarterRight \in Across
        /\ QuarterRight.xy = 1 /\ QuarterRight.yx = -1
    BY DEF QuarterRight, Across
  <1>2. w \in Nat /\ h \in Nat
    BY DEF Formed
  <1>3. CASE s \in Straight
    <2> DEFINE r == Transformed(p, s)
    <2>1. ThenRight(s) \in Across
      BY <1>3 DEF ThenRight, Straight, Across
    <2>2. /\ ThenRight(s).xy = s.xx /\ ThenRight(s).yx = -s.yy
          /\ s.xx \in {1, -1} /\ s.yy \in {1, -1}
      BY <1>3 DEF ThenRight, Straight
    <2>3. r = [width |-> w, height |-> h,
               at |-> [q \in Places(w, h) |->
                         p.at[<<Along(s.xx, q[1], w), Along(s.yy, q[2], h)>>]]]
      BY <1>3, TransformedStraight
    <2>4. \A q \in Places(h, w):
            r.at[<<Along(1, q[2], w), Along(-1, q[1], h)>>]
              = p.at[<<Along(s.xx, q[2], w), Along(-s.yy, q[1], h)>>]
      <3>1. SUFFICES ASSUME NEW q \in Places(h, w)
                     PROVE  r.at[<<Along(1, q[2], w), Along(-1, q[1], h)>>]
                       = p.at[<<Along(s.xx, q[2], w), Along(-s.yy, q[1], h)>>]
        OBVIOUS
      <3>2. q[1] \in 0..h - 1 /\ q[2] \in 0..w - 1
        BY DEF Places
      <3> DEFINE k == Along(-1, q[1], h)
      <3>3. /\ k \in 0..h - 1 /\ Along(1, q[2], w) = q[2]
            /\ Along(s.yy, k, h) = Along(-s.yy, q[1], h)
        BY <1>2, <2>2, <3>2, AlongBack
      <3>4. <<q[2], k>> \in Places(w, h)
        BY <3>2, <3>3 DEF Places
      <3> HIDE DEF k, r
      <3>5. r.at[<<q[2], k>>] = p.at[<<Along(s.xx, q[2], w), Along(s.yy, k, h)>>]
        BY <2>3, <3>4
      <3>6. QED
        BY <3>3, <3>5 DEF k
    <2> HIDE DEF r, w, h
    <2>5. r.width = w /\ r.height = h
      BY <2>3
    <2>6. Transformed(r, QuarterRight)
            = [width |-> h, height |-> w,
               at |-> [q \in Places(h, w) |->
                         r.at[<<Along(1, q[2], w), Along(-1, q[1], h)>>]]]
      <3>1. Transformed(r, QuarterRight)
              = [width |-> r.height, height |-> r.width,
                 at |-> [q \in Places(r.height, r.width) |->
                           r.at[<<Along(QuarterRight.xy, q[2], r.width),
                                  Along(QuarterRight.yx, q[1], r.height)>>]]]
        BY <1>1, TransformedAcross, Zenon
      <3>2. QED
        BY <1>1, <2>5, <3>1, Zenon
    <2>7. Transformed(p, ThenRight(s))
            = [width |-> h, height |-> w,
               at |-> [q \in Places(h, w) |->
                         p.at[<<Along(s.xx, q[2], w), Along(-s.yy, q[1], h)>>]]]
      BY <2>1, <2>2, TransformedAcross, Zenon DEF w, h
    <2>8. [q \in Places(h, w) |->
             r.at[<<Along(1, q[2], w), Along(-1, q[1], h)>>]]
            = [q \in Places(h, w) |->
                 p.at[<<Along(s.xx, q[2], w), Along(-s.yy, q[1], h)>>]]
      BY <2>4, Zenon
    <2>9. QED
      BY <2>6, <2>7, <2>8, Zenon DEF r
  <1>4. CASE s \in Across
    <2> DEFINE r == Transformed(p, s)
    <2>1. ThenRight(s) \in Straight
      BY <1>4 DEF ThenRight, Straight, Across
    <2>2. /\ ThenRight(s).xx = -s.xy /\ ThenRight(s).yy = s.yx
          /\ s.xy \in {1, -1} /\ s.yx \in {1, -1}
      BY <1>4 DEF ThenRight, Across
    <2>3. r = [width |-> h, height |-> w,
               at |-> [q \in Places(h, w) |->
                         p.at[<<Along(s.xy, q[2], w), Along(s.yx, q[1], h)>>]]]
      BY <1>4, TransformedAcross
    <2>4. \A q \in Places(w, h):
            r.at[<<Along(1, q[2], h), Along(-1, q[1], w)>>]
              = p.at[<<Along(-s.xy, q[1], w), Along(s.yx, q[2], h)>>]
      <3>1. SUFFICES ASSUME NEW q \in Places(w, h)
                     PROVE  r.at[<<Along(1, q[2], h), Along(-1, q[1], w)>>]
                       = p.at[<<Along(-s.xy, q[1], w), Along(s.yx, q[2], h)>>]
        OBVIOUS
      <3>2. q[1] \in 0..w - 1 /\ q[2] \in 0..h - 1
        BY DEF Places
      <3> DEFINE k == Along(-1, q[1], w)
      <3>3. /\ k \in 0..w - 1 /\ Along(1, q[2], h) = q[2]
            /\ Along(s.xy, k, w) = Along(-s.xy, q[1], w)
        BY <1>2, <2>2, <3>2, AlongBack
      <3>4. <<q[2], k>> \in Places(h, w)
        BY <3>2, <3>3 DEF Places
      <3> HIDE DEF k, r
      <3>5. r.at[<<q[2], k>>] = p.at[<<Along(s.xy, k, w), Along(s.yx, q[2], h)>>]
        BY <2>3, <3>4
      <3>6. QED
        BY <3>3, <3>5 DEF k
    <2> HIDE DEF r, w, h
    <2>5. r.width = h /\ r.height = w
      BY <2>3
    <2>6. Transformed(r, QuarterRight)
            = [width |-> w, height |-> h,
               at |-> [q \in Places(w, h) |->
                         r.at[<<Along(1, q[2], h), Along(-1, q[1], w)>>]]]
      <3>1. Transformed(r, QuarterRight)
              = [width |-> r.height, height |-> r.width,
                 at |-> [q \in Places(r.height, r.width) |->
                           r.at[<<Along(QuarterRight.xy, q[2], r.width),
                                  Along(QuarterRight.yx, q[1], r.height)>>]]]
        BY <1>1, TransformedAcross, Zenon
      <3>2. QED
        BY <1>1, <2>5, <3>1, Zenon
    <2>7. Transformed(p, ThenRight(s))
            = [width |-> w, height |-> h,
               at |-> [q \in Places(w, h) |->
                         p.at[<<Along(-s.xy, q[1], w), Along(s.yx, q[2], h)>>]]]
      BY <2>1, <2>2, TransformedStraight, Zenon DEF w, h
    <2>8. [q \in Places(w, h) |->
             r.at[<<Along(1, q[2], h), Along(-1, q[1], w)>>]]
            = [q \in Places(w, h) |->
                 p.at[<<Along(-s.xy, q[1], w), Along(s.yx, q[2], h)>>]]
      BY <2>4, Zenon
    <2>9. QED
      BY <2>6, <2>7, <2>8, Zenon DEF r
  <1>5. QED
    BY <1>3, <1>4

-----------------------------------------------------------------------------
(* The frame *)

Drags == [sideX: {"none", "first", "second"},
          sideY: {"none", "first", "second"},
          frame: Frames, zoom: Int, ticked: BOOLEAN]

OverlayTypes ==
    /\ extent \in [width: Int, height: Int]
    /\ frame \in Frames
    /\ zoom \in Int
    /\ fit = NoFit \/ fit \in Fits
    /\ drag = NoDrag \/ drag \in Drags

\* The photo's file has a size, of which the tool is opened.
Sized(picture) == picture.width \in Int /\ picture.height \in Int
FileSized == photo \in Photos /\ Sized(file.picture)

\* What is animated to is on the photo as well: the animation will put the
\* frame back there.
OnPhoto ==
    ~strained => Inside(frame) /\ (fit # NoFit => Inside(fit.frame))

\* An animation ends with the zoom that fits its frame.
EndsFit == fit # NoFit => fit.to = Zoom(fit.frame)

\* A drag that saw no animation began with a frame that was fit, or after one
\* that was not.
BeganFit ==
    drag # NoDrag /\ ~drag.ticked /\ fit = NoFit /\ ~returned
      => drag.zoom = Zoom(drag.frame)

CropInv ==
    /\ FileSized
    /\ OverlayTypes
    /\ OnPhoto
    /\ EndsFit
    /\ BeganFit
    /\ FitOrUser

-----------------------------------------------------------------------------
(* What the helpers do. *)

\* The greater of two numbers is one of them.
LEMMA MaxOfTwo ==
    ASSUME NEW a \in Int, NEW b \in Int
    PROVE  Max({a, b}) \in Int
  <1> DEFINE S == {a, b}
  <1>1. \E x \in S: \A y \in S: x >= y
    <2>1. CASE a >= b
      BY <2>1
    <2>2. CASE ~(a >= b)
      BY <2>2
    <2>3. QED
      BY <2>1, <2>2
  <1>2. Max(S) \in S
    BY <1>1 DEF Max
  <1>3. QED
    BY <1>2

LEMMA MinOfTwo ==
    ASSUME NEW a \in Int, NEW b \in Int
    PROVE  Min({a, b}) \in Int
  <1> DEFINE S == {a, b}
  <1>1. \E x \in S: \A y \in S: x =< y
    <2>1. CASE a <= b
      BY <2>1
    <2>2. CASE ~(a <= b)
      BY <2>2
    <2>3. QED
      BY <2>1, <2>2
  <1>2. Min(S) \in S
    BY <1>1 DEF Min
  <1>3. QED
    BY <1>2

\* fitRect: the zoom of a size is a number, and the same wherever the frame is.
LEMMA ZoomIsInt ==
    ASSUME NEW size, size.width \in Int, size.height \in Int
    PROVE  Zoom(size) \in Int
  <1>1. size.width * ViewHeight \in Int /\ size.height * ViewWidth \in Int
    BY ViewAssumption
  <1>2. QED
    BY <1>1, MaxOfTwo DEF Zoom

LEMMA ZoomOfSize ==
    ASSUME NEW a, NEW b, a.width = b.width, a.height = b.height
    PROVE  Zoom(a) = Zoom(b)
  BY DEF Zoom

LEMMA ProductIsPositive ==
    ASSUME NEW a \in Nat \ {0}, NEW b \in Nat \ {0}
    PROVE  a * b \in Nat \ {0}
  BY SMT

\* minSize is a number at every zoom.
LEMMA LeastIsInt ==
    ASSUME NEW z \in Int
    PROVE  Least(z) \in Int
  <1>1. ViewWidth * ViewHeight \in Nat \ {0}
    BY ViewAssumption, ProductIsPositive
  <1>2. MinSize * z + ViewWidth * ViewHeight - 1 \in Int
    <2>1. MinSize * z \in Int
      BY ViewAssumption
    <2>2. QED
      BY <1>1, <2>1
  <1>3. \A n \in Int, d \in Nat \ {0}: n \div d \in Int
    BY SMT
  <1>4. QED
    BY <1>1, <1>2, <1>3 DEF Least

\* resizeFrame keeps what lies between 0 and the length of the photo there,
\* unless the first side of less than the least is pulled.
LEMMA ResizedStays ==
    ASSUME NEW side \in {"first", "second"}, NEW delta \in Int,
           NEW from \in Int, NEW span \in Int, NEW length \in Int,
           NEW least \in Int
    PROVE  LET r == Resized(side, delta, from, span, length, least)
           IN  /\ r[1] \in Int /\ r[2] \in Int
               /\ from >= 0 /\ from + span <= length
                    /\ (side = "second" \/ span >= least)
                  => r[1] >= 0 /\ r[1] + r[2] <= length
  <1>1. CASE side = "first"
    BY <1>1 DEF Resized
  <1>2. CASE side = "second"
    BY <1>2 DEF Resized
  <1>3. QED
    BY <1>1, <1>2

\* resizedX and resizedY make a frame, on the photo if the one before was.
LEMMA ResizedToStays ==
    ASSUME OverlayTypes, drag # NoDrag, NEW dx \in Int, NEW dy \in Int
    PROVE  LET r == ResizedTo(drag.sideX, drag.sideY, dx, dy)
           IN  /\ r \in Frames
               /\ Inside(frame)
                    /\ (drag.sideX = "first" => frame.width >= Least(zoom))
                    /\ (drag.sideY = "first" => frame.height >= Least(zoom))
                  => Inside(r)
  <1> DEFINE h == IF drag.sideX = "none" THEN <<frame.x, frame.width>>
                  ELSE Resized(drag.sideX, dx, frame.x, frame.width,
                               extent.width, Least(zoom))
             v == IF drag.sideY = "none" THEN <<frame.y, frame.height>>
                  ELSE Resized(drag.sideY, dy, frame.y, frame.height,
                               extent.height, Least(zoom))
             r == ResizedTo(drag.sideX, drag.sideY, dx, dy)
  <1>1. /\ drag \in Drags
        /\ frame.x \in Int /\ frame.y \in Int
        /\ frame.width \in Int /\ frame.height \in Int
        /\ extent.width \in Int /\ extent.height \in Int
        /\ Least(zoom) \in Int
    BY LeastIsInt DEF OverlayTypes, Frames
  <1>2. /\ h[1] \in Int /\ h[2] \in Int
        /\ frame.x >= 0 /\ frame.x + frame.width <= extent.width
             /\ (drag.sideX = "first" => frame.width >= Least(zoom))
           => h[1] >= 0 /\ h[1] + h[2] <= extent.width
    <2>1. CASE drag.sideX = "none"
      BY <1>1, <2>1
    <2>2. CASE drag.sideX \in {"first", "second"}
      BY <1>1, <2>2, ResizedStays
    <2>3. QED
      BY <1>1, <2>1, <2>2 DEF Drags
  <1>3. /\ v[1] \in Int /\ v[2] \in Int
        /\ frame.y >= 0 /\ frame.y + frame.height <= extent.height
             /\ (drag.sideY = "first" => frame.height >= Least(zoom))
           => v[1] >= 0 /\ v[1] + v[2] <= extent.height
    <2>1. CASE drag.sideY = "none"
      BY <1>1, <2>1
    <2>2. CASE drag.sideY \in {"first", "second"}
      BY <1>1, <2>2, ResizedStays
    <2>3. QED
      BY <1>1, <2>1, <2>2 DEF Drags
  <1>4. r = [x |-> h[1], width |-> h[2], y |-> v[1], height |-> v[2]]
    BY DEF ResizedTo
  <1> HIDE DEF h, v
  <1>5. r \in Frames
    BY <1>2, <1>3, <1>4 DEF Frames
  <1>6. r.x = h[1] /\ r.width = h[2] /\ r.y = v[1] /\ r.height = v[2]
    BY <1>4
  <1>7. QED
    BY <1>2, <1>3, <1>5, <1>6 DEF Inside

-----------------------------------------------------------------------------
(* The steps of the overlay. *)

\* An animation that is started goes on from here to where the frame fits.
LEMMA AlteredFits ==
    ASSUME zoom \in Int, frame' \in Frames, Altered
    PROVE  /\ fit' \in Fits /\ fit' # NoFit
           /\ fit'.frame = frame' /\ fit'.to = Zoom(frame')
  <1>1. Zoom(frame') \in Int
    BY ZoomIsInt DEF Frames
  <1>2. fit' \in Fits
    BY <1>1 DEF Altered, Fits
  <1>3. QED
    BY <1>2, FitAssumption DEF Altered

LEMMA StatusReadyKeeps ==
    ASSUME CropInv, StatusReady, UNCHANGED photoVars
    PROVE  CropInv'
  <1>1. extent.width \in Int /\ extent.height \in Int
    BY DEF CropInv, OverlayTypes
  <1>2. /\ frame' = [x |-> 0, y |-> 0, width |-> extent.width,
                     height |-> extent.height]
        /\ zoom' = Zoom(extent)
        /\ UNCHANGED <<photo, file, extent, drag, fit, strained, returned>>
    BY DEF StatusReady, Whole, photoVars
  <1>3. frame' \in Frames /\ zoom' \in Int /\ zoom' = Zoom(frame')
    BY <1>1, <1>2, ZoomIsInt, ZoomOfSize DEF Frames
  <1>4. Inside(frame)'
    BY <1>1, <1>2 DEF Inside
  <1>5. OnPhoto'
    BY <1>2, <1>4 DEF CropInv, OnPhoto, Inside
  <1>6. OverlayTypes' /\ FileSized'
    BY <1>2, <1>3 DEF CropInv, OverlayTypes, FileSized
  <1>7. EndsFit' /\ BeganFit' /\ FitOrUser'
    BY <1>2, <1>3 DEF CropInv, EndsFit, BeganFit, FitOrUser, Zoom
  <1>8. QED
    BY <1>5, <1>6, <1>7 DEF CropInv

\* A drag begins with a frame that is fit unless an animation is on.
LEMMA DragStartedKeeps ==
    ASSUME CropInv, NEW handle \in Handles, DragStarted(handle),
           UNCHANGED photoVars
    PROVE  CropInv'
  <1>1. /\ drag = NoDrag
        /\ drag' = [sideX |-> handle[1], sideY |-> handle[2],
                    frame |-> frame, zoom |-> zoom, ticked |-> FALSE]
        /\ UNCHANGED <<photo, file, extent, frame, zoom, fit, strained, returned>>
    BY DEF DragStarted, photoVars
  <1>2. drag' \in Drags
    BY <1>1 DEF CropInv, OverlayTypes, Drags, Handles
  <1>3. OverlayTypes' /\ FileSized'
    BY <1>1, <1>2 DEF CropInv, OverlayTypes, FileSized
  <1>4. OnPhoto' /\ EndsFit'
    BY <1>1 DEF CropInv, OnPhoto, EndsFit, Inside, Zoom
  <1>5. drag'.zoom = zoom /\ drag'.frame = frame
    BY <1>1
  <1>6. FitOrUser'
    BY <1>1 DEF CropInv, FitOrUser, Zoom
  <1>7. BeganFit'
    BY <1>1, <1>5 DEF CropInv, FitOrUser, BeganFit, Zoom
  <1>8. QED
    BY <1>3, <1>4, <1>6, <1>7 DEF CropInv

\* A frame that is pulled stays on the photo, or is strained from then on; a
\* frame that grew is animated to where it fits.
LEMMA DraggedKeeps ==
    ASSUME CropInv, NEW dx \in Int, NEW dy \in Int, Dragged(dx, dy),
           UNCHANGED photoVars
    PROVE  CropInv'
  <1>1. /\ drag # NoDrag
        /\ frame' = ResizedTo(drag.sideX, drag.sideY, dx, dy)
        /\ Altered \/ UNCHANGED fit
        /\ strained' = (\/ strained
                        \/ drag.sideX = "first" /\ frame.width < Least(zoom)
                        \/ drag.sideY = "first" /\ frame.height < Least(zoom))
        /\ UNCHANGED <<photo, file, extent, zoom, drag, returned>>
    BY DEF Dragged, UpdateOnAltered, photoVars
  <1>2. /\ frame \in Frames /\ zoom \in Int
        /\ frame.width \in Int /\ frame.height \in Int /\ Least(zoom) \in Int
    BY LeastIsInt DEF CropInv, OverlayTypes, Frames
  <1>3. frame' \in Frames
    BY <1>1, ResizedToStays DEF CropInv
  <1>4. ~strained' => Inside(frame)'
    <2>1. SUFFICES ASSUME ~strained' PROVE Inside(frame')
      BY <1>1 DEF Inside
    <2>2. /\ ~strained
          /\ drag.sideX = "first" => frame.width >= Least(zoom)
          /\ drag.sideY = "first" => frame.height >= Least(zoom)
      BY <1>1, <1>2, <2>1
    <2>3. QED
      BY <1>1, <2>2, ResizedToStays DEF CropInv, OnPhoto
  <1>5. fit' # fit => fit' \in Fits /\ fit'.frame = frame' /\ fit'.to = Zoom(frame')
    BY <1>1, <1>2, <1>3, AlteredFits
  <1>6. OnPhoto'
    <2>1. SUFFICES ASSUME ~strained' PROVE Inside(frame') /\ (fit' # NoFit => Inside(fit'.frame))
      BY <1>1 DEF OnPhoto, Inside
    <2>2. Inside(frame')
      BY <1>1, <1>4, <2>1 DEF Inside
    <2>3. fit # NoFit => Inside(fit.frame)
      BY <1>1, <2>1 DEF CropInv, OnPhoto
    <2>4. QED
      BY <1>5, <2>2, <2>3
  <1>7. OverlayTypes' /\ FileSized'
    BY <1>1, <1>3, <1>5 DEF CropInv, OverlayTypes, FileSized
  <1>8. EndsFit'
    <2>1. CASE fit' = fit
      BY <2>1 DEF CropInv, EndsFit, Zoom
    <2>2. CASE fit' # fit
      BY <1>5, <2>2 DEF EndsFit, Zoom
    <2>3. QED
      BY <2>1, <2>2
  <1>9. BeganFit'
    <2>1. CASE fit' = fit
      BY <1>1, <2>1 DEF CropInv, BeganFit, Zoom
    <2>2. CASE fit' # fit
      BY <1>5, <2>2, FitAssumption DEF BeganFit
    <2>3. QED
      BY <2>1, <2>2
  <1>10. FitOrUser'
    BY <1>1 DEF FitOrUser
  <1>11. QED
    BY <1>6, <1>7, <1>8, <1>9, <1>10 DEF CropInv

\* The end of a drag: what was changed is animated, and what was not is fit
\* as it was when the drag began, unless the photo was shifted under it.
LEMMA DragCompletedKeeps ==
    ASSUME CropInv, DragCompleted, UNCHANGED photoVars
    PROVE  CropInv'
  <1>1. /\ drag # NoDrag /\ drag' = NoDrag
        /\ UNCHANGED <<photo, file, extent, frame, zoom, strained>>
    BY DEF DragCompleted, photoVars
  <1>2. frame' \in Frames /\ zoom \in Int /\ drag \in Drags
    BY <1>1 DEF CropInv, OverlayTypes
  <1>3. PICK equal \in Equal:
          /\ UpdateOnAltered(equal, TRUE)
          /\ returned' = (equal /\ (returned \/ Shifted))
    BY DEF DragCompleted
  <1>4. CASE equal
    <2>1. fit' = fit
      BY <1>1, <1>3, <1>4 DEF UpdateOnAltered
    <2>2. ~returned' => /\ ~returned /\ ~drag.ticked
                        /\ zoom = drag.zoom /\ frame = drag.frame
      BY <1>1, <1>3, <1>4 DEF Shifted, Equal
    <2>3. OverlayTypes' /\ FileSized' /\ OnPhoto'
      BY <1>1, <2>1 DEF CropInv, OverlayTypes, FileSized, OnPhoto, Inside
    <2>4. EndsFit' /\ BeganFit'
      BY <1>1, <2>1 DEF CropInv, EndsFit, BeganFit, Zoom
    <2>5. FitOrUser'
      BY <1>1, <2>1, <2>2 DEF CropInv, FitOrUser, BeganFit, Zoom
    <2>6. QED
      BY <2>3, <2>4, <2>5 DEF CropInv
  <1>5. CASE ~equal
    <2>1. Altered
      BY <1>3, <1>5 DEF UpdateOnAltered
    <2>2. /\ fit' \in Fits /\ fit' # NoFit
          /\ fit'.frame = frame' /\ fit'.to = Zoom(frame')
      BY <1>2, <2>1, AlteredFits
    <2>3. OverlayTypes' /\ FileSized'
      BY <1>1, <2>2 DEF CropInv, OverlayTypes, FileSized
    <2>4. OnPhoto'
      BY <1>1, <2>2 DEF CropInv, OnPhoto, Inside
    <2>5. EndsFit' /\ BeganFit' /\ FitOrUser'
      BY <1>1, <2>2 DEF EndsFit, BeganFit, FitOrUser, Zoom
    <2>6. QED
      BY <2>3, <2>4, <2>5 DEF CropInv
  <1>6. QED
    BY <1>4, <1>5

\* An animation has the frame it began with, and its zoom at the end.
LEMMA InterpolatedKeeps ==
    ASSUME CropInv, NEW last \in BOOLEAN, Interpolated(last), UNCHANGED photoVars
    PROVE  CropInv'
  <1>1. /\ fit # NoFit
        /\ frame' = fit.frame
        /\ zoom' = IF last THEN fit.to ELSE (fit.from + fit.to) \div 2
        /\ fit' = IF last THEN NoFit ELSE fit
        /\ drag' = IF drag = NoDrag THEN drag ELSE [drag EXCEPT !.ticked = TRUE]
        /\ UNCHANGED <<photo, file, extent, strained, returned>>
    BY DEF Interpolated, photoVars
  <1>2. fit \in Fits /\ fit.frame \in Frames /\ fit.from \in Int /\ fit.to \in Int
    BY <1>1 DEF CropInv, OverlayTypes, Fits
  <1>3. zoom' \in Int
    BY <1>1, <1>2
  <1>4. drag' = NoDrag \/ (drag' \in Drags /\ drag'.ticked)
    <2>1. CASE drag = NoDrag
      BY <1>1, <2>1
    <2>2. CASE drag # NoDrag
      <3>1. drag \in Drags /\ drag' = [drag EXCEPT !.ticked = TRUE]
        BY <1>1, <2>2 DEF CropInv, OverlayTypes
      <3>2. QED
        BY <3>1 DEF Drags
    <2>3. QED
      BY <2>1, <2>2
  <1>5. OverlayTypes' /\ FileSized'
    BY <1>1, <1>2, <1>3, <1>4 DEF CropInv, OverlayTypes, FileSized
  <1>6. OnPhoto'
    BY <1>1 DEF CropInv, OnPhoto, Inside
  <1>7. EndsFit'
    BY <1>1 DEF CropInv, EndsFit, Zoom
  <1>8. BeganFit'
    BY <1>4 DEF BeganFit
  <1>9. FitOrUser'
    BY <1>1 DEF CropInv, FitOrUser, EndsFit, Zoom
  <1>10. QED
    BY <1>5, <1>6, <1>7, <1>8, <1>9 DEF CropInv

\* updatePan moves the photo under the frame, which keeps its size.
LEMMA UpdatePanKeeps ==
    ASSUME CropInv, UpdatePan, UNCHANGED photoVars
    PROVE  CropInv'
  <1>1. PICK x \in Offsets(frame.width, extent.width),
             y \in Offsets(frame.height, extent.height):
               frame' = [frame EXCEPT !.x = x, !.y = y]
    BY DEF UpdatePan
  <1>2. UNCHANGED <<photo, file, extent, zoom, drag, fit, strained, returned>>
        /\ drag = NoDrag
    BY DEF UpdatePan, photoVars
  <1>3. /\ frame \in Frames
        /\ frame.x \in Int /\ frame.y \in Int
        /\ frame.width \in Int /\ frame.height \in Int
        /\ extent.width \in Int /\ extent.height \in Int
    BY DEF CropInv, OverlayTypes, Frames
  <1>4. /\ x \in Int /\ (frame.width <= extent.width
                           => x >= 0 /\ x + frame.width <= extent.width)
        /\ y \in Int /\ (frame.height <= extent.height
                           => y >= 0 /\ y + frame.height <= extent.height)
    BY <1>3 DEF Offsets
  <1>5. /\ frame' \in Frames /\ frame'.x = x /\ frame'.y = y
        /\ frame'.width = frame.width /\ frame'.height = frame.height
    BY <1>1, <1>3, <1>4 DEF Frames
  <1>6. Inside(frame) => Inside(frame')
    BY <1>3, <1>4, <1>5 DEF Inside
  <1>7. OnPhoto'
    BY <1>2, <1>6 DEF CropInv, OnPhoto, Inside
  <1>8. OverlayTypes' /\ FileSized'
    BY <1>2, <1>5 DEF CropInv, OverlayTypes, FileSized
  <1>9. Zoom(frame') = Zoom(frame)
    BY <1>5, ZoomOfSize
  <1>10. EndsFit' /\ BeganFit' /\ FitOrUser'
    BY <1>2, <1>9 DEF CropInv, EndsFit, BeganFit, FitOrUser, Zoom
  <1>11. QED
    BY <1>7, <1>8, <1>10 DEF CropInv

-----------------------------------------------------------------------------
(* Edits, and the overlay that is opened on what they leave. *)

LEMMA TransformedSized ==
    ASSUME NEW picture, NEW t, Sized(picture)
    PROVE  Sized(Transformed(picture, t))
  BY DEF Sized, Transformed

LEMMA TakenSized ==
    ASSUME photo \in Photos
    PROVE  Sized(Taken(photo).picture) /\ photo.grain \in Int
  BY PhotosAssumption DEF Sized, Taken

\* What the viewer shows of a file with a size has one.
LEMMA ShownSizeIsSize ==
    ASSUME photo \in Photos, NEW f, Sized(f.picture)
    PROVE  ShownSize(f) \in [width: Int, height: Int]
  <1>1. Sized(Shown(f))
    BY TransformedSized DEF Shown
  <1>2. photo.grain \in Int
    BY TakenSized
  <1>3. QED
    BY <1>1, <1>2 DEF ShownSize, Sized

\* The thread's image has a size, cropped or not.
LEMMA UprightSized ==
    ASSUME FileSized
    PROVE  Sized(Upright)
  BY TransformedSized DEF Upright, FileSized

LEMMA PixelsAreInt ==
    ASSUME photo \in Photos, NEW value \in Int, NEW length \in Int
    PROVE  Pixels(value, length) \in Int
  <1>1. photo.grain \in {1, 2}
    BY PhotosAssumption
  <1>2. length * photo.grain \in Int
    BY <1>1
  <1>3. Min({value, length * photo.grain}) \in Int
    BY <1>2, MinOfTwo
  <1>4. Max({0, Min({value, length * photo.grain})}) \in Int
    BY <1>3, MaxOfTwo
  <1>5. \A n \in Int, d \in {1, 2}: n \div d \in Int
    BY SMT
  <1>6. QED
    BY <1>1, <1>4, <1>5 DEF Pixels

LEMMA CroppedSized ==
    ASSUME CropInv
    PROVE  Cropped(frame) = NoPicture \/ Sized(Cropped(frame))
  <1> DEFINE image == Upright
             left == Pixels(frame.x, image.width)
             top == Pixels(frame.y, image.height)
             width == Pixels(frame.width, image.width)
             height == Pixels(frame.height, image.height)
  <1>1. Sized(image)
    BY UprightSized DEF CropInv
  <1>2. width \in Int /\ height \in Int
    BY <1>1, PixelsAreInt DEF CropInv, FileSized, OverlayTypes, Frames, Sized
  <1> HIDE DEF image, left, top, width, height
  <1>3. Sized(Part(image, left, top, width, height))
    BY <1>2 DEF Part, Sized
  <1>4. Copy(image, left, top, width, height) = NoPicture
          \/ Sized(Copy(image, left, top, width, height))
    BY <1>1, <1>3 DEF Copy
  <1>5. QED
    BY <1>4 DEF Cropped, image, left, top, width, height

LEMMA SavedSized ==
    ASSUME FileSized, NEW image, image = NoPicture \/ Sized(image),
           Edit(Saved(image))
    PROVE  FileSized'
  <1>1. photo' = photo /\ file' = Saved(image)
    BY DEF Edit
  <1>2. Sized(Saved(image).picture)
    BY DEF Saved, FileSized
  <1>3. QED
    BY <1>1, <1>2 DEF FileSized, Sized

\* Edits that are made while no overlay is there leave it alone.
LEMMA OverlayUnchanged ==
    ASSUME CropInv, UNCHANGED overlayVars, FileSized'
    PROVE  CropInv'
  BY DEF CropInv, overlayVars, OverlayTypes, OnPhoto, EndsFit, BeganFit,
         FitOrUser, Inside, Zoom

\* A new overlay has the whole photo in its frame, which is fit.
LEMMA OpenedIsFit ==
    ASSUME FileSized', NEW size \in [width: Int, height: Int], NEW bound,
           Opened(size, bound)
    PROVE  CropInv'
  <1>1. /\ extent' = size
        /\ frame' = [x |-> 0, y |-> 0, width |-> size.width,
                     height |-> size.height]
        /\ zoom' = Zoom(size) /\ drag' = NoDrag /\ fit' = NoFit
        /\ ~strained' /\ ~returned'
    BY DEF Opened
  <1>2. size.width \in Int /\ size.height \in Int
    OBVIOUS
  <1>3. frame' \in Frames /\ zoom' \in Int /\ zoom' = Zoom(frame')
    BY <1>1, <1>2, ZoomIsInt, ZoomOfSize DEF Frames
  <1>4. Inside(frame)'
    BY <1>1, <1>2 DEF Inside
  <1>5. OverlayTypes'
    BY <1>1, <1>3 DEF OverlayTypes
  <1>6. OnPhoto' /\ EndsFit' /\ BeganFit' /\ FitOrUser'
    BY <1>1, <1>3, <1>4 DEF OnPhoto, EndsFit, BeganFit, FitOrUser, Zoom, Inside
  <1>7. QED
    BY <1>5, <1>6 DEF CropInv

LEMMA EditsKeep ==
    ASSUME CropInv, RotateRight \/ Recolour \/ RestoreSnapshot
    PROVE  CropInv'
  <1>1. FileSized
    BY DEF CropInv
  <1>2. CASE RotateRight
    <2>1. PICK rotated:
            \/ Edit([file EXCEPT !.tag = rotated])
            \/ Edit(Saved(Transformed(file.picture,
                                      ToTransform(Correction[rotated]))))
      BY <1>2 DEF RotateRight
    <2>2. CASE Edit([file EXCEPT !.tag = rotated])
      <3>1. photo' = photo /\ file' = [file EXCEPT !.tag = rotated]
        BY <2>2 DEF Edit
      <3>2. file'.picture = file.picture
        BY <3>1
      <3>3. FileSized'
        BY <1>1, <3>1, <3>2 DEF FileSized, Sized
      <3>4. QED
        BY <1>2, <3>3, OverlayUnchanged DEF RotateRight
    <2>3. CASE Edit(Saved(Transformed(file.picture,
                                      ToTransform(Correction[rotated]))))
      <3>1. FileSized'
        BY <1>1, <2>3, TransformedSized, SavedSized DEF FileSized
      <3>2. QED
        BY <1>2, <3>1, OverlayUnchanged DEF RotateRight
    <2>4. QED
      BY <2>1, <2>2, <2>3
  <1>3. CASE Recolour
    <2>1. FileSized'
      BY <1>1, <1>3, UprightSized, SavedSized DEF Recolour
    <2>2. QED
      BY <1>3, <2>1, OverlayUnchanged DEF Recolour
  <1>4. CASE RestoreSnapshot
    <2>1. FileSized'
      BY <1>1, <1>4, TakenSized DEF RestoreSnapshot, FileSized, Sized
    <2>2. QED
      BY <1>4, <2>1, OverlayUnchanged DEF RestoreSnapshot
  <1>5. QED
    BY <1>2, <1>3, <1>4

\* Opening and closing the tool.
LEMMA ToolKeeps ==
    ASSUME CropInv, StartCropping \/ CropButtonPressed \/ MatteRegionPressed
    PROVE  CropInv'
  <1>1. FileSized /\ photo \in Photos
    BY DEF CropInv, FileSized
  <1>2. CASE StartCropping
    <2>1. FileSized'
      BY <1>1, <1>2 DEF StartCropping, photoVars, FileSized, Sized
    <2>2. ShownSize(file) \in [width: Int, height: Int]
      BY <1>1, ShownSizeIsSize DEF FileSized
    <2>3. QED
      BY <1>2, <2>1, <2>2, OpenedIsFit DEF StartCropping
  <1>3. ShownSize(Taken(photo)) \in [width: Int, height: Int]
    BY <1>1, TakenSized, ShownSizeIsSize
  <1>4. CASE CropButtonPressed
    <2>1. FileSized'
      BY <1>1, <1>4, CroppedSized, SavedSized DEF CropButtonPressed
    <2>2. QED
      BY <1>3, <1>4, <2>1, OpenedIsFit DEF CropButtonPressed, Closed
  <1>5. CASE MatteRegionPressed
    <2>1. FileSized'
      BY <1>1, <1>5 DEF MatteRegionPressed, photoVars, FileSized, Sized
    <2>2. QED
      BY <1>3, <1>5, <2>1, OpenedIsFit DEF MatteRegionPressed, Closed
  <1>6. QED
    BY <1>2, <1>4, <1>5

LEMMA OverlayKeeps ==
    ASSUME CropInv, OverlayNext, UNCHANGED photoVars
    PROVE  CropInv'
  <1>1. CASE drag # NoDrag /\ \E dx \in Deltas(drag.sideX, extent.width),
                                dy \in Deltas(drag.sideY, extent.height):
                                  Dragged(dx, dy)
    <2>1. extent.width \in Int /\ extent.height \in Int
      BY DEF CropInv, OverlayTypes
    <2>2. /\ Deltas(drag.sideX, extent.width) \subseteq Int
          /\ Deltas(drag.sideY, extent.height) \subseteq Int
      BY <2>1 DEF Deltas
    <2>3. QED
      BY <1>1, <2>2, DraggedKeeps
  <1>2. CASE StatusReady \/ DragCompleted \/ UpdatePan
    BY <1>2, StatusReadyKeeps, DragCompletedKeeps, UpdatePanKeeps
  <1>3. CASE \E handle \in Handles: DragStarted(handle)
    BY <1>3, DragStartedKeeps
  <1>4. CASE \E last \in BOOLEAN: Interpolated(last)
    BY <1>4, InterpolatedKeeps
  <1>5. QED
    BY <1>1, <1>2, <1>3, <1>4 DEF OverlayNext

-----------------------------------------------------------------------------
LEMMA InitIsFit == Init => CropInv
  <1>1. SUFFICES ASSUME Init PROVE CropInv
    OBVIOUS
  <1>2. FileSized
    BY <1>1, TakenSized DEF Init, FileSized
  <1>3. ShownSize(file) \in [width: Int, height: Int]
    BY <1>1, <1>2, ShownSizeIsSize DEF Init, FileSized
  <1> DEFINE size == ShownSize(file)
  <1>4. /\ extent = size
        /\ frame = [x |-> 0, y |-> 0, width |-> size.width,
                    height |-> size.height]
        /\ zoom = Zoom(size) /\ drag = NoDrag /\ fit = NoFit
        /\ ~strained /\ ~returned
    BY <1>1 DEF Init, OverlayInit
  <1>5. size.width \in Int /\ size.height \in Int
    BY <1>3
  <1> HIDE DEF size
  <1>6. frame \in Frames /\ zoom \in Int /\ zoom = Zoom(frame)
    BY <1>4, <1>5, ZoomIsInt, ZoomOfSize DEF Frames
  <1>7. Inside(frame)
    BY <1>4, <1>5 DEF Inside
  <1>8. OverlayTypes
    BY <1>3, <1>4, <1>6 DEF OverlayTypes, size
  <1>9. OnPhoto /\ EndsFit /\ BeganFit /\ FitOrUser
    BY <1>4, <1>6, <1>7 DEF OnPhoto, EndsFit, BeganFit, FitOrUser
  <1>10. QED
    BY <1>2, <1>8, <1>9 DEF CropInv

\* Every state of a session is one CropInv describes.
THEOREM CropInvariant == Spec => []CropInv
  <1>1. Init => CropInv
    BY InitIsFit
  <1>2. CropInv /\ [Next]_vars => CropInv'
    <2>1. SUFFICES ASSUME CropInv, [Next]_vars PROVE CropInv'
      OBVIOUS
    <2>2. CASE RotateRight \/ Recolour \/ RestoreSnapshot
      BY <2>1, <2>2, EditsKeep
    <2>3. CASE StartCropping \/ CropButtonPressed \/ MatteRegionPressed
      BY <2>1, <2>3, ToolKeeps
    <2>4. CASE cropping /\ OverlayNext /\ UNCHANGED <<photoVars, cropping>>
      BY <2>1, <2>4, OverlayKeeps
    <2>5. CASE UNCHANGED vars
      BY <2>1, <2>5, OverlayUnchanged
      DEF vars, photoVars, CropInv, FileSized, Sized
    <2>6. QED
      BY <2>1, <2>2, <2>3, <2>4, <2>5 DEF Next
  <1>3. QED
    BY <1>1, <1>2, PTL DEF Spec

\* CropOverlay.qml:483-516: for every viewport, least size and photo, whatever
\* is dragged, panned and animated in whichever order, the frame stays on the
\* photo until a frame less than the least is pulled by its left or its top.
THEOREM FrameStaysOnPhoto == Spec => []FrameOnPhoto
  <1>1. CropInv => FrameOnPhoto
    BY DEF CropInv, OnPhoto, FrameOnPhoto
  <1>2. QED
    BY <1>1, CropInvariant, PTL

\* CropOverlay.qml:280-290: at rest the frame is fit into the viewport, however
\* drags and animations met, but after a drag that began in an animation and
\* ended, after it, where it had begun.
THEOREM FrameIsFit == Spec => []FitOrUser
  <1>1. CropInv => FitOrUser
    BY DEF CropInv
  <1>2. QED
    BY <1>1, CropInvariant, PTL

-----------------------------------------------------------------------------
(* What is shown. *)

Seen(p) == Formed(p) /\ p.width # 0 /\ p.height # 0

\* The file is a picture with pixels, of which PhotoData knows the orientation
\* and the crop tool, while it is there, the size.
Pictured ==
    /\ photo \in Photos
    /\ file = [picture |-> file.picture, tag |-> file.tag]
    /\ Seen(file.picture)
    /\ file.tag \in Orientations
    /\ orientation = file.tag
    /\ cropping => extent = ShownSize(file)

\* fromOrientation and toTransform agree with the viewer about all but the
\* transposed orientations.
LEMMA CorrectionShows ==
    ASSUME NEW tag \in Orientations \ Transposed
    PROVE  ToTransform(Correction[tag]) = Shows[tag]
  <1>1. tag \in {1, 2, 3, 4, 6, 8}
    BY DEF Orientations, Transposed
  <1>2. CASE tag = 1
    BY <1>2 DEF Correction, Shows, ToTransform, Sin, Cos, Identity
  <1>3. CASE tag = 2
    BY <1>3 DEF Correction, Shows, ToTransform, Sin, Cos
  <1>4. CASE tag = 3
    BY <1>4 DEF Correction, Shows, ToTransform, Sin, Cos
  <1>5. CASE tag = 4
    BY <1>5 DEF Correction, Shows, ToTransform, Sin, Cos
  <1>6. CASE tag = 6
    BY <1>6 DEF Correction, Shows, ToTransform, Sin, Cos, QuarterRight
  <1>7. CASE tag = 8
    BY <1>7 DEF Correction, Shows, ToTransform, Sin, Cos
  <1>8. QED
    BY <1>1, <1>2, <1>3, <1>4, <1>5, <1>6, <1>7

\* Every orientation is corrected by keeping, mirroring or exchanging the
\* directions, and so is what the viewer shows.
LEMMA TransformsAreStraightOrAcross ==
    ASSUME NEW tag \in Orientations
    PROVE  /\ ToTransform(Correction[tag]) \in Straight \cup Across
           /\ Shows[tag] \in Straight \cup Across
  <1>1. tag \in {1, 2, 3, 4, 5, 6, 7, 8}
    BY DEF Orientations
  <1>2. Shows[tag] \in Straight \cup Across
    BY <1>1 DEF Shows, Straight, Across, Identity, QuarterRight
  <1>3. CASE tag \in {5, 7}
    BY <1>2, <1>3 DEF Correction, ToTransform, Sin, Cos, Across
  <1>4. CASE tag \notin {5, 7}
    BY <1>2, <1>4, CorrectionShows DEF Transposed
  <1>5. QED
    BY <1>2, <1>3, <1>4

\* rotateOrientation, of the orientations that are not mirrored.
LEMMA RotatedRight ==
    /\ RotateOrientation(1) = 6 /\ RotateOrientation(6) = 3
    /\ RotateOrientation(3) = 8 /\ RotateOrientation(8) = 1
  <1>1. /\ SequenceA[1] = 1 /\ SequenceA[2] = 8
        /\ SequenceA[3] = 3 /\ SequenceA[4] = 6
    BY DEF SequenceA
  <1>2. DOMAIN SequenceA = 1..4
    BY DEF SequenceA
  <1>3. \A i \in 1..4: SequenceA[i] \in Range(SequenceA)
    BY <1>2, Zenon DEF Range
  <1>4. \A k \in 1..4: (CHOOSE i \in 1..4: SequenceA[i] = SequenceA[k]) = k
    <2>1. SUFFICES ASSUME NEW k \in 1..4
                   PROVE  (CHOOSE i \in 1..4: SequenceA[i] = SequenceA[k]) = k
      OBVIOUS
    <2>2. \A i \in 1..4: SequenceA[i] = SequenceA[k] => i = k
      BY <1>1
    <2>3. QED
      BY <2>2, Zenon
  <1>5. \A k \in 1..4: RotateOrientation(SequenceA[k])
                         = SequenceA[((k + 2) % 4) + 1]
    BY <1>3, <1>4, Zenon DEF RotateOrientation
  <1>6. QED
    BY <1>1, <1>5

LEMMA RotationTurnsRight ==
    ASSUME NEW tag \in Orientations \ Mirrored
    PROVE  Shows[RotateOrientation(tag)] = ThenRight(Shows[tag])
  <1>1. tag \in {1, 3, 6, 8}
    BY DEF Orientations, Mirrored
  <1>2. CASE tag = 1
    BY <1>2, RotatedRight DEF Shows, ThenRight, Identity, QuarterRight
  <1>3. CASE tag = 3
    BY <1>3, RotatedRight DEF Shows, ThenRight, Identity, QuarterRight
  <1>4. CASE tag = 6
    BY <1>4, RotatedRight DEF Shows, ThenRight, Identity, QuarterRight
  <1>5. CASE tag = 8
    BY <1>5, RotatedRight DEF Shows, ThenRight, Identity, QuarterRight
  <1>6. QED
    BY <1>1, <1>2, <1>3, <1>4, <1>5

LEMMA RotatedIsOrientation ==
    ASSUME NEW tag \in Orientations
    PROVE  RotateOrientation(tag) \in Orientations
  <1>1. CASE tag \notin Mirrored
    <2>1. tag \in {1, 3, 6, 8}
      BY <1>1 DEF Orientations, Mirrored
    <2>2. QED
      BY <2>1, RotatedRight DEF Orientations
  <1>2. CASE tag \in Mirrored
    <2>1. \A i \in 1..4: SequenceA[i] \in {1, 8, 3, 6}
      BY DEF SequenceA
    <2>2. DOMAIN SequenceA = 1..4
      BY DEF SequenceA
    <2>3. tag \notin {1, 8, 3, 6}
      BY <1>2 DEF Mirrored
    <2>4. tag \notin Range(SequenceA)
      BY <2>1, <2>2, <2>3, Zenon DEF Range
    <2>5. \E i \in 1..4: SequenceB[i] = tag
      <3>1. /\ SequenceB[1] = 2 /\ SequenceB[2] = 7
            /\ SequenceB[3] = 4 /\ SequenceB[4] = 5
        BY DEF SequenceB
      <3>2. QED
        BY <1>2, <3>1 DEF Mirrored
    <2> DEFINE current == CHOOSE i \in 1..4: SequenceB[i] = tag
    <2>6. current \in 1..4
      BY <2>5, Zenon
    <2>7. RotateOrientation(tag) = SequenceB[((current + 2) % 4) + 1]
      BY <2>4, Zenon DEF RotateOrientation
    <2>8. \A k \in 1..4: SequenceB[((k + 2) % 4) + 1] \in 1..8
      <3>1. \A k \in 1..4: ((k + 2) % 4) + 1 \in 1..4
        BY SMT
      <3>2. \A k \in 1..4: SequenceB[k] \in 1..8
        BY DEF SequenceB
      <3>3. QED
        BY <3>1, <3>2, Zenon
    <2> HIDE DEF current
    <2>9. QED
      BY <2>6, <2>7, <2>8, Zenon DEF Orientations
  <1>3. QED
    BY <1>1, <1>2

LEMMA TransformedSeen ==
    ASSUME NEW p, Seen(p), NEW t \in Straight \cup Across
    PROVE  Seen(Transformed(p, t))
  <1>1. Formed(Transformed(p, t))
    BY TransformedFormed DEF Seen
  <1>2. CASE t \in Straight
    BY <1>1, <1>2, TransformedStraight DEF Seen
  <1>3. CASE t \in Across
    BY <1>1, <1>3, TransformedAcross DEF Seen
  <1>4. QED
    BY <1>2, <1>3

\* The thread's image is a picture, and what is shown but for the transposed
\* orientations.
LEMMA UprightIsShown ==
    ASSUME Pictured
    PROVE  /\ Seen(Upright)
           /\ Seen(Shown(file))
           /\ (photo.jpeg => file.tag \notin Transposed)
                => Upright = Shown(file)
  <1>1. Seen(file.picture) /\ file.tag \in Orientations /\ orientation = file.tag
    BY DEF Pictured
  <1>2. Seen(Upright) /\ Seen(Shown(file))
    BY <1>1, TransformsAreStraightOrAcross, TransformedSeen
    DEF Upright, Shown, FileFormatHasOrientation
  <1>3. (photo.jpeg => file.tag \notin Transposed) => Upright = Shown(file)
    BY <1>1, CorrectionShows DEF Upright, Shown, FileFormatHasOrientation
  <1>4. QED
    BY <1>2, <1>3

\* A file whose orientation is lost is shown as it is stored.
LEMMA SavedIsShown ==
    ASSUME Pictured, NEW image, Seen(image), Edit(Saved(image))
    PROVE  Shown(file') = image /\ photo' = photo
  <1>1. image # NoPicture
    BY DEF Seen, NoPicture
  <1>2. photo' = photo /\ file' = [picture |-> image, tag |-> 1]
    BY <1>1 DEF Edit, Saved, TOP_LEFT_ORIGIN
  <1>3. Shown(file') = IF photo.jpeg THEN Transformed(image, Shows[1])
                       ELSE image
    BY <1>2 DEF Shown
  <1>4. Shows[1] = Identity
    BY DEF Shows
  <1>5. Transformed(image, Identity) = image
    BY TransformedIdentity DEF Seen
  <1>6. QED
    BY <1>2, <1>3, <1>4, <1>5

-----------------------------------------------------------------------------
(* Every edit leaves a picture. *)

LEMMA TakenIsPicture ==
    ASSUME photo \in Photos
    PROVE  /\ Taken(photo) = [picture |-> Taken(photo).picture,
                              tag |-> Taken(photo).tag]
           /\ Seen(Taken(photo).picture)
           /\ Taken(photo).tag = photo.tag /\ photo.tag \in Orientations
  <1>1. /\ photo.width \in Nat \ {0} /\ photo.height \in Nat \ {0}
        /\ photo.tag \in Orientations
    BY PhotosAssumption
  <1>2. Seen(Taken(photo).picture)
    BY <1>1 DEF Taken, Seen, Formed
  <1>3. QED
    BY <1>1, <1>2 DEF Taken

LEMMA PixelsAreNat ==
    ASSUME photo \in Photos, NEW value \in Int, NEW length \in Int
    PROVE  Pixels(value, length) \in Nat
  <1>1. photo.grain \in {1, 2}
    BY PhotosAssumption
  <1>2. Min({value, length * photo.grain}) \in Int
    BY <1>1, MinOfTwo
  <1> DEFINE low == Min({value, length * photo.grain})
             S == {0, low}
  <1>3. Max(S) \in Int /\ Max(S) >= 0
    <2> HIDE DEF low
    <2>1. \E x \in S: \A y \in S: x >= y
      <3>1. low \in Int
        BY <1>2 DEF low
      <3>2. CASE low >= 0
        BY <3>1, <3>2
      <3>3. CASE ~(low >= 0)
        BY <3>1, <3>3
      <3>4. QED
        BY <3>2, <3>3
    <2>2. Max(S) \in S /\ \A y \in S: Max(S) >= y
      BY <2>1 DEF Max
    <2>3. QED
      BY <1>2, <2>2 DEF low
  <1>4. \A n \in Nat, d \in {1, 2}: n \div d \in Nat
    BY SMT
  <1>5. QED
    BY <1>1, <1>3, <1>4 DEF Pixels

LEMMA CroppedIsPicture ==
    ASSUME Pictured, CropInv
    PROVE  Cropped(frame) = NoPicture \/ Seen(Cropped(frame))
  <1> DEFINE image == Upright
             left == Pixels(frame.x, image.width)
             top == Pixels(frame.y, image.height)
             width == Pixels(frame.width, image.width)
             height == Pixels(frame.height, image.height)
  <1>1. Seen(image)
    BY UprightIsShown
  <1>2. image.width \in Nat /\ image.height \in Nat
    BY <1>1 DEF Seen, Formed
  <1>3. frame.width \in Int /\ frame.height \in Int
    BY DEF CropInv, OverlayTypes, Frames
  <1> HIDE DEF image
  <1>4. width \in Nat /\ height \in Nat
    BY <1>2, <1>3, PixelsAreNat DEF Pictured
  <1> HIDE DEF left, top, width, height
  <1>5. width # 0 /\ height # 0 => Seen(Part(image, left, top, width, height))
    <2>1. /\ Part(image, left, top, width, height).width = width
          /\ Part(image, left, top, width, height).height = height
      BY DEF Part
    <2>2. Formed(Part(image, left, top, width, height))
      BY <1>4 DEF Part, Formed
    <2>3. QED
      BY <2>1, <2>2 DEF Seen
  <1>6. Copy(image, left, top, width, height) = NoPicture
          \/ Seen(Copy(image, left, top, width, height))
    BY <1>1, <1>5 DEF Copy
  <1>7. QED
    BY <1>6 DEF Cropped, image, left, top, width, height

LEMMA SavedIsPicture ==
    ASSUME Pictured, NEW image, image = NoPicture \/ Seen(image),
           Edit(Saved(image)), ~cropping'
    PROVE  Pictured'
  <1>1. /\ photo' = photo /\ file' = Saved(image)
        /\ orientation' = Saved(image).tag
    BY DEF Edit, RefreshFromDisk
  <1>2. /\ Saved(image) = [picture |-> Saved(image).picture, tag |-> 1]
        /\ Seen(Saved(image).picture)
    BY DEF Saved, Pictured, TOP_LEFT_ORIGIN
  <1>3. Saved(image).tag = 1
    BY <1>2
  <1>4. /\ photo' \in Photos
        /\ file' = [picture |-> file'.picture, tag |-> file'.tag]
        /\ Seen(file'.picture) /\ file'.tag \in Orientations
        /\ orientation' = file'.tag
    BY <1>1, <1>2, <1>3 DEF Pictured, Orientations
  <1>5. QED
    BY <1>4 DEF Pictured, Seen, Formed

LEMMA PicturedStep ==
    ASSUME Pictured, CropInv, [Next]_vars
    PROVE  Pictured'
  <1>1. CASE RotateRight
    <2>1. ~cropping'
      BY <1>1 DEF RotateRight
    <2>2. CASE photo.jpeg
      <3> DEFINE rotated == RotateOrientation(orientation)
      <3>1. rotated \in Orientations
        BY RotatedIsOrientation DEF Pictured
      <3> HIDE DEF rotated
      <3>2. Edit([file EXCEPT !.tag = rotated])
        BY <1>1, <2>2 DEF RotateRight, FileFormatHasOrientation, rotated
      <3>3. /\ photo' = photo
            /\ file' = [picture |-> file.picture, tag |-> rotated]
        BY <3>2 DEF Edit, Pictured
      <3>4. orientation' = rotated
        BY <3>2, <3>3 DEF Edit, RefreshFromDisk, Pictured
      <3>5. /\ file'.picture = file.picture /\ file'.tag = rotated
        BY <3>3
      <3>6. QED
        BY <2>1, <3>1, <3>3, <3>4, <3>5 DEF Pictured, Seen, Formed
    <2>3. CASE ~photo.jpeg
      <3> DEFINE t == ToTransform(Correction[RotateOrientation(1)])
      <3>1. t \in Straight \cup Across
        BY RotatedIsOrientation, TransformsAreStraightOrAcross DEF Orientations
      <3>2. Edit(Saved(Transformed(file.picture, t)))
        BY <1>1, <2>3 DEF RotateRight, FileFormatHasOrientation, TOP_LEFT_ORIGIN
      <3> HIDE DEF t
      <3>3. Seen(Transformed(file.picture, t))
        BY <3>1, TransformedSeen DEF Pictured
      <3>4. QED
        BY <2>1, <3>2, <3>3, SavedIsPicture
    <2>4. QED
      BY <2>2, <2>3
  <1>2. CASE Recolour
    <2>1. ~cropping' /\ Edit(Saved(Upright))
      BY <1>2 DEF Recolour
    <2>2. QED
      BY <2>1, UprightIsShown, SavedIsPicture
  <1>3. CASE RestoreSnapshot
    <2>1. /\ photo' = photo /\ file' = Taken(photo) /\ ~cropping'
          /\ orientation' = file'.tag
      BY <1>3 DEF RestoreSnapshot, RefreshFromDisk
    <2>2. photo \in Photos
      BY DEF Pictured
    <2>3. QED
      BY <2>1, <2>2, TakenIsPicture DEF Pictured, Seen, Formed
  <1>4. CASE StartCropping
    BY <1>4 DEF StartCropping, Opened, photoVars, Pictured, Seen, Formed,
                ShownSize, Shown
  <1>5. CASE CropButtonPressed
    <2>1. ~cropping' /\ Edit(Saved(Cropped(frame)))
      BY <1>5 DEF CropButtonPressed, Closed
    <2>2. QED
      BY <2>1, CroppedIsPicture, SavedIsPicture
  <1>6. CASE MatteRegionPressed
    BY <1>6 DEF MatteRegionPressed, Closed, photoVars, Pictured, Seen, Formed
  <1>7. CASE \/ cropping /\ OverlayNext /\ UNCHANGED <<photoVars, cropping>>
             \/ UNCHANGED vars
    <2>1. extent' = extent
      BY <1>7 DEF OverlayNext, StatusReady, DragStarted, Dragged, DragCompleted,
                  Interpolated, UpdatePan, vars, overlayVars
    <2>2. UNCHANGED <<photo, file, orientation, cropping>>
      BY <1>7 DEF vars, photoVars
    <2>3. QED
      BY <2>1, <2>2 DEF Pictured, Seen, Formed, ShownSize, Shown
  <1>8. QED
    BY <1>1, <1>2, <1>3, <1>4, <1>5, <1>6, <1>7 DEF Next

LEMMA PicturedInvariant == Spec => []Pictured
  <1>1. Init => Pictured
    BY TakenIsPicture DEF Init, Pictured
  <1>2. Pictured /\ CropInv /\ [Next]_vars => Pictured'
    BY PicturedStep
  <1>3. QED
    BY <1>1, <1>2, CropInvariant, PTL DEF Spec

-----------------------------------------------------------------------------
(* Turns and crops, as they are seen. *)

LEMMA TurnIsSeen ==
    ASSUME Pictured, RotateRight, photo.jpeg => file.tag \notin Mirrored
    PROVE  Shown(file') = Transformed(Shown(file), QuarterRight)
  <1>1. CASE photo.jpeg
    <2> DEFINE rotated == RotateOrientation(orientation)
    <2>1. file.tag \in Orientations \ Mirrored /\ orientation = file.tag
      BY <1>1 DEF Pictured
    <2>2. Shows[rotated] = ThenRight(Shows[file.tag])
      BY <2>1, RotationTurnsRight
    <2> HIDE DEF rotated
    <2>3. Edit([file EXCEPT !.tag = rotated])
      BY <1>1 DEF RotateRight, FileFormatHasOrientation, rotated
    <2>4. file' = [picture |-> file.picture, tag |-> rotated]
      BY <2>3 DEF Edit, Pictured
    <2>5. Shown(file') = Transformed(file.picture, ThenRight(Shows[file.tag]))
      BY <1>1, <2>2, <2>4 DEF Shown
    <2>6. Shown(file) = Transformed(file.picture, Shows[file.tag])
      BY <1>1 DEF Shown
    <2>7. QED
      BY <2>1, <2>5, <2>6, TransformsAreStraightOrAcross, TurnedRight
      DEF Pictured, Seen
  <1>2. CASE ~photo.jpeg
    <2>1. ToTransform(Correction[RotateOrientation(1)]) = QuarterRight
      BY RotatedRight, CorrectionShows DEF Orientations, Transposed, Shows
    <2> DEFINE image == Transformed(file.picture, QuarterRight)
    <2>2. Edit(Saved(image))
      BY <1>2, <2>1 DEF RotateRight, FileFormatHasOrientation, TOP_LEFT_ORIGIN
    <2>3. QuarterRight \in Straight \cup Across
      BY DEF QuarterRight, Across
    <2> HIDE DEF image
    <2>4. Seen(image)
      BY <2>3, TransformedSeen DEF Pictured, image
    <2>5. Shown(file') = image /\ Shown(file) = file.picture
      BY <1>2, <2>2, <2>4, SavedIsShown DEF Shown
    <2>6. QED
      BY <2>5 DEF image
  <1>3. QED
    BY <1>1, <1>2

\* orientation.cpp:88-117: for photos of every size, and after any edits, crops
\* and restored snapshots, a turn is seen to turn right and an edit of the
\* colours to leave the photo as it was, but for the orientations ShownTurnsRight
\* names.
THEOREM TurnsAreSeen == Spec => ShownTurnsRight
  <1>1. Pictured /\ [Next]_vars =>
          [/\ RotateRight /\ (photo.jpeg => file.tag \notin Mirrored)
                => Shown(file') = Transformed(Shown(file), QuarterRight)
           /\ Recolour /\ (photo.jpeg => file.tag \notin Transposed)
                => Shown(file') = Shown(file)]_vars
    <2>1. SUFFICES ASSUME Pictured
                   PROVE  /\ RotateRight /\ (photo.jpeg => file.tag \notin Mirrored)
                               => Shown(file') = Transformed(Shown(file), QuarterRight)
                          /\ Recolour /\ (photo.jpeg => file.tag \notin Transposed)
                               => Shown(file') = Shown(file)
      OBVIOUS
    <2>2. RotateRight /\ (photo.jpeg => file.tag \notin Mirrored)
            => Shown(file') = Transformed(Shown(file), QuarterRight)
      BY <2>1, TurnIsSeen
    <2>3. Recolour /\ (photo.jpeg => file.tag \notin Transposed)
            => Shown(file') = Shown(file)
      BY <2>1, UprightIsShown, SavedIsShown DEF Recolour
    <2>4. QED
      BY <2>2, <2>3
  <1>2. QED
    BY <1>1, PicturedInvariant, PTL DEF Spec, ShownTurnsRight

\* The lesser of two numbers, and the greater, of which it is known which.
LEMMA MinIs ==
    ASSUME NEW a \in Int, NEW b \in Int, a <= b
    PROVE  Min({a, b}) = a
  <1>1. \E x \in {a, b}: \A y \in {a, b}: x =< y
    OBVIOUS
  <1>2. /\ Min({a, b}) \in {a, b}
        /\ \A y \in {a, b}: Min({a, b}) =< y
    BY <1>1 DEF Min
  <1>3. QED
    BY <1>2

LEMMA MaxIs ==
    ASSUME NEW a \in Int, NEW b \in Int, a <= b
    PROVE  Max({a, b}) = b
  <1>1. \E x \in {a, b}: \A y \in {a, b}: x >= y
    OBVIOUS
  <1>2. /\ Max({a, b}) \in {a, b}
        /\ \A y \in {a, b}: Max({a, b}) >= y
    BY <1>1 DEF Max
  <1>3. QED
    BY <1>2

\* On the photo, places are cut to pixels.
LEMMA PixelsOnPhoto ==
    ASSUME photo \in Photos, NEW value \in Nat, NEW length \in Nat,
           value <= length * photo.grain
    PROVE  Pixels(value, length) = value \div photo.grain
  <1>1. photo.grain \in {1, 2}
    BY PhotosAssumption
  <1>2. length * photo.grain \in Int
    BY <1>1
  <1>3. Min({value, length * photo.grain}) = value
    BY <1>2, MinIs
  <1>4. Max({0, value}) = value
    BY MaxIs
  <1>5. QED
    BY <1>3, <1>4 DEF Pixels

\* A span that begins with the pixel its first place is in and has as many
\* whole pixels as it holds ends in it, at most two pixels from its end.
LEMMA SpanInPixels ==
    ASSUME NEW grain \in {1, 2}, NEW from \in Nat, NEW span \in Nat,
           span >= grain
    PROVE  LET end == (from \div grain) + (span \div grain)
           IN  /\ span \div grain \in Nat \ {0}
               /\ end * grain <= from + span
               /\ (end + 2) * grain > from + span
  <1>1. CASE grain = 1
    BY <1>1, SMT
  <1>2. CASE grain = 2
    BY <1>2, SMT
  <1>3. QED
    BY <1>1, <1>2

LEMMA CropIsSeen ==
    ASSUME Pictured, CropInv, CropButtonPressed, Inside(frame),
           frame.width >= photo.grain, frame.height >= photo.grain,
           photo.jpeg => file.tag \notin Transposed
    PROVE  LET before == Shown(file)
               after == Shown(file')
               left == frame.x \div photo.grain
               top == frame.y \div photo.grain
           IN  /\ after.width = frame.width \div photo.grain
               /\ after.height = frame.height \div photo.grain
               /\ after = Part(before, left, top, after.width, after.height)
               /\ (left + after.width) * photo.grain <= frame.x + frame.width
               /\ (left + after.width + 2) * photo.grain > frame.x + frame.width
               /\ (top + after.height) * photo.grain <= frame.y + frame.height
               /\ (top + after.height + 2) * photo.grain > frame.y + frame.height
  <1> DEFINE before == Shown(file)
             left == frame.x \div photo.grain
             top == frame.y \div photo.grain
             width == frame.width \div photo.grain
             height == frame.height \div photo.grain
             image == Part(before, left, top, width, height)
  <1>1. cropping /\ Edit(Saved(Cropped(frame)))
    BY DEF CropButtonPressed
  <1>2. Upright = before /\ Seen(before)
    BY UprightIsShown
  <1>3. before.width \in Nat /\ before.height \in Nat
    BY <1>2 DEF Seen, Formed
  <1>4. photo \in Photos /\ photo.grain \in {1, 2}
    BY PhotosAssumption DEF Pictured
  <1>5. /\ extent.width = before.width * photo.grain
        /\ extent.height = before.height * photo.grain
    BY <1>1 DEF Pictured, ShownSize
  <1>6. /\ frame.x \in Int /\ frame.width \in Int
        /\ frame.y \in Int /\ frame.height \in Int
    BY DEF CropInv, OverlayTypes, Frames
  <1> HIDE DEF before
  <1>7. /\ extent.width \in Int /\ extent.height \in Int
    BY <1>3, <1>4, <1>5
  <1>8. /\ frame.x \in Nat /\ frame.x <= extent.width
        /\ frame.y \in Nat /\ frame.y <= extent.height
        /\ frame.width \in Nat /\ frame.width <= extent.width
        /\ frame.height \in Nat /\ frame.height <= extent.height
    BY <1>4, <1>6, <1>7 DEF Inside
  <1>9. /\ Pixels(frame.x, before.width) = left
        /\ Pixels(frame.y, before.height) = top
        /\ Pixels(frame.width, before.width) = width
        /\ Pixels(frame.height, before.height) = height
    BY <1>3, <1>4, <1>5, <1>8, PixelsOnPhoto
  <1>10. /\ width \in Nat \ {0}
         /\ (left + width) * photo.grain <= frame.x + frame.width
         /\ (left + width + 2) * photo.grain > frame.x + frame.width
    BY <1>4, <1>8, SpanInPixels
  <1>11. /\ height \in Nat \ {0}
         /\ (top + height) * photo.grain <= frame.y + frame.height
         /\ (top + height + 2) * photo.grain > frame.y + frame.height
    BY <1>4, <1>8, SpanInPixels
  <1> HIDE DEF left, top, width, height
  <1>12. Cropped(frame) = image
    <2>1. width # 0 /\ height # 0
      BY <1>10, <1>11
    <2>2. Cropped(frame) = Copy(before, left, top, width, height)
      BY <1>2, <1>9 DEF Cropped
    <2>3. QED
      BY <2>1, <2>2 DEF Copy
  <1>13. image.width = width /\ image.height = height
    BY DEF Part
  <1>14. Seen(image)
    <2>1. Formed(image)
      BY <1>10, <1>11 DEF Part, Formed
    <2>2. QED
      BY <2>1, <1>10, <1>11, <1>13 DEF Seen
  <1>15. Shown(file') = image
    BY <1>1, <1>12, <1>14, SavedIsShown
  <1> HIDE DEF image
  <1>16. /\ Shown(file').width = width /\ Shown(file').height = height
         /\ Shown(file') = Part(before, left, top, width, height)
    BY <1>13, <1>15 DEF image
  <1>17. QED
    BY <1>10, <1>11, <1>16 DEF before, left, top, width, height

\* photo-edit-thread.cpp:64-90: for every photo, viewport and frame that is on
\* the photo and not less than a pixel, what is kept is what was framed, turned
\* as it was shown.
THEOREM CropIsFramed == Spec => CropShowsFrame
  <1> DEFINE Framed ==
        LET before == Shown(file)
            after == Shown(file')
            left == frame.x \div photo.grain
            top == frame.y \div photo.grain
            EndsIn(end, from, span) ==
                /\ end * photo.grain <= from + span
                /\ (end + 2) * photo.grain > from + span
        IN  /\ CropButtonPressed
            /\ Inside(frame)
            /\ frame.width >= photo.grain /\ frame.height >= photo.grain
            /\ photo.jpeg => file.tag \notin Transposed
            => /\ EndsIn(left + after.width, frame.x, frame.width)
               /\ EndsIn(top + after.height, frame.y, frame.height)
               /\ after = Part(before, left, top, after.width, after.height)
  <1>1. Pictured /\ CropInv => Framed
    BY CropIsSeen
  <1>2. Pictured /\ CropInv /\ [Next]_vars => [Framed]_vars
    BY <1>1
  <1> HIDE DEF Framed
  <1>3. Spec => [][Framed]_vars
    BY <1>2, PicturedInvariant, CropInvariant, PTL DEF Spec
  <1>4. QED
    BY <1>3 DEF CropShowsFrame, Framed
===============================================================================
