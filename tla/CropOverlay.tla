------------------------------ MODULE CropOverlay ------------------------------
(***************************************************************************)
(* The frame of the crop tool over a photo (CropOverlay.qml): dragged by   *)
(* its edges and corners, and fit into the viewport again by an animation  *)
(* that zooms frame and photo together, while the user may drag on.        *)
(*                                                                         *)
(* Frame and photo are zoomed by the same factor, so all is measured on    *)
(* the photo, in whole units; where the frame is on the screen is left     *)
(* out.  The zoom is kept as what one screenful shows: larger when the     *)
(* photo is smaller.  The least size of a frame is rounded up to units.    *)
(***************************************************************************)
EXTENDS Integers, FiniteSetsExt

CONSTANTS
    ViewWidth, ViewHeight,      \* the viewport, in pixels of the screen
    MinSize,                    \* the least size of a frame, likewise
    NoDrag, NoFit

ASSUME ViewAssumption ==
    /\ ViewWidth \in Nat \ {0} /\ ViewHeight \in Nat \ {0}
    /\ MinSize \in Nat \ {0}

\* A frame, and what an animation has in view.
Frames == [x: Int, y: Int, width: Int, height: Int]
Fits == [frame: Frames, from: Int, to: Int]
ASSUME FitAssumption == NoFit \notin Fits

VARIABLES
    visible,        \* the overlay is
    ready,          \* how often the image became Ready: sourceSize reloads it
    extent,         \* the size of the photo
    frame,          \* the frame, from the photo's corner
    zoom,           \* what the viewport's area shows, by Zoom
    drag,           \* the handle that is dragged, and dragStartRect
    drags,          \* how many drags there may still be, and of which handles
    fit,            \* the frame that is animated, and the zooms it goes between
    strained,       \* history: a frame less than the least was pulled
    returned        \* history: a drag ended where it began, the photo shifted

overlayVars ==
    <<visible, ready, extent, frame, zoom, drag, drags, fit, strained, returned>>

Handles == {"none", "first", "second"} \X {"none", "first", "second"}
              \ {<<"none", "none">>}

\* fitRect: what fits the viewport exactly in one direction.
Zoom(size) == Max({size.width * ViewHeight, size.height * ViewWidth})

\* minSize in units of the photo.
Least(z) == (MinSize * z + ViewWidth * ViewHeight - 1)
              \div (ViewWidth * ViewHeight)

Whole == [x |-> 0, y |-> 0, width |-> extent.width, height |-> extent.height]

\* The sizes on the screen are compared by their areas.
NotLess(a, az, b, bz) ==
    a.width * a.height * bz * bz >= b.width * b.height * az * az

-----------------------------------------------------------------------------
(* The image is ready: computeRectSet, resetFor *)

OverlayInit(size, bound) ==
    /\ visible = FALSE /\ ready = 0
    /\ extent = size /\ drags = bound
    /\ frame = [x |-> 0, y |-> 0, width |-> size.width, height |-> size.height]
    /\ zoom = Zoom(size)
    /\ drag = NoDrag /\ fit = NoFit
    /\ strained = FALSE /\ returned = FALSE

\* The tool's Loader makes an overlay of its own each time.
Opened(size, bound) ==
    /\ visible' = FALSE /\ ready' = 0
    /\ extent' = size /\ drags' = bound
    /\ frame' = [x |-> 0, y |-> 0, width |-> size.width, height |-> size.height]
    /\ zoom' = Zoom(size)
    /\ drag' = NoDrag /\ fit' = NoFit
    /\ strained' = FALSE /\ returned' = FALSE

StatusReady ==
    /\ ready < 2
    /\ ready' = ready + 1
    /\ visible' = TRUE
    /\ frame' = Whole
    /\ zoom' = Zoom(extent)
    /\ UNCHANGED <<extent, drag, drags, fit, strained, returned>>

-----------------------------------------------------------------------------
(* Resizing *)

\* Mutant: the photo's border is looked at last, and not at all at the end.
ResizedPastEnd(side, delta, from, span, length, least) ==
    IF side = "first"
    THEN LET d1 == IF from + delta < 0 THEN -from ELSE delta
             d2 == IF span - d1 < least THEN span - least ELSE d1
         IN  <<from + d2, span - d2>>
    ELSE <<from, IF span + delta < least THEN least ELSE span + delta>>

\* resizeFrame: where the frame begins in one direction and how long it is.
Resized(side, delta, from, span, length, least) ==
    IF side = "first"
    THEN LET d1 == IF from + delta < 0 THEN -from ELSE delta
             d2 == IF span - d1 < least THEN span - least ELSE d1
         IN  <<from + d2, span - d2>>
    ELSE LET d1 == IF span + delta < least THEN least - span ELSE delta
             d2 == IF from + span + d1 > length THEN length - from - span
                   ELSE d1
         IN  <<from, span + d2>>

\* resizedX, resizedY
ResizedTo(sideX, sideY, dx, dy) ==
    LET h == IF sideX = "none" THEN <<frame.x, frame.width>>
             ELSE Resized(sideX, dx, frame.x, frame.width, extent.width,
                          Least(zoom))
        v == IF sideY = "none" THEN <<frame.y, frame.height>>
             ELSE Resized(sideY, dy, frame.y, frame.height, extent.height,
                          Least(zoom))
    IN  [x |-> h[1], width |-> h[2], y |-> v[1], height |-> v[2]]

\* userAlteredFrame and runFrameFitAnimation: from here to where it fits.
Altered == fit' = [frame |-> frame', from |-> zoom, to |-> Zoom(frame')]

\* The photo was zoomed or put elsewhere under the drag.
Shifted == drag.ticked \/ zoom # drag.zoom

\* areEqual compares rectangles on the screen.  Once the photo was shifted the
\* frame may be where it was if it takes the same part of what is in view.
Equal ==
    IF ~Shifted THEN {frame' = drag.frame}
    ELSE IF /\ frame'.width * drag.zoom = drag.frame.width * zoom
            /\ frame'.height * drag.zoom = drag.frame.height * zoom
         THEN BOOLEAN ELSE {FALSE}

DragStarted(handle) ==
    /\ visible /\ drag = NoDrag
    /\ drags.left > 0 /\ handle \in drags.handles
    /\ drags' = [drags EXCEPT !.left = @ - 1]
    /\ drag' = [sideX |-> handle[1], sideY |-> handle[2],
                frame |-> frame, zoom |-> zoom, ticked |-> FALSE]
    /\ UNCHANGED <<visible, ready, extent, frame, zoom, fit, strained, returned>>

\* A frame that grew is fit at once, another one when the drag is over.
UpdateOnAltered(equal, finalUpdate) ==
    IF ~equal /\ (finalUpdate \/ NotLess(frame', zoom, drag.frame, drag.zoom))
    THEN Altered ELSE UNCHANGED fit

\* Each handle's onDragged.
Dragged(dx, dy) ==
    /\ drag # NoDrag
    /\ frame' = ResizedTo(drag.sideX, drag.sideY, dx, dy)
    /\ \E equal \in Equal:
          UpdateOnAltered(equal, FALSE)
    /\ strained' = (\/ strained
                    \/ drag.sideX = "first" /\ frame.width < Least(zoom)
                    \/ drag.sideY = "first" /\ frame.height < Least(zoom))
    /\ UNCHANGED <<visible, ready, extent, zoom, drag, drags, returned>>

\* Mutant: a frame that shrank is not fit when the drag is over.
DragCompletedGrown ==
    /\ drag # NoDrag
    /\ drag' = NoDrag
    /\ UNCHANGED <<visible, ready, extent, frame, zoom, drags, fit, strained,
                   returned>>

DragCompleted ==
    /\ drag # NoDrag
    /\ drag' = NoDrag
    /\ UNCHANGED <<visible, ready, extent, frame, zoom, drags, strained>>
    /\ \E equal \in Equal:
          /\ UpdateOnAltered(equal, TRUE)
          /\ returned' = (equal /\ (returned \/ Shifted))

\* onInterpolationFactorChanged: frame and photo are put where the animation
\* has them, whatever was dragged meanwhile.  The animation is seen half way
\* (bound) and at its end.
Interpolated(last) ==
    /\ fit # NoFit
    /\ frame' = fit.frame
    /\ zoom' = IF last THEN fit.to ELSE (fit.from + fit.to) \div 2
    /\ fit' = IF last THEN NoFit ELSE fit
    /\ drag' = IF drag = NoDrag THEN drag ELSE [drag EXCEPT !.ticked = TRUE]
    /\ UNCHANGED <<visible, ready, extent, drags, strained, returned>>

\* updatePan, by clamp: the frame stays on the photo if it is not larger.
Offsets(span, length) ==
    IF span <= length THEN 0..length - span ELSE {length - span, 0}

UpdatePan ==
    /\ visible /\ drag = NoDrag
    /\ \E x \in Offsets(frame.width, extent.width),
          y \in Offsets(frame.height, extent.height):
            frame' = [frame EXCEPT !.x = x, !.y = y]
    /\ UNCHANGED <<visible, ready, extent, zoom, drag, drags, fit, strained,
                   returned>>

Deltas(side, length) == IF side = "none" THEN {0} ELSE -length..length

OverlayNext ==
    \/ StatusReady
    \/ \E handle \in Handles: DragStarted(handle)
    \/ drag # NoDrag /\ \E dx \in Deltas(drag.sideX, extent.width),
                            dy \in Deltas(drag.sideY, extent.height): Dragged(dx, dy)
    \/ DragCompleted
    \/ \E last \in BOOLEAN: Interpolated(last)
    \/ UpdatePan

-----------------------------------------------------------------------------
Inside(r) ==
    /\ r.x >= 0 /\ r.x + r.width <= extent.width
    /\ r.y >= 0 /\ r.y + r.height <= extent.height

\* The frame stays on the photo, whatever is dragged, panned and animated in
\* whichever order, as long as no frame that a zoom has made less than the
\* least size is pulled by its left or its top: resizeFrame then moves it by
\* what it lacks after it has looked at the border (CropOverlay.qml:483-516).
FrameOnPhoto == strained \/ Inside(frame)

\* The frame is fit into the viewport unless the user has the button held down
\* or the animation is under way, or the photo was shifted under the last drag,
\* by an animation or when the image was ready again, and the frame was left on
\* the screen where the drag had found it (CropOverlay.qml:280-290, 520-530).
FitOrUser ==
    drag = NoDrag /\ fit = NoFit /\ ~returned => zoom = Zoom(frame)
===============================================================================
