------------------------------ MODULE PhotoCrop ------------------------------
(***************************************************************************)
(* The edits of a photo that move its pixels: PhotoData's orientation, the *)
(* turns and crops of PhotoEditThread::run, and the crop tool whose frame  *)
(* is drawn on the photo as the viewer shows it.                           *)
(*                                                                         *)
(* One edit at a time, whole: sessions, snapshots and the thread's steps   *)
(* are EditSession's.  Colours are left out.                               *)
(***************************************************************************)
EXTENDS Orientation, CropOverlay

CONSTANT
    Photos          \* the photos of a session: format, orientation and size,
                    \* with the bounds on its edits and drags

VARIABLES
    photo,          \* which of Photos is edited
    file,           \* the photo's file: its pixels and its EXIF orientation
    orientation,    \* PhotoData's m_orientation
    cropping,       \* the crop tool is loaded
    edits           \* how many edits there were

photoVars == <<photo, file, orientation, edits>>
vars == <<overlayVars, photoVars, cropping>>

\* A grain of two lets the frame stand between pixels.
ASSUME PhotosAssumption ==
    Photos \subseteq [jpeg: BOOLEAN, tag: Orientations, width: Nat \ {0},
                      height: Nat \ {0}, grain: {1, 2}, edits: Nat, drags: Nat,
                      handles: SUBSET Handles]

Taken(p) ==
    [picture |-> [width |-> p.width, height |-> p.height,
                  at |-> [place \in Places(p.width, p.height) |-> place]],
     tag |-> p.tag]

\* QImage()
NoPicture == [width |-> 0, height |-> 0, at |-> <<>>]

\* PhotoMetadata::orientation of a file with one, which only JPEGs have here.
FileFormatHasOrientation == photo.jpeg

\* What the viewer shows of a file.
Shown(f) == IF photo.jpeg THEN Transformed(f.picture, Shows[f.tag])
            ELSE f.picture

ShownSize(f) == [width |-> Shown(f).width * photo.grain,
                 height |-> Shown(f).height * photo.grain]

Bound == [left |-> photo.drags, handles |-> photo.handles]

-----------------------------------------------------------------------------
(* PhotoData *)

\* refreshFromDisk, at the end of every edit and of every restored snapshot.
RefreshFromDisk(f) == orientation' = f.tag

\* The edit thread's image: the file's pixels, put upright for the edits that
\* are not turns.
Upright == IF FileFormatHasOrientation
           THEN Transformed(file.picture, ToTransform(Correction[orientation]))
           ELSE file.picture

\* image.save and the metadata after it: what cannot be saved leaves the
\* pixels, and loses the orientation all the same.
Saved(image) ==
    [picture |-> IF image = NoPicture THEN file.picture ELSE image,
     tag |-> TOP_LEFT_ORIGIN]

Edit(result) ==
    /\ edits < photo.edits /\ edits' = edits + 1
    /\ file' = result
    /\ RefreshFromDisk(result)
    /\ UNCHANGED photo

\* rotateRight: a JPEG's tag is turned, else its pixels.
RotateRight ==
    /\ ~cropping
    /\ LET current == IF FileFormatHasOrientation THEN orientation
                      ELSE TOP_LEFT_ORIGIN
           rotated == RotateOrientation(current)
       IN  IF FileFormatHasOrientation
           THEN Edit([file EXCEPT !.tag = rotated])
           ELSE Edit(Saved(Transformed(file.picture,
                                       ToTransform(Correction[rotated]))))
    /\ UNCHANGED <<overlayVars, cropping>>

\* exposureCompensation, autoEnhance
Recolour ==
    /\ ~cropping
    /\ Edit(Saved(Upright))
    /\ UNCHANGED <<overlayVars, cropping>>

\* qBound of a value of the cropped rect, and its pixels, cut off.
Pixels(value, length) ==
    Max({0, Min({value, length * photo.grain})}) \div photo.grain

\* QImage::copy: all for a rect without width and height, nothing for one
\* that lacks one of them.
Copy(image, left, top, width, height) ==
    IF width = 0 /\ height = 0 THEN image
    ELSE IF width = 0 \/ height = 0 THEN NoPicture
    ELSE Part(image, left, top, width, height)

\* Mutant: the image is not put upright before it is cut.
CroppedAsStored(r) ==
    LET image == file.picture
    IN  Copy(image, Pixels(r.x, image.width), Pixels(r.y, image.height),
             Pixels(r.width, image.width), Pixels(r.height, image.height))

Cropped(r) ==
    LET image == Upright
    IN  Copy(image, Pixels(r.x, image.width), Pixels(r.y, image.height),
             Pixels(r.width, image.width), Pixels(r.height, image.height))

-----------------------------------------------------------------------------
(* The crop tool *)

StartCropping ==
    /\ ~cropping /\ edits < photo.edits
    /\ cropping' = TRUE
    /\ Opened(ShownSize(file), Bound)
    /\ UNCHANGED photoVars

\* The overlay is gone; what the model has of it is not looked at.
Closed ==
    /\ cropping' = FALSE
    /\ Opened(ShownSize(Taken(photo)), Bound)

CropButtonPressed ==
    /\ cropping /\ visible /\ drag = NoDrag
    /\ Edit(Saved(Cropped(frame)))
    /\ Closed

MatteRegionPressed ==
    /\ cropping /\ visible /\ drag = NoDrag
    /\ Closed
    /\ UNCHANGED photoVars

\* EditStack.restoreSnapshot, of the original.
RestoreSnapshot ==
    /\ ~cropping
    /\ edits > 0
    /\ file' = Taken(photo)
    /\ RefreshFromDisk(file')
    /\ UNCHANGED <<overlayVars, photo, cropping, edits>>

Init ==
    /\ photo \in Photos
    /\ file = Taken(photo)
    /\ orientation = photo.tag
    /\ cropping = FALSE /\ edits = 0
    /\ OverlayInit(ShownSize(file), Bound)

Next ==
    \/ RotateRight \/ Recolour \/ RestoreSnapshot
    \/ StartCropping \/ CropButtonPressed \/ MatteRegionPressed
    \/ cropping /\ OverlayNext /\ UNCHANGED <<photoVars, cropping>>

Spec == Init /\ [][Next]_vars

-----------------------------------------------------------------------------
\* What is cropped is what was framed, turned as it was shown, to the pixel:
\* it begins with the first pixel the frame touches and ends in the frame, at
\* most two pixels from its end.  Frames that left the photo or are less than
\* a pixel, and JPEGs that are transposed, are not so lucky
\* (photo-edit-thread.cpp:64-90).
CropShowsFrame ==
    [][LET before == Shown(file)
           after == Shown(file')
           left == frame.x \div photo.grain
           top == frame.y \div photo.grain
           EndsIn(end, from, span) ==
               /\ end * photo.grain <= from + span
               /\ (end + 2) * photo.grain > from + span
       IN  /\ CropButtonPressed
           /\ Inside(frame)
           /\ frame.width >= photo.grain /\ frame.height >= photo.grain
           /\ photo.jpeg => file.tag \notin Transposed
           => /\ EndsIn(left + after.width, frame.x, frame.width)
              /\ EndsIn(top + after.height, frame.y, frame.height)
              /\ after = Part(before, left, top, after.width, after.height)
      ]_vars

\* Turning a photo turns what is shown of it to the right, and the edits of
\* its colours leave it as it is, whatever was edited or restored before;
\* mirrored JPEGs are turned to the left, and transposed ones upside down by
\* an edit of their colours (orientation.cpp:88-117, photo-data.cpp:153-165).
ShownTurnsRight ==
    [][/\ RotateRight /\ (photo.jpeg => file.tag \notin Mirrored)
          => Shown(file') = Transformed(Shown(file), QuarterRight)
       /\ Recolour /\ (photo.jpeg => file.tag \notin Transposed)
          => Shown(file') = Shown(file)]_vars
===============================================================================
