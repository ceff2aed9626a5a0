----------------------------- MODULE EditSession -----------------------------
(***************************************************************************)
(* The photo editor: EditStack.qml keeps a session directory beside the    *)
(* photo with the file being edited ("current") and one snapshot for each  *)
(* undo level; PhotoData and PhotoEditThread change "current" in a thread; *)
(* PhotoEditor.qml connects them to the tools and to the host application, *)
(* which calls open and close.  The pristine file, .original/<name>, keeps *)
(* the very first original over sessions.                                  *)
(*                                                                         *)
(* A picture is the sequence of edits made to the very first original.  A  *)
(* file that is being written is Torn.  Compensating the exposure by zero  *)
(* encodes the picture again and changes nothing a user could tell.  The   *)
(* photo's format is one with metadata and orientation (JPEG).             *)
(***************************************************************************)
EXTENDS Naturals, Sequences

CONSTANTS
    Exposure,       \* the values the exposure slider can be set to, but zero
    Zero,           \* exposure 0.0, where the slider starts
    Torn,           \* what a file holds while it is written
    Missing,        \* what is where a file is not
    Hosts,          \* the hosts and the systems a behaviour may have
    MaxLevel,       \* bound: undo levels of a session, with any host
    MaxEdits,       \* bound: edits that make a picture
    MaxFails        \* bound: writes that fail for want of room

VARIABLES
    photo,          \* the photo's file
    pristine,       \* the pristine file
    current,        \* the session's file that is edited, currentFile
    snap,           \* the snapshots of the session, by name
    session,        \* editingSessionPath: "open", or "closed" when empty, or
                    \* "failed", empty in an editor that is shown
    path,           \* what photoData.path names: "none" yet, "session" for
                    \* current, "gone" for the one of a session that ended
    level, count,   \* level, items.length
    reverted,       \* _revertedInThisSession
    pristineExists, \* _pristineFileExists
    call,           \* how far open or endEditingSession has come
    thread,         \* m_editThread: its step, command and the picture loaded
    busy,           \* m_busy
    adjusting,      \* exposureSelector is shown
    exposure,       \* exposureSelector.exposure
    cropper,        \* the cropper: "hidden", "shown" or "fading"
    bar,            \* actionsBar still takes taps
    dialog,         \* the revert prompt is shown
    host,           \* when the host closes the editor, what the system does
    dead,           \* the process has used metadata that was not there
    failures        \* history: how often the process could not write a file

disk == <<photo, pristine>>
files == <<current, snap, failures>>
stack == <<session, path, level, count, reverted, pristineExists, call>>
data == <<thread, busy>>
tools == <<adjusting, exposure, cropper, bar, dialog>>
vars == <<disk, files, stack, data, tools, dead, host>>

Edit == {"rotate", "crop"} \cup Exposure
First == <<>>
Picture == UNION {[1..n -> Edit]: n \in 0..MaxEdits}
ASSUME SessionAssumption ==
    /\ Zero \notin Exposure
    /\ Hosts \subseteq [calls: SUBSET {"idle", "tool", "dialog", "busy"},
                       crashes: BOOLEAN, fails: 0..MaxFails,
                       levels: 0..MaxLevel, edits: 0..MaxEdits]
    /\ MaxLevel \in Nat /\ MaxEdits \in Nat /\ MaxFails \in Nat
    /\ Torn # Missing /\ Torn \notin Seq(Edit) /\ Missing \notin Seq(Edit)

NoThread == [step |-> "none", edit |-> Zero, image |-> Missing]

TypeOK ==
    /\ photo \in Picture \cup {Torn}
    /\ pristine \in Picture \cup {Torn, Missing}
    /\ current \in Picture \cup {Torn, Missing}
    /\ snap \in [0..MaxLevel -> Picture \cup {Torn, Missing}]
    /\ session \in {"open", "closed", "failed"}
    /\ path \in {"none", "session", "gone"}
    /\ level \in 0..MaxLevel /\ count \in 0..MaxLevel + 1
    /\ reverted \in BOOLEAN /\ pristineExists \in BOOLEAN
    /\ call \in {"no", "path", "orientation", "keep", "truncate", "write",
                "clear"}
    /\ thread \in [step: {"none", "load", "save", "write", "lost", "done"},
                   edit: Edit \cup {Zero}, image: Picture \cup {Missing}]
    /\ busy \in BOOLEAN
    /\ adjusting \in BOOLEAN /\ exposure \in Exposure \cup {Zero}
    /\ cropper \in {"hidden", "shown", "fading"}
    /\ bar \in BOOLEAN /\ dialog \in BOOLEAN
    /\ dead \in BOOLEAN /\ failures \in 0..MaxFails
    /\ host \in Hosts

NoSnapshots == [n \in 0..MaxLevel |-> Missing]

Init ==
    /\ photo = First /\ pristine = Missing
    /\ current = Missing /\ snap = NoSnapshots
    /\ session = "closed" /\ path = "none" /\ call = "no"
    /\ level = 0 /\ count = 0
    /\ reverted = FALSE /\ pristineExists = FALSE
    /\ thread = NoThread /\ busy = FALSE
    /\ adjusting = FALSE /\ exposure = Zero
    /\ cropper = "hidden" /\ bar = TRUE /\ dialog = FALSE
    /\ dead = FALSE /\ failures = 0
    /\ host \in Hosts

modified == level > 0 \/ reverted

-----------------------------------------------------------------------------
(* EditStack.qml, whose copies and directories may fail for want of room,  *)
(* which neither it nor PhotoEditor.qml looks at.                          *)

NoRoom == failures < host.fails

\* FileUtils.copy(): what it may leave of a file.  Without room a new file is
\* not made and an old one is torn; without a source neither is touched.
CopyOf(source, target) ==
    IF source = Missing THEN {target}
    ELSE IF ~NoRoom THEN {source}
    ELSE {source, IF target = Missing THEN Missing ELSE Torn}

Note(source, copy) ==
    failures' = IF copy = source \/ source = Missing THEN failures
                ELSE failures + 1

\* refreshFromDisk() uses the metadata of what photoData.path names, if it is
\* the session's file the given one, whether there is any or not; a torn file
\* may have it.  Until there was a path the format is one without metadata.
MetadataOf(file) ==
    IF path = "none" THEN {FALSE}
    ELSE IF path = "gone" \/ file = Missing THEN {TRUE}
    ELSE IF file = Torn THEN BOOLEAN
    ELSE {FALSE}

\* Mutant: the versions that were undone are not dropped.
CheckpointKeepsUndone ==
    /\ level' = level + 1
    /\ count' = count + 1
    /\ snap' = [snap EXCEPT ![count] = current]
    /\ UNCHANGED failures

\* Mutant: the snapshot has the name of the one before.
CheckpointNamedBefore ==
    LET name == IF count < level + 1 THEN count ELSE level + 1
    IN  /\ level' = level + 1
        /\ count' = name + 1
        /\ snap' = [snap EXCEPT ![level] = current]
        /\ UNCHANGED failures

\* checkpoint(): cut items after the version shown and add a snapshot, whose
\* name is its place in items.  Without a session there is nothing to copy.
Checkpoint ==
    LET name == IF count < level + 1 THEN count ELSE level + 1
    IN  /\ level' = level + 1
        /\ count' = name + 1
        /\ \E file \in CopyOf(current, snap[name]):
              /\ snap' = [snap EXCEPT ![name] = file]
              /\ Note(current, file)

\* restoreSnapshot(): the copy, and data.refreshFromDisk().
RestoreSnapshot(name) ==
    \E file \in CopyOf(snap[name], current):
        /\ current' = file
        /\ dead' \in MetadataOf(file)
        /\ Note(snap[name], file)
        /\ UNCHANGED snap

\* revertToPristine().  Without a session there are no paths: no pristine file
\* is found, nothing is copied, and refreshFromDisk reads what was removed.
RevertToPristine ==
    /\ level' = 0
    /\ count' = 1
    /\ IF session # "open" \/ pristine = Missing
       THEN RestoreSnapshot(0) /\ UNCHANGED reverted
       ELSE /\ reverted' = TRUE
            /\ \E file \in CopyOf(pristine, current):
                 /\ current' = file
                 /\ dead' \in MetadataOf(file)
                 /\ \E first \in CopyOf(file, snap[0]):
                      /\ snap' = [snap EXCEPT ![0] = first]
                      /\ Note(pristine, first)

\* startEditingSession(): false, with everything but the path as the session
\* before left it, if the directory cannot be made.  The edit thread has no
\* part in these files, so that it is one step.
StartEditingSession ==
    \/ /\ session' = "open"
       /\ level' = 0 /\ count' = 1
       /\ reverted' = FALSE
       /\ pristineExists' = (pristine # Missing)
       /\ \E file \in CopyOf(photo, Missing), first \in {Missing, photo}:
            /\ first \in CopyOf(file, Missing)
            /\ current' = file
            /\ snap' = [NoSnapshots EXCEPT ![0] = first]
            /\ Note(photo, first)
    \/ /\ NoRoom
       /\ session' = "failed"
       /\ failures' = failures + 1
       /\ UNCHANGED <<current, snap, level, count, reverted, pristineExists>>

-----------------------------------------------------------------------------
(* photo-data.cpp and photo-edit-thread.cpp *)

\* asyncEdit(): refused while another edit is running.
AsyncEdit(edit) ==
    IF busy
    THEN UNCHANGED data
    ELSE /\ busy' = TRUE
         /\ thread' = [step |-> "load", edit |-> edit, image |-> Missing]

\* What an edit makes of a picture.
Edited(picture, edit) == IF edit = Zero THEN picture ELSE Append(picture, edit)

\* m_photo->file(), which the thread asks for anew at each of its steps.
File == IF path = "session" THEN current ELSE Missing

\* run(): load the picture.  A rotation goes straight to the metadata;
\* otherwise run returns early if there is no whole picture.
ThreadLoads ==
    /\ thread.step = "load"
    /\ IF File \in {Missing, Torn}
       THEN /\ thread' = [thread EXCEPT !.step = "done"]
            /\ dead' \in IF thread.edit = "rotate" THEN MetadataOf(File)
                         ELSE {FALSE}
       ELSE /\ thread' = [thread EXCEPT !.step = "save", !.image = File]
            /\ UNCHANGED dead
    /\ UNCHANGED <<disk, files, stack, busy, tools>>

\* image.save() opens the file, if its directory is there.
ThreadOpens ==
    /\ thread.step = "save"
    /\ IF File = Missing
       THEN /\ thread' = [thread EXCEPT !.step = "lost"]
            /\ UNCHANGED current
       ELSE /\ thread' = [thread EXCEPT !.step = "write"]
            /\ current' = Torn
    /\ UNCHANGED <<disk, snap, failures, stack, busy, tools, dead>>

\* What metadata is written to; that of a rotation is read already.
SavedMetadata(file) ==
    IF thread.edit = "rotate" THEN {FALSE} ELSE MetadataOf(file)

\* Without room the file stays torn, and is given the metadata all the same.
ThreadWrites ==
    /\ thread.step = "write"
    /\ thread' = [thread EXCEPT !.step = "done"]
    /\ \/ /\ current' = Edited(thread.image, thread.edit)
          /\ UNCHANGED <<failures, dead>>
       \/ /\ NoRoom
          /\ dead' \in SavedMetadata(Torn)
          /\ failures' = failures + 1
          /\ UNCHANGED current
    /\ UNCHANGED <<disk, snap, stack, busy, tools>>

\* What was saved to a file that was removed, before it was opened or since, is
\* lost.  The metadata goes to the file the photo has now.
ThreadWritesRemoved ==
    /\ thread.step = "lost"
    /\ thread' = [thread EXCEPT !.step = "done"]
    /\ dead' \in SavedMetadata(File)
    /\ UNCHANGED <<disk, files, stack, busy, tools>>

\* Mutant: m_busy is not reset.
FinishEditingBusy ==
    /\ thread.step = "done"
    /\ thread' = NoThread
    /\ UNCHANGED busy

\* finishEditing(), which the main thread runs once the thread has finished.
FinishEditing ==
    /\ thread.step = "done"
    /\ thread' = NoThread
    /\ busy' = FALSE

\* refreshFromDisk() reads the file; then onEditFinished: the exposure tool
\* makes the checkpoint itself when the user confirms.
EditFinished ==
    /\ call = "no"
    /\ FinishEditing
    /\ dead' \in MetadataOf(current)
    /\ IF adjusting \/ dead'
       THEN UNCHANGED <<level, count, snap, failures>>
       ELSE Checkpoint
    /\ UNCHANGED <<disk, current, session, path, reverted, pristineExists,
                   call, tools>>

ThreadSteps ==
    \/ ThreadLoads
    \/ ThreadOpens
    \/ ThreadWrites
    \/ ThreadWritesRemoved

-----------------------------------------------------------------------------
(* PhotoEditor.qml: what the user does, while the host shows the editor *)

Shown == session # "closed" /\ call = "no" /\ ~dialog

\* Bound: the picture can be edited once more.
Room(picture) == picture \in {Torn, Missing} \/ Len(picture) < host.edits

\* The tool bar takes taps until it has faded out.
BarTakesTaps == Shown /\ bar /\ ~busy

\* actionsEnabled
ActionsEnabled == ~adjusting /\ cropper = "hidden" /\ ~busy

Rotate ==
    /\ BarTakesTaps
    /\ level < host.levels /\ Room(current)
    /\ AsyncEdit("rotate")
    /\ UNCHANGED <<disk, files, stack, tools, dead>>

StartCropping ==
    /\ BarTakesTaps
    /\ cropper' = "shown"
    /\ UNCHANGED <<disk, files, stack, data, adjusting, exposure, bar, dialog,
                   dead>>

\* onCropped.  A crop made while an edit is running is refused.
Cropped ==
    /\ Shown /\ cropper = "shown" /\ ~adjusting
    /\ ~busy => level < host.levels /\ Room(current)
    /\ AsyncEdit("crop")
    /\ cropper' = "fading"
    /\ UNCHANGED <<disk, files, stack, adjusting, exposure, bar, dialog, dead>>

CropCanceled ==
    /\ Shown /\ cropper = "shown" /\ ~adjusting
    /\ cropper' = "fading"
    /\ UNCHANGED <<disk, files, stack, data, adjusting, exposure, bar, dialog,
                   dead>>

\* ExposureAdjuster.start() sets the slider back, which is a change of the
\* exposure unless it is there already.
StartAdjusting ==
    /\ BarTakesTaps
    /\ adjusting' = TRUE
    /\ exposure' = Zero
    /\ IF exposure = Zero
       THEN UNCHANGED <<files, data, dead>>
       ELSE RestoreSnapshot(level) /\ AsyncEdit(Zero)
    /\ UNCHANGED <<disk, stack, cropper, bar, dialog>>

\* onExposureChanged
ExposureChanged(value) ==
    /\ Shown /\ adjusting /\ ~busy
    /\ value # exposure
    /\ Room(IF snap[level] = Missing THEN current ELSE snap[level])
    /\ exposure' = value
    /\ RestoreSnapshot(level)
    /\ AsyncEdit(value)
    /\ UNCHANGED <<disk, stack, adjusting, cropper, bar, dialog>>

\* The exposure tool closes; the bar comes back if no cropper is under it.
Adjusted ==
    /\ Shown /\ adjusting /\ ~busy
    /\ adjusting' = FALSE
    /\ bar' = (bar \/ cropper = "hidden")
    /\ UNCHANGED <<disk, session, path, reverted, pristineExists, call, data,
                   exposure, cropper, dialog>>

Confirm ==
    /\ Adjusted
    /\ level < host.levels
    /\ Checkpoint
    /\ UNCHANGED <<current, dead>>

Cancel ==
    /\ Adjusted
    /\ RestoreSnapshot(level)
    /\ UNCHANGED <<level, count>>

\* Opacities are animated.
BarFades ==
    /\ bar /\ (adjusting \/ cropper # "hidden")
    /\ bar' = FALSE
    /\ UNCHANGED <<disk, files, stack, data, adjusting, exposure, cropper,
                   dialog, dead>>

CropperFades ==
    /\ cropper = "fading"
    /\ cropper' = "hidden"
    /\ bar' = (bar \/ ~adjusting)
    /\ UNCHANGED <<disk, files, stack, data, adjusting, exposure, dialog, dead>>

\* undoAction and redoAction: restoreSnapshot of the version before or after.
UndoOrRedo(to) ==
    /\ Shown /\ ActionsEnabled
    /\ RestoreSnapshot(to)
    /\ level' = to
    /\ UNCHANGED <<disk, session, path, count, reverted, pristineExists, call,
                   data, tools>>

Undo == count > 0 /\ level > 0 /\ UndoOrRedo(level - 1)
Redo == level < count - 1 /\ UndoOrRedo(level + 1)

\* revertAction opens the prompt, a modal dialog.
AskToRevert ==
    /\ BarTakesTaps /\ ActionsEnabled
    /\ level > 0 \/ (~reverted /\ pristineExists)
    /\ dialog' = TRUE
    /\ UNCHANGED <<disk, files, stack, data, adjusting, exposure, cropper, bar,
                   dead>>

\* The prompt is the application's: it stays when the host closes the editor.
ConfirmRevert ==
    /\ dialog /\ call = "no"
    /\ dialog' = FALSE
    /\ RevertToPristine
    /\ UNCHANGED <<disk, session, path, pristineExists, call, data, adjusting,
                   exposure, cropper, bar>>

CancelRevert ==
    /\ dialog /\ call = "no"
    /\ dialog' = FALSE
    /\ UNCHANGED <<disk, files, stack, data, adjusting, exposure, cropper, bar,
                   dead>>

UserActs ==
    \/ Rotate
    \/ StartCropping \/ Cropped \/ CropCanceled
    \/ StartAdjusting \/ Confirm \/ Cancel
    \/ \E value \in Exposure \cup {Zero}: ExposureChanged(value)
    \/ Undo \/ Redo
    \/ AskToRevert \/ ConfirmRevert \/ CancelRevert

-----------------------------------------------------------------------------
(* The host: open and close, in steps that the edit thread or a crash can  *)
(* come between                                                            *)

\* What the editor is doing when it is closed.
Situation ==
    IF busy THEN "busy"
    ELSE IF dialog THEN "dialog"
    ELSE IF adjusting \/ cropper # "hidden" THEN "tool"
    ELSE "idle"

\* open().  The host does not open a photo that a crash left half written.
Open ==
    /\ session = "closed" /\ call = "no" /\ photo # Torn
    /\ busy => Room(photo)
    /\ StartEditingSession
    /\ call' = "path"
    /\ UNCHANGED <<disk, path, data, tools, dead>>

\* Mutant: the path is set by the first session only.
SetPathOnce ==
    /\ call = "path"
    /\ IF current = Missing \/ path # "none"
       THEN call' = "no" /\ UNCHANGED path
       ELSE call' = "orientation" /\ path' = "session"
    /\ UNCHANGED <<disk, files, session, level, count, reverted,
                   pristineExists, data, tools, dead>>

\* setPath(): a file that is not there is not set.
SetPath ==
    /\ call = "path"
    /\ IF current = Missing
       THEN call' = "no" /\ UNCHANGED path
       ELSE call' = "orientation" /\ path' = "session"
    /\ UNCHANGED <<disk, files, session, level, count, reverted,
                   pristineExists, data, tools, dead>>

\* A thread that is told the new file may have torn it before this.
ReadOrientation ==
    /\ call = "orientation"
    /\ call' = "no"
    /\ dead' \in MetadataOf(current)
    /\ UNCHANGED <<disk, files, session, path, level, count, reverted,
                   pristineExists, data, tools>>

OpenSteps == SetPath \/ ReadOrientation

\* close(): endEditingSession saves only what was modified; without a session
\* it has no paths.
Close(saveIfModified) ==
    /\ session # "closed" /\ call = "no"
    /\ Situation \in host.calls
    /\ call' = IF saveIfModified /\ modified /\ session = "open" THEN "keep"
               ELSE "clear"
    /\ UNCHANGED <<disk, files, session, path, level, count, reverted,
                   pristineExists, data, tools, dead>>

\* Mutant: the pristine copy goes whatever was done after reverting to it.
PristineAfterRevert ==
    IF pristineExists /\ reverted THEN Missing
    ELSE IF pristineExists THEN pristine
    ELSE photo

\* What endEditingSession makes of the pristine file: it copies the photo if
\* there was no pristine file when the session started, and removes it if
\* the session reverted to it and nothing was done since.
PristineAfter ==
    IF pristineExists /\ reverted /\ level <= 0 THEN Missing
    ELSE IF pristineExists THEN pristine
    ELSE photo

\* The copy may fail, which is not looked at.
KeepPristine ==
    /\ call = "keep"
    /\ call' = "truncate"
    /\ \/ pristine' = PristineAfter /\ UNCHANGED failures
       \/ NoRoom /\ ~pristineExists /\ UNCHANGED pristine
                 /\ failures' = failures + 1
    /\ UNCHANGED <<photo, current, snap, session, path, level, count, reverted,
                   pristineExists, data, tools, dead>>

\* FileUtils.copy writes over a file that exists, if there is one to copy.
TruncatePhoto ==
    /\ call = "truncate"
    /\ IF current = Missing
       THEN call' = "clear" /\ UNCHANGED photo
       ELSE call' = "write" /\ photo' = Torn
    /\ UNCHANGED <<pristine, files, session, path, level, count, reverted,
                   pristineExists, data, tools, dead>>

WritePhoto ==
    /\ call = "write"
    /\ call' = "clear"
    /\ \E file \in CopyOf(current, photo): photo' = file /\ Note(current, file)
    /\ UNCHANGED <<pristine, current, snap, session, path, level, count, reverted,
                   pristineExists, data, tools, dead>>

\* The session directory is removed, under the thread if it is running, and
\* the editor emits closed.
ClearSession ==
    /\ call = "clear"
    /\ call' = "no"
    /\ session' = "closed"
    /\ current' = Missing /\ snap' = NoSnapshots
    /\ path' = IF path = "session" THEN "gone" ELSE path
    /\ thread' = IF thread.step = "write"
                 THEN [thread EXCEPT !.step = "lost"] ELSE thread
    /\ UNCHANGED <<disk, failures, level, count, reverted, pristineExists, busy,
                   tools, dead>>

CloseSteps ==
    \/ KeepPristine
    \/ TruncatePhoto
    \/ WritePhoto
    \/ ClearSession

\* The process dies, of itself or not, and is started again: nothing remains
\* but the photo and its pristine file (and a directory nobody looks at).
Restart ==
    /\ dead \/ host.crashes
    /\ current' = Missing /\ snap' = NoSnapshots
    /\ session' = "closed" /\ path' = "none" /\ call' = "no"
    /\ level' = 0 /\ count' = 0
    /\ reverted' = FALSE /\ pristineExists' = FALSE
    /\ thread' = NoThread /\ busy' = FALSE
    /\ adjusting' = FALSE /\ exposure' = Zero
    /\ cropper' = "hidden" /\ bar' = TRUE /\ dialog' = FALSE
    /\ dead' = FALSE /\ failures' = 0
    /\ UNCHANGED disk

Step ==
    \/ /\ ~dead
       /\ \/ UserActs
          \/ Open \/ OpenSteps
          \/ \E saveIfModified \in BOOLEAN: Close(saveIfModified)
          \/ CloseSteps
          \/ ThreadSteps
          \/ EditFinished
          \/ BarFades \/ CropperFades
    \/ Restart

Next == Step /\ UNCHANGED host

\* The edit thread is scheduled, open and close run to their end, and the main
\* thread serves its events in turn, so that nothing the host does keeps it
\* from the one that is queued for finishEditing.
Fairness ==
    /\ WF_vars(~dead /\ ThreadSteps /\ UNCHANGED host)
    /\ WF_vars(~dead /\ (OpenSteps \/ CloseSteps) /\ UNCHANGED host)
    /\ SF_vars(~dead /\ EditFinished /\ UNCHANGED host)

Spec == Init /\ [][Next]_vars /\ Fairness

-----------------------------------------------------------------------------
\* The host closes the editor at rest only, the process does not die, and what
\* is written has room.
HostWaits == host.calls \subseteq {"idle"} /\ ~host.crashes /\ host.fails = 0

\* With no edit running and no exposure being tried, and unless a file could
\* not be written, the file that is shown and would be saved is the snapshot
\* of the level: every undo, redo, revert, checkpoint and cancel brings the
\* two together (EditStack.qml:80-111).
AtLevel ==
    session = "open" /\ ~busy /\ ~adjusting /\ ~dead /\ failures = 0
        => current = snap[level]

\* Whenever the editor is not saving, the very first original is there: it is
\* the photo itself or its pristine file (EditStack.qml:61-71).
OriginalSaved ==
    call \notin {"keep", "truncate", "write"}
        => photo = First \/ pristine = First
OriginalKept == HostWaits => OriginalSaved

\* Even if the process dies at any step, no copy of the very first original
\* is left only while a revert is saved with no level above it, the pristine
\* file being removed before the photo is written, or in a session that began
\* without a pristine file and could not make one, which is not looked at
\* (EditStack.qml:62-73).
OnlyRevertDrops ==
    [][(photo = First \/ pristine = First)
         /\ ~(photo' = First \/ pristine' = First)
       => /\ call \in {"keep", "truncate"}
          /\ \/ reverted /\ level = 0
             \/ failures > 0 /\ ~pristineExists /\ pristine = Missing]_vars

\* The process uses metadata that is not there only when a file could not be
\* written, or after the host has closed the editor under an edit
\* or the prompt: then through the path of the session that ended, until
\* photoData.path is set again, or while that edit writes into the file of the
\* next session (EditStack.qml:41, 52, PhotoEditor.qml:78, photo-data.cpp:98,
\* 139-145, photo-edit-thread.cpp:112, 130).
DiesOfMishaps ==
    dead => \/ failures > 0
            \/ /\ host.calls \cap {"busy", "dialog"} # {}
               /\ path = "gone" \/ thread.step = "write"

\* An edit that is started ends and lets the user go on (photo-data.cpp:232),
\* unless the process dies of it.
EditEnds == busy ~> (~busy \/ dead)

\* The snapshots of the session, as a history of versions; with another host
\* a prompt of one session may revert the next.
History == INSTANCE EditHistory WITH
    Version <- Picture,
    versions <- IF session = "open" /\ HostWaits
                THEN [n \in 1..count |-> snap[n - 1]] ELSE <<>>,
    pos <- IF session = "open" /\ HostWaits THEN level + 1 ELSE 0

\* The undo stack and its files implement the history.
HistorySpec == History!Spec
=============================================================================
