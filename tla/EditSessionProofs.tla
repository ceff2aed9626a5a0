-------------------------- MODULE EditSessionProofs --------------------------
(* Proofs about EditSession: what any host, crashes and failing copies     *)
(* leave true of its files, the undo levels and the very first original    *)
(* with a host that waits, the types, and the abstract history the stack   *)
(* implements.                                                             *)
EXTENDS EditSession, SequenceTheorems, TLAPS

\* What a whole file can have, and what an edit makes of it.
Pictures == Seq(Edit)

LEMMA PicturesApart ==
    /\ First \in Pictures
    /\ Torn \notin Pictures /\ Missing \notin Pictures /\ Torn # Missing
  BY SessionAssumption DEF Pictures, First

LEMMA EditedPicture ==
    ASSUME NEW picture \in Pictures, NEW edit \in Edit \cup {Zero}
    PROVE  /\ Edited(picture, edit) \in Pictures
           /\ picture # First => Edited(picture, edit) # First
  <1> DEFINE S == Edit
  <1>1. CASE edit = Zero
    BY <1>1 DEF Edited
  <1>2. CASE edit # Zero
    <2>1. picture \in Seq(S) /\ edit \in S /\ Edited(picture, edit) = Append(picture, edit)
      BY <1>2 DEF Edited, Pictures
    <2> HIDE DEF S
    <2>2. Append(picture, edit) \in Seq(S) /\ Append(picture, edit) # <<>>
      BY <2>1
    <2>3. QED
      BY <2>1, <2>2 DEF Pictures, First, S
  <1>3. QED
    BY <1>1, <1>2

\* A behaviour's own bound on the levels is within the model's.
LEMMA LevelsBound ==
    ASSUME host \in Hosts PROVE host.levels \in Nat /\ host.levels <= MaxLevel
  BY SessionAssumption

\* FileUtils.copy leaves the source or, without room or without a source,
\* something else; the target is never removed.
LEMMA Copied ==
    ASSUME failures \in Nat, NEW source, NEW target,
           NEW file \in CopyOf(source, target), Note(source, file)
    PROVE  /\ file \in {source, target, Torn, Missing}
           /\ source = Missing => file = target
           /\ file = Missing => target = Missing
           /\ ~NoRoom /\ source # Missing => file = source
           /\ failures' \in Nat /\ (failures' = 0 => failures = 0)
           /\ failures' = 0 /\ source # Missing => file = source
           /\ failures' = failures \/ (failures' = failures + 1 /\ NoRoom)
  <1>1. CASE source = Missing
    BY <1>1 DEF CopyOf, Note
  <1>2. CASE source # Missing /\ ~NoRoom
    BY <1>2 DEF CopyOf, Note
  <1>3. CASE source # Missing /\ NoRoom
    <2>1. file \in {source, IF target = Missing THEN Missing ELSE Torn}
      BY <1>3 DEF CopyOf
    <2>2. failures' = IF file = source THEN failures ELSE failures + 1
      BY <1>3 DEF Note
    <2>3. failures + 1 \in Nat /\ failures + 1 # 0
      OBVIOUS
    <2>4. QED
      BY <1>3, <2>1, <2>2, <2>3, PicturesApart
  <1>4. QED
    BY <1>1, <1>2, <1>3

StackTypes ==
    /\ level \in Nat
    /\ count \in Nat
    /\ failures \in Nat
    /\ DOMAIN snap = 0..MaxLevel

\* The level shown is one of the items of a session.
Placed ==
    /\ level <= MaxLevel /\ count <= MaxLevel + 1
    /\ session = "open" => level < count

\* createSnapshot gives the item its own file: checkpoint puts what is shown
\* in the snapshot of the new level and leaves the ones below alone.
LEMMA CheckpointPlaces ==
    ASSUME StackTypes, Placed, level < MaxLevel, Checkpoint
    PROVE  /\ level' = level + 1 /\ level' \in 0..MaxLevel
           /\ count' \in Nat /\ count' <= MaxLevel + 1
           /\ session = "open" => count' = level + 2
           /\ \E nm \in 0..MaxLevel : \E f \in CopyOf(current, snap[nm]) :
                /\ count' = nm + 1
                /\ snap' = [snap EXCEPT ![nm] = f]
                /\ Note(current, f)
           /\ failures' \in Nat /\ (failures' = 0 => failures = 0)
           /\ failures' = failures \/ (failures' = failures + 1 /\ NoRoom)
           /\ DOMAIN snap' = 0..MaxLevel
           /\ session = "open" => \A n \in 0..level : snap'[n] = snap[n]
           /\ session = "open" /\ current # Missing
                /\ (failures' = 0 \/ ~NoRoom) => snap'[level'] = current
           /\ \A n \in 0..MaxLevel :
                snap'[n] \in {snap[n], current, Torn, Missing}
           /\ current = Missing => \A n \in 0..MaxLevel : snap'[n] = snap[n]
  <1> DEFINE name == IF count < level + 1 THEN count ELSE level + 1
  <1>1. /\ level \in Nat /\ count \in Nat /\ MaxLevel \in Nat
        /\ DOMAIN snap = 0..MaxLevel /\ failures \in Nat
    BY SessionAssumption DEF StackTypes
  <1>2. PICK file \in CopyOf(current, snap[name]) :
           /\ level' = level + 1 /\ count' = name + 1
           /\ snap' = [snap EXCEPT ![name] = file]
           /\ Note(current, file)
    BY DEF Checkpoint
  <1>3. name \in 0..MaxLevel /\ (session = "open" => name = level + 1)
    BY <1>1 DEF Placed
  <1>4. /\ file \in {current, snap[name], Torn, Missing}
        /\ current = Missing => file = snap[name]
        /\ ~NoRoom /\ current # Missing => file = current
        /\ failures' \in Nat /\ (failures' = 0 => failures = 0)
        /\ failures' = 0 /\ current # Missing => file = current
        /\ failures' = failures \/ (failures' = failures + 1 /\ NoRoom)
    BY <1>1, <1>2, Copied
  <1> HIDE DEF name
  <1>5. /\ DOMAIN snap' = 0..MaxLevel /\ snap'[name] = file
        /\ \A n \in 0..MaxLevel : n # name => snap'[n] = snap[n]
    BY <1>1, <1>2, <1>3
  <1>6. \A n \in 0..MaxLevel : snap'[n] \in {snap[n], current, Torn, Missing}
    BY <1>4, <1>5
  <1>7. current = Missing => \A n \in 0..MaxLevel : snap'[n] = snap[n]
    BY <1>4, <1>5
  <1>8. session = "open" =>
          /\ name = level + 1 /\ level' = name
          /\ \A n \in 0..level : n \in 0..MaxLevel /\ n # name
    BY <1>1, <1>2, <1>3
  <1>9. /\ level' = level + 1 /\ level' \in 0..MaxLevel
        /\ count' \in Nat /\ count' <= MaxLevel + 1
        /\ session = "open" => count' = level + 2
    BY <1>1, <1>2, <1>3
  <1>10. session = "open" => \A n \in 0..level : snap'[n] = snap[n]
    BY <1>5, <1>8
  <1>11. session = "open" /\ current # Missing /\ (failures' = 0 \/ ~NoRoom)
           => snap'[level'] = current
    BY <1>4, <1>5, <1>8
  <1>12. \E nm \in 0..MaxLevel : \E f \in CopyOf(current, snap[nm]) :
                /\ count' = nm + 1
                /\ snap' = [snap EXCEPT ![nm] = f]
                /\ Note(current, f)
    BY <1>2, <1>3
  <1>13. QED
    BY <1>4, <1>5, <1>6, <1>7, <1>9, <1>10, <1>11, <1>12

-----------------------------------------------------------------------------
(* Any host, with crashes and files that cannot be written.                *)

Sound ==
    /\ StackTypes
    /\ Placed
    /\ session \in {"open", "closed", "failed"}
    /\ path \in {"none", "session", "gone"}
    /\ call \in {"no", "path", "orientation", "keep", "truncate", "write",
                "clear"}
    /\ call # "no" => session # "closed"
    /\ call \in {"keep", "truncate", "write"} => session = "open"
    /\ path = "session" => session = "open" /\ current # Missing
    /\ call = "orientation" => path = "session"

\* Whole files are pictures.  There is none out of a session, nor any snapshot
\* in a session whose file could not be made.
FilesThere ==
    /\ photo \in Pictures \cup {Torn}
    /\ pristine \in Pictures \cup {Missing}
    /\ current \in Pictures \cup {Torn, Missing}
    /\ \A n \in 0..MaxLevel : snap[n] \in Pictures \cup {Torn, Missing}
    /\ session # "open" => current = Missing
    /\ current = Missing => \A n \in 0..MaxLevel : snap[n] = Missing
    /\ session = "open" /\ call \notin {"write", "clear"} => photo # Torn
    /\ call = "write" => photo = Torn

\* One thread for each edit.
ThreadSound ==
    /\ thread \in [step : {"none", "load", "save", "write", "lost", "done"},
                   edit : Edit \cup {Zero}, image : Pictures \cup {Missing}]
    /\ busy <=> thread.step # "none"
    /\ thread.step \in {"save", "write"} => thread.image # Missing
    /\ thread.step = "write" => current = Torn
    /\ dialog => ~busy
    /\ busy /\ ~adjusting => level < MaxLevel

\* Until a file cannot be written the files of a session are there, the path
\* names the one that is edited once open has set it, and only a host that
\* closes the editor under an edit or the prompt leaves them behind.
Intact ==
    failures = 0 =>
        /\ session # "failed"
        /\ session = "open" =>
              /\ current # Missing
              /\ \A n \in 0..count - 1 : snap[n] \in Pictures
              /\ path = "session" \/ call = "path"
        /\ current = Torn => thread.step = "write"
        /\ busy /\ (path # "session" \/ call # "no") => "busy" \in host.calls
        /\ dialog /\ (path # "session" \/ call # "no")
              => "dialog" \in host.calls

\* What endEditingSession goes by is what it was when the session began.
PristineSeen ==
    /\ session = "open" /\ call \in {"no", "path", "orientation", "keep"}
         => (pristineExists <=> pristine # Missing)
    /\ session = "open" /\ reverted => pristineExists
    /\ call \in {"keep", "truncate", "write"} => level > 0 \/ reverted

\* Neither the session nor the thread has the first original.
FirstNowhere ==
    /\ session = "open" => /\ current # First
                           /\ \A n \in 0..count - 1 : snap[n] # First
    /\ thread.step \in {"save", "write"} => thread.image # First

\* A pristine file that is not the first original, or a photo that is not and
\* has no pristine file, means that there is no copy left, not even in a thread
\* of a session before.
LostForGood ==
    /\ pristine \notin {First, Missing} => photo # First /\ FirstNowhere
    /\ session = "open" /\ call \in {"no", "path", "orientation", "keep"} =>
         (pristine = Missing /\ photo # First => FirstNowhere)
    /\ session # "open" \/ call = "clear" =>
         (pristine = Missing /\ photo \notin {First, Torn}
            => /\ current # First
               /\ thread.step \in {"save", "write"} => thread.image # First)

\* What the thread is going to save is what the session shows, but for a
\* thread of a session before, which nothing is modified under.
ThreadHasCurrent ==
    session = "open" /\ thread.step = "save"
      => current = thread.image \/ (level = 0 /\ ~reverted)

\* When the photo is about to be written over, what its pristine file is.
MayDrop ==
    \/ reverted /\ level = 0
    \/ failures > 0 /\ ~pristineExists /\ pristine = Missing

BeforeWriting ==
    call = "truncate" => pristine = First \/ photo # First \/ MayDrop

AnyInv ==
    /\ Sound
    /\ FilesThere
    /\ ThreadSound
    /\ Intact
    /\ PristineSeen
    /\ LostForGood
    /\ ThreadHasCurrent
    /\ BeforeWriting
    /\ DiesOfMishaps
    /\ AtLevel

\* While the editor is shown, and nothing has failed, the path is the session's.
LEMMA ShownInPlace ==
    ASSUME AnyInv, session # "closed", call = "no", failures = 0
    PROVE  session = "open" /\ path = "session"
  BY DEF AnyInv, Sound, Intact

LEMMA ToolsKeepAny ==
    ASSUME AnyInv, host \in Hosts, ~dead, UNCHANGED host,
           Rotate \/ StartCropping \/ Cropped \/ CropCanceled \/
           BarFades \/ CropperFades \/ AskToRevert \/ CancelRevert
    PROVE  AnyInv'
  <1>1. /\ UNCHANGED <<photo, pristine, current, snap, failures, session, path,
                       level, count, reverted, pristineExists, call, adjusting,
                       dead>>
        /\ \/ UNCHANGED <<thread, busy>> /\ (dialog' => dialog)
           \/ /\ UNCHANGED <<thread, busy>> /\ ~busy
              /\ session # "closed" /\ call = "no"
           \/ /\ ~busy /\ busy' /\ level < host.levels /\ ~dialog /\ ~dialog'
              /\ session # "closed" /\ call = "no"
              /\ \E edit \in {"rotate", "crop"} :
                   thread' = [step |-> "load", edit |-> edit, image |-> Missing]
    BY DEF Rotate, StartCropping, Cropped, CropCanceled, BarFades,
           CropperFades, AskToRevert, CancelRevert, AsyncEdit, BarTakesTaps,
           Shown, ActionsEnabled, disk, files, stack, data, tools
  <1>2. StackTypes' /\ Placed' /\ Sound' /\ FilesThere' /\ PristineSeen'
        /\ BeforeWriting' /\ DiesOfMishaps' /\ AtLevel'
    BY <1>1 DEF AnyInv, Sound, StackTypes, Placed, FilesThere, PristineSeen,
                BeforeWriting, MayDrop, DiesOfMishaps, AtLevel
  <1>3. CASE UNCHANGED <<thread, busy>> /\ (dialog' => dialog)
    BY <1>1, <1>2, <1>3 DEF AnyInv, ThreadSound, LostForGood, FirstNowhere,
                            ThreadHasCurrent, Intact
  <1>4. CASE /\ UNCHANGED <<thread, busy>> /\ ~busy
             /\ session # "closed" /\ call = "no"
    <2>1. ThreadSound' /\ LostForGood' /\ ThreadHasCurrent'
      BY <1>1, <1>4 DEF AnyInv, ThreadSound, LostForGood, FirstNowhere,
                        ThreadHasCurrent
    <2>2. Intact'
      BY <1>1, <1>4, ShownInPlace DEF AnyInv, Intact
    <2>3. QED
      BY <1>2, <2>1, <2>2 DEF AnyInv
  <1>5. CASE /\ ~busy /\ busy' /\ level < host.levels /\ ~dialog /\ ~dialog'
             /\ session # "closed" /\ call = "no"
             /\ \E edit \in {"rotate", "crop"} :
                   thread' = [step |-> "load", edit |-> edit, image |-> Missing]
    <2>1. level < MaxLevel
      <3>1. level \in Nat
        BY DEF AnyInv, Sound, StackTypes
      <3>2. QED
        BY <1>5, <3>1, LevelsBound, SessionAssumption
    <2>2. PICK edit \in {"rotate", "crop"} :
            thread' = [step |-> "load", edit |-> edit, image |-> Missing]
      BY <1>5
    <2>3. thread.step = "none"
      BY <1>5 DEF AnyInv, ThreadSound
    <2>4. ThreadSound'
      BY <1>1, <1>5, <2>1, <2>2, <2>3 DEF ThreadSound, Edit
    <2>5. LostForGood' /\ ThreadHasCurrent'
      BY <1>1, <2>2, <2>3 DEF AnyInv, LostForGood, FirstNowhere, ThreadHasCurrent
    <2>6. Intact'
      BY <1>1, <1>5, <2>2, <2>3, ShownInPlace DEF AnyInv, Intact
    <2>7. QED
      BY <1>2, <2>4, <2>5, <2>6 DEF AnyInv
  <1>6. QED
    BY <1>1, <1>3, <1>4, <1>5

\* What a session can put in its place: what it shows, a snapshot or the
\* pristine file, or what a copy that fails leaves.
Held == {current, Torn, Missing} \cup {snap[n] : n \in 0..count - 1}
          \cup ({pristine} \ {Missing})

LEMMA HeldPictures ==
    ASSUME AnyInv, session = "open"
    PROVE  /\ Held \subseteq Pictures \cup {Torn, Missing}
           /\ call = "no" /\ pristine # First /\ (pristine = Missing => photo # First)
                => First \notin Held
  <1>1. \A n \in 0..count - 1 : n \in 0..MaxLevel
    BY SessionAssumption DEF AnyInv, Sound, StackTypes, Placed
  <1>2. Held \subseteq Pictures \cup {Torn, Missing}
    BY <1>1 DEF AnyInv, FilesThere, Held
  <1>3. ASSUME call = "no", pristine # First, pristine = Missing => photo # First
        PROVE  First \notin Held
    <2>1. FirstNowhere
      BY <1>3 DEF AnyInv, LostForGood
    <2>2. QED
      BY <1>3, <2>1, PicturesApart DEF FirstNowhere, Held
  <1>4. QED
    BY <1>2, <1>3

\* A step of the main thread that puts what is held in its place, with no edit
\* running before it.
Replaces ==
    /\ level' \in Nat /\ count' \in Nat /\ failures' \in Nat
    /\ level' <= MaxLevel /\ count' <= MaxLevel + 1
    /\ DOMAIN snap' = 0..MaxLevel
    /\ current # Missing => current' # Missing
    /\ current' = Missing => \A n \in 0..MaxLevel : snap'[n] = Missing
    /\ \A n \in 0..MaxLevel : snap'[n] \in Pictures \cup {Torn, Missing}
    /\ session # "open" => current' = Missing
    /\ session = "open" => /\ level' < count' /\ current' \in Held
                           /\ \A n \in 0..count' - 1 : snap'[n] \in Held
    /\ failures' = 0 =>
         /\ failures = 0
         /\ session = "open" => /\ current' \in Pictures
                                /\ \A n \in 0..count' - 1 : snap'[n] \in Pictures
    /\ reverted' => reverted \/ (session = "open" /\ pristine # Missing)
    /\ \/ thread.step = "none" /\ UNCHANGED <<thread, busy>>
       \/ thread' = NoThread /\ ~busy'
       \/ /\ session # "closed" /\ busy' /\ adjusting' /\ ~dialog'
          /\ \E edit \in Edit \cup {Zero} :
               thread' = [step |-> "load", edit |-> edit, image |-> Missing]
    /\ dialog' => dialog
    /\ UNCHANGED <<photo, pristine, session, path, call, pristineExists, host>>
    /\ DiesOfMishaps' /\ AtLevel'

LEMMA ReplacingKeepsAny ==
    ASSUME AnyInv, call = "no", thread.step \in {"none", "done"}, Replaces
    PROVE  AnyInv'
  <1>1. Sound'
    BY DEF AnyInv, Sound, StackTypes, Placed, Replaces
  <1>2. PristineSeen' /\ BeforeWriting'
    BY DEF AnyInv, PristineSeen, BeforeWriting, Replaces
  <1>3. FilesThere'
    <2>1. current' \in Pictures \cup {Torn, Missing}
      BY HeldPictures DEF Replaces
    <2>2. QED
      BY <2>1 DEF AnyInv, FilesThere, Replaces
  <1>4. thread'.step \in {"none", "load"}
    BY DEF Replaces, NoThread
  <1>5. ThreadSound'
    <2>1. CASE thread.step = "none" /\ UNCHANGED <<thread, busy>>
      BY <2>1 DEF AnyInv, ThreadSound, Replaces
    <2>2. CASE thread' = NoThread /\ ~busy'
      BY <2>2 DEF AnyInv, ThreadSound, NoThread, Replaces
    <2>3. ASSUME busy', adjusting', ~dialog', NEW edit \in Edit \cup {Zero},
                 thread' = [step |-> "load", edit |-> edit, image |-> Missing]
          PROVE  ThreadSound'
      BY <2>3 DEF ThreadSound
    <2>4. QED
      BY <2>1, <2>2, <2>3 DEF Replaces
  <1>6. Intact'
    <2>1. SUFFICES ASSUME failures' = 0 PROVE Intact'
      BY DEF Intact
    <2>2. /\ failures = 0 /\ session # "failed" /\ UNCHANGED <<session, path, call, host>>
          /\ session = "open" =>
               /\ current' \in Pictures /\ \A n \in 0..count' - 1 : snap'[n] \in Pictures
               /\ path = "session"
          /\ session # "open" => current' = Missing
      BY <2>1 DEF AnyInv, Intact, Replaces
    <2>3. busy' /\ path # "session" => "busy" \in host.calls
      <3>1. CASE thread.step = "none" /\ UNCHANGED <<thread, busy>>
        BY <2>2, <3>1 DEF AnyInv, Intact
      <3>2. CASE ~busy'
        BY <3>2
      <3>3. CASE session # "closed"
        BY <2>2, <3>3 DEF AnyInv, Sound
      <3>4. QED
        BY <3>1, <3>2, <3>3 DEF Replaces
    <2>4. dialog' /\ path # "session" => "dialog" \in host.calls
      BY <2>2 DEF AnyInv, Intact, Replaces
    <2>5. current' # Torn
      BY <2>2, PicturesApart DEF AnyInv, Sound
    <2>6. QED
      BY <2>2, <2>3, <2>4, <2>5, PicturesApart DEF Intact
  <1>7. LostForGood'
    <2>1. ASSUME pristine # First, pristine = Missing => photo # First
          PROVE  FirstNowhere'
      <3>1. session = "open" => First \notin Held
        BY <2>1, HeldPictures
      <3>2. QED
        BY <1>4, <3>1 DEF FirstNowhere, Replaces
    <2>2. pristine \notin {First, Missing} => photo # First
      BY DEF AnyInv, LostForGood
    <2>3. /\ UNCHANGED <<photo, pristine, session, call>>
          /\ session # "open" => current' = Missing
      BY DEF Replaces
    <2>4. QED
      BY <1>4, <2>1, <2>2, <2>3, PicturesApart DEF LostForGood
  <1>8. ThreadHasCurrent'
    BY <1>4 DEF ThreadHasCurrent
  <1>9. DiesOfMishaps' /\ AtLevel'
    BY DEF Replaces
  <1>10. QED
    BY <1>1, <1>2, <1>3, <1>5, <1>6, <1>7, <1>8, <1>9 DEF AnyInv

\* What a session or an editor without one has at hand.
LEMMA SessionHolds ==
    ASSUME AnyInv
    PROVE  /\ level \in Nat /\ count \in Nat /\ failures \in Nat /\ MaxLevel \in Nat
           /\ level \in 0..MaxLevel /\ count <= MaxLevel + 1
           /\ DOMAIN snap = 0..MaxLevel
           /\ session = "open" => level \in 0..count - 1 /\ 0 \in 0..count - 1
           /\ current \in Held
           /\ \A n \in 0..count - 1 : snap[n] \in Held /\ n \in 0..MaxLevel
           /\ current = Missing => \A n \in 0..MaxLevel : snap[n] = Missing
           /\ session # "open" => current = Missing
           /\ \A n \in 0..MaxLevel : snap[n] \in Pictures \cup {Torn, Missing}
           /\ pristine \in Pictures \cup {Missing}
  <1>1. /\ level \in Nat /\ count \in Nat /\ failures \in Nat /\ MaxLevel \in Nat
        /\ level <= MaxLevel /\ count <= MaxLevel + 1
        /\ DOMAIN snap = 0..MaxLevel
        /\ session = "open" => level < count
    BY SessionAssumption DEF AnyInv, Sound, StackTypes, Placed
  <1>2. \A n \in 0..count - 1 : n \in 0..MaxLevel
    BY <1>1
  <1>3. /\ level \in 0..MaxLevel
        /\ session = "open" => level \in 0..count - 1 /\ 0 \in 0..count - 1
    BY <1>1
  <1>4. QED
    BY <1>1, <1>2, <1>3 DEF Held, AnyInv, FilesThere

\* With no edit running the file of a session that has lost none is whole.
LEMMA WholeAtRest ==
    ASSUME AnyInv, failures = 0, session = "open",
           thread.step \in {"none", "done"}
    PROVE  current \in Pictures /\ \A n \in 0..count - 1 : snap[n] \in Pictures
  BY DEF AnyInv, Intact, FilesThere

\* What restoring a version, or reverting, leaves.
Puts ==
    /\ failures' \in Nat
    /\ DOMAIN snap' = 0..MaxLevel
    /\ current # Missing => current' # Missing
    /\ current' = Missing => \A n \in 0..MaxLevel : snap'[n] = Missing
    /\ \A n \in 0..MaxLevel : snap'[n] \in Pictures \cup {Torn, Missing}
    /\ session # "open" => current' = Missing
    /\ session = "open" => /\ current' \in Held
                           /\ \A n \in 0..count' - 1 : snap'[n] \in Held
    /\ failures' = 0 =>
         /\ failures = 0
         /\ session = "open" => /\ current' \in Pictures
                                /\ \A n \in 0..count' - 1 : snap'[n] \in Pictures
    /\ dead' => failures' > 0 \/ (session # "open" /\ path = "gone")

\* The metadata of a file that is there is used, if nothing has failed.
LEMMA Refreshed ==
    ASSUME AnyInv, call = "no", NEW file, dead' \in MetadataOf(file),
           failures = 0, session = "open" => file \in Pictures
    PROVE  dead' => session # "open" /\ path = "gone"
  <1>1. CASE session = "open"
    <2>1. path = "session"
      BY <1>1, ShownInPlace
    <2>2. MetadataOf(file) = {FALSE}
      BY <1>1, <2>1, PicturesApart DEF MetadataOf
    <2>3. QED
      BY <2>2
  <1>2. CASE session # "open"
    <2>1. path \in {"none", "gone"}
      BY <1>2 DEF AnyInv, Sound
    <2>2. QED
      BY <1>2, <2>1 DEF MetadataOf
  <1>3. QED
    BY <1>1, <1>2

LEMMA RestoringPuts ==
    ASSUME AnyInv, call = "no", thread.step = "none", NEW n \in 0..MaxLevel,
           session = "open" => n \in 0..count - 1,
           RestoreSnapshot(n),
           session = "open" => count' \in Nat /\ count' <= count
    PROVE  /\ Puts /\ snap' = snap
           /\ failures' = 0 /\ session = "open" => current' = snap[n]
  <1>1. PICK file \in CopyOf(snap[n], current) :
           /\ current' = file /\ dead' \in MetadataOf(file)
           /\ Note(snap[n], file) /\ snap' = snap
    BY DEF RestoreSnapshot
  <1>2. failures \in Nat
    BY SessionHolds
  <1>3. /\ file \in {snap[n], current, Torn, Missing}
        /\ snap[n] = Missing => file = current
        /\ file = Missing => current = Missing
        /\ failures' \in Nat /\ (failures' = 0 => failures = 0)
        /\ failures' = 0 /\ snap[n] # Missing => file = snap[n]
    BY <1>1, <1>2, Copied
  <1>4. session # "open" => current' = Missing
    BY <1>1, <1>3, SessionHolds
  <1>5. session = "open" => \A m \in 0..count' - 1 : m \in 0..count - 1
    BY SessionHolds
  <1>6. session = "open" => /\ current' \in Held
                            /\ \A m \in 0..count' - 1 : snap'[m] \in Held
    <2>1. session = "open" => snap[n] \in Held /\ current \in Held
      BY SessionHolds
    <2>2. QED
      BY <1>1, <1>3, <1>5, <2>1, SessionHolds DEF Held
  <1>7. failures' = 0 =>
          /\ failures = 0
          /\ session = "open" => /\ current' \in Pictures
                                 /\ \A m \in 0..count' - 1 : snap'[m] \in Pictures
    BY <1>1, <1>3, <1>5, WholeAtRest, PicturesApart
  <1>8. dead' => failures' > 0 \/ (session # "open" /\ path = "gone")
    <2>1. CASE failures' = 0
      <3>1. failures = 0 /\ (session = "open" => file \in Pictures)
        BY <1>1, <1>7, <2>1
      <3>2. QED
        BY <1>1, <3>1, Refreshed
    <2>2. CASE failures' # 0
      BY <1>3, <2>2
    <2>3. QED
      BY <2>1, <2>2
  <1>9. /\ current # Missing => current' # Missing
        /\ current' = Missing => \A m \in 0..MaxLevel : snap'[m] = Missing
    BY <1>1, <1>3, SessionHolds
  <1>10. failures' = 0 /\ session = "open" => current' = snap[n]
    BY <1>1, <1>3, WholeAtRest, PicturesApart
  <1>11. QED
    BY <1>10, <1>1, <1>3, <1>4, <1>6, <1>7, <1>8, <1>9, SessionHolds DEF Puts

LEMMA RevertingPuts ==
    ASSUME AnyInv, call = "no", thread.step = "none", RevertToPristine
    PROVE  /\ Puts /\ level' = 0 /\ count' = 1
           /\ failures' = 0 /\ session = "open" => current' = snap'[0]
           /\ reverted' => reverted \/ (session = "open" /\ pristine # Missing)
  <1>1. level' = 0 /\ count' = 1 /\ 0 \in 0..MaxLevel
    BY SessionHolds DEF RevertToPristine
  <1>2. CASE session # "open" \/ pristine = Missing
    <2>1. RestoreSnapshot(0) /\ UNCHANGED reverted
      BY <1>2 DEF RevertToPristine
    <2>2. session = "open" => 0 \in 0..count - 1 /\ count' \in Nat /\ count' <= count
      BY <1>1, SessionHolds
    <2>3. QED
      BY <1>1, <2>1, <2>2, RestoringPuts
  <1>3. CASE session = "open" /\ pristine # Missing
    <2>1. PICK file \in CopyOf(pristine, current) :
            /\ current' = file /\ dead' \in MetadataOf(file)
            /\ \E first \in CopyOf(file, snap[0]) :
                 /\ snap' = [snap EXCEPT ![0] = first]
                 /\ Note(pristine, first)
      BY <1>3 DEF RevertToPristine
    <2>2. PICK first \in CopyOf(file, snap[0]) :
            /\ snap' = [snap EXCEPT ![0] = first]
            /\ Note(pristine, first)
      BY <2>1
    <2>3. /\ failures \in Nat /\ pristine \in Pictures
          /\ DOMAIN snap = 0..MaxLevel
          /\ snap[0] \in Pictures \cup {Torn, Missing}
      BY <1>1, <1>3, SessionHolds
    <2>4. /\ file \in {pristine, Torn, Missing}
          /\ file = Missing => current = Missing
          /\ ~NoRoom => file = pristine
      BY <1>3, <2>1, <2>3, PicturesApart DEF CopyOf
    <2>5. /\ first \in {file, snap[0], Torn, Missing}
          /\ file = Missing => first = snap[0]
      BY <2>2, PicturesApart DEF CopyOf
    <2>6. /\ failures' \in Nat
          /\ failures' = 0 => failures = 0 /\ first = pristine
      BY <1>3, <2>2, <2>3 DEF Note
    <2>7. /\ DOMAIN snap' = 0..MaxLevel /\ snap'[0] = first
          /\ \A m \in 0..MaxLevel : m # 0 => snap'[m] = snap[m]
      BY <1>1, <2>2, <2>3
    <2>8. failures' = 0 => file = pristine
      <3>1. SUFFICES ASSUME failures' = 0, file # pristine PROVE FALSE
        OBVIOUS
      <3>2. first = pristine
        BY <2>6, <3>1
      <3>3. file \in {Torn, Missing} /\ pristine \notin {Torn, Missing}
        BY <2>3, <2>4, <3>1, PicturesApart
      <3>4. CASE file = Missing
        BY <1>1, <2>4, <2>5, <3>2, <3>3, <3>4, SessionHolds
      <3>5. CASE file = Torn
        <4>1. first \in {Torn, Missing}
          BY <2>2, <3>5, PicturesApart DEF CopyOf
        <4>2. QED
          BY <3>2, <3>3, <4>1
      <3>6. QED
        BY <3>3, <3>4, <3>5
    <2>9. /\ current # Missing => current' # Missing
          /\ current' = Missing => \A m \in 0..MaxLevel : snap'[m] = Missing
      <3>1. ASSUME file = Missing
            PROVE  \A m \in 0..MaxLevel : snap'[m] = Missing
        BY <1>1, <2>4, <2>5, <2>7, <3>1, SessionHolds
      <3>2. QED
        BY <2>1, <2>4, <3>1
    <2>10. \A m \in 0..MaxLevel : snap'[m] \in Pictures \cup {Torn, Missing}
      <3>1. first \in Pictures \cup {Torn, Missing}
        BY <2>3, <2>4, <2>5
      <3>2. QED
        BY <2>7, <3>1, SessionHolds
    <2>11. current' \in Held /\ snap'[0] \in Held
      <3>1. pristine \in Held /\ snap[0] \in Held
        BY <1>3, SessionHolds DEF Held
      <3>2. file \in Held /\ first \in Held
        BY <2>4, <2>5, <3>1 DEF Held
      <3>3. QED
        BY <2>1, <2>7, <3>2
    <2>12. \A m \in 0..count' - 1 : m = 0
      BY <1>1
    <2>13. failures' = 0 => /\ failures = 0 /\ current' \in Pictures
                            /\ snap'[0] \in Pictures
      BY <2>1, <2>3, <2>6, <2>7, <2>8
    <2>14. dead' => failures' > 0
      <3>1. CASE failures' = 0
        <4>1. failures = 0 /\ file \in Pictures
          BY <2>1, <2>13, <3>1
        <4>2. QED
          BY <1>3, <2>1, <4>1, Refreshed
      <3>2. CASE failures' # 0
        BY <2>6, <3>2
      <3>3. QED
        BY <3>1, <3>2
    <2>15. Puts
      BY <1>3, <2>6, <2>7, <2>9, <2>10, <2>11, <2>12, <2>13, <2>14 DEF Puts
    <2>16. failures' = 0 => current' = snap'[0]
      BY <2>1, <2>6, <2>7, <2>8
    <2>17. QED
      BY <1>1, <1>3, <2>15, <2>16
  <1>4. QED
    BY <1>2, <1>3

LEMMA RestoringKeepsAny ==
    ASSUME AnyInv, ~dead, UNCHANGED host,
           \/ StartAdjusting \/ Cancel \/ Undo \/ Redo
           \/ \E value \in Exposure \cup {Zero} : ExposureChanged(value)
    PROVE  AnyInv'
  <1>1. /\ session # "closed" /\ call = "no" /\ ~busy /\ ~dialog
        /\ UNCHANGED <<photo, pristine, session, path, call, pristineExists,
                       dialog, reverted, count>>
    BY DEF StartAdjusting, Cancel, Adjusted, Undo, Redo, UndoOrRedo,
           ExposureChanged, RestoreSnapshot, AsyncEdit, ActionsEnabled,
           BarTakesTaps, Shown, disk, files, stack, data, tools
  <1>2. thread.step = "none"
    BY <1>1 DEF AnyInv, ThreadSound
  <1>3. ASSUME Puts, level' \in 0..MaxLevel,
               session = "open" => level' < count,
               \/ /\ UNCHANGED <<thread, busy>>
                  /\ failures' = 0 /\ session = "open" => current' = snap'[level']
               \/ /\ busy' /\ adjusting'
                  /\ \E edit \in Edit \cup {Zero} :
                       thread' = [step |-> "load", edit |-> edit, image |-> Missing]
        PROVE  AnyInv'
    <2>1. DiesOfMishaps'
      BY <1>1, <1>3, ShownInPlace DEF Puts, DiesOfMishaps
    <2>2. /\ count' \in Nat /\ count' <= MaxLevel + 1 /\ level' \in Nat
          /\ level' <= MaxLevel
      BY <1>1, <1>3, SessionHolds
    <2>3. AtLevel'
      BY <1>1, <1>3 DEF AtLevel
    <2>4. Replaces
      BY <1>1, <1>2, <1>3, <2>1, <2>2, <2>3 DEF Puts, Replaces
    <2>5. QED
      BY <1>1, <1>2, <2>4, ReplacingKeepsAny
  <1>4. ASSUME NEW n \in 0..MaxLevel, session = "open" => n \in 0..count - 1,
               RestoreSnapshot(n)
        PROVE  /\ Puts /\ snap' = snap
               /\ failures' = 0 /\ session = "open" => current' = snap[n]
    <2>1. session = "open" => count' \in Nat /\ count' <= count
      BY <1>1, SessionHolds
    <2>2. QED
      BY <1>1, <1>2, <1>4, <2>1, RestoringPuts
  <1>5. CASE StartAdjusting /\ exposure = Zero
    <2>1. UNCHANGED <<stack, files, data, dead, disk, dialog>> /\ adjusting'
      BY <1>1, <1>5 DEF StartAdjusting
    <2>2. adjusting' /\ UNCHANGED <<photo, pristine, current, snap, failures, session, path, call,
                      level, count, reverted, pristineExists, thread, busy,
                      dialog, dead>>
      BY <2>1 DEF stack, files, data, disk
    <2>3. QED
      BY <1>1, <2>2 DEF AnyInv, Sound, StackTypes, Placed, FilesThere, ThreadSound,
         PristineSeen, LostForGood, FirstNowhere, ThreadHasCurrent, BeforeWriting,
         Intact, DiesOfMishaps, AtLevel
  <1>6. ASSUME StartAdjusting \/ (\E value \in Exposure \cup {Zero} : ExposureChanged(value)),
               ~(StartAdjusting /\ exposure = Zero)
        PROVE  AnyInv'
    <2>1. PICK edit \in Edit \cup {Zero} :
            /\ UNCHANGED stack /\ adjusting' /\ RestoreSnapshot(level)
            /\ AsyncEdit(edit)
      <3>1. ASSUME StartAdjusting, exposure # Zero
            PROVE  /\ UNCHANGED stack /\ adjusting' /\ RestoreSnapshot(level)
                   /\ AsyncEdit(Zero) /\ Zero \in Edit \cup {Zero}
        BY <3>1 DEF StartAdjusting
      <3>2. ASSUME NEW value \in Exposure \cup {Zero}, ExposureChanged(value)
            PROVE  /\ UNCHANGED stack /\ adjusting' /\ RestoreSnapshot(level)
                   /\ AsyncEdit(value) /\ value \in Edit \cup {Zero}
        BY <3>2 DEF ExposureChanged, Edit, tools
      <3>3. QED
        BY <1>6, <3>1, <3>2
    <2>2. /\ UNCHANGED level /\ adjusting' /\ busy'
          /\ thread' = [step |-> "load", edit |-> edit, image |-> Missing]
      BY <1>1, <2>1 DEF AsyncEdit, stack
    <2>3. Puts
      BY <1>4, <2>1, SessionHolds
    <2>4. level' \in 0..MaxLevel /\ (session = "open" => level' < count)
      BY <2>2, SessionHolds
    <2>5. QED
      BY <1>3, <2>2, <2>3, <2>4
  <1>7. CASE Cancel
    <2>1. UNCHANGED <<level, thread, busy>> /\ RestoreSnapshot(level)
      BY <1>7 DEF Cancel, Adjusted, data
    <2>2. /\ Puts /\ snap' = snap
          /\ failures' = 0 /\ session = "open" => current' = snap[level]
      BY <1>4, <2>1, SessionHolds
    <2>3. QED
      BY <1>3, <2>1, <2>2, SessionHolds
  <1>8. ASSUME NEW to \in 0..MaxLevel, session = "open" => to \in 0..count - 1,
               UndoOrRedo(to)
        PROVE  AnyInv'
    <2>1. level' = to /\ UNCHANGED <<thread, busy>> /\ RestoreSnapshot(to)
      BY <1>8 DEF UndoOrRedo, data
    <2>2. /\ Puts /\ snap' = snap
          /\ failures' = 0 /\ session = "open" => current' = snap[to]
      BY <1>4, <1>8, <2>1
    <2>3. session = "open" => level' < count
      BY <1>8, <2>1, SessionHolds
    <2>4. QED
      BY <1>3, <1>8, <2>1, <2>2, <2>3
  <1>9. CASE Undo
    <2>1. /\ level - 1 \in 0..MaxLevel /\ UndoOrRedo(level - 1)
          /\ session = "open" => level - 1 \in 0..count - 1
      BY <1>9, SessionHolds DEF Undo
    <2>2. QED
      BY <1>8, <2>1
  <1>10. CASE Redo
    <2>1. /\ level + 1 \in 0..MaxLevel /\ UndoOrRedo(level + 1)
          /\ session = "open" => level + 1 \in 0..count - 1
      BY <1>10, SessionHolds DEF Redo
    <2>2. QED
      BY <1>8, <2>1
  <1>11. QED
    BY <1>5, <1>6, <1>7, <1>9, <1>10

LEMMA ConfirmRevertKeepsAny ==
    ASSUME AnyInv, ~dead, UNCHANGED host, ConfirmRevert
    PROVE  AnyInv'
  <1>1. /\ call = "no" /\ ~busy /\ thread.step = "none" /\ dialog /\ ~dialog'
        /\ UNCHANGED <<photo, pristine, session, path, call, pristineExists,
                       thread, busy, adjusting>>
        /\ RevertToPristine
    BY DEF ConfirmRevert, AnyInv, ThreadSound, disk, data
  <1>2. /\ Puts /\ level' = 0 /\ count' = 1
        /\ failures' = 0 /\ session = "open" => current' = snap'[0]
        /\ reverted' => reverted \/ (session = "open" /\ pristine # Missing)
    BY <1>1, RevertingPuts
  <1>3. DiesOfMishaps' /\ AtLevel'
    BY <1>1, <1>2 DEF Puts, DiesOfMishaps, AtLevel, AnyInv, Intact
  <1>4. Replaces
    BY <1>1, <1>2, <1>3, SessionHolds DEF Puts, Replaces
  <1>5. QED
    BY <1>1, <1>4, ReplacingKeepsAny

\* A checkpoint holds what was shown, with no edit running.
LEMMA CheckpointHolds ==
    ASSUME AnyInv, level < MaxLevel, Checkpoint,
           thread.step \in {"none", "done"}
    PROVE  /\ level' \in Nat /\ count' \in Nat /\ failures' \in Nat
           /\ level' <= MaxLevel /\ count' <= MaxLevel + 1
           /\ DOMAIN snap' = 0..MaxLevel
           /\ current = Missing => \A n \in 0..MaxLevel : snap'[n] = Missing
           /\ \A n \in 0..MaxLevel : snap'[n] \in Pictures \cup {Torn, Missing}
           /\ session = "open" => /\ level' < count'
                                  /\ \A n \in 0..count' - 1 : snap'[n] \in Held
           /\ failures' = 0 =>
                /\ failures = 0
                /\ session = "open" =>
                     /\ current \in Pictures
                     /\ \A n \in 0..count' - 1 : snap'[n] \in Pictures
                     /\ snap'[level'] = current
  <1>1. StackTypes /\ Placed
    BY DEF AnyInv, Sound
  <1>2. /\ level' = level + 1 /\ level' \in 0..MaxLevel
        /\ count' \in Nat /\ count' <= MaxLevel + 1
        /\ session = "open" => count' = level + 2
        /\ failures' \in Nat /\ (failures' = 0 => failures = 0)
        /\ DOMAIN snap' = 0..MaxLevel
        /\ session = "open" => \A n \in 0..level : snap'[n] = snap[n]
        /\ session = "open" /\ current # Missing /\ failures' = 0
             => snap'[level'] = current
        /\ \A n \in 0..MaxLevel :
             snap'[n] \in {snap[n], current, Torn, Missing}
        /\ current = Missing => \A n \in 0..MaxLevel : snap'[n] = snap[n]
    BY <1>1, CheckpointPlaces
  <1>3. /\ current = Missing => \A n \in 0..MaxLevel : snap'[n] = Missing
        /\ \A n \in 0..MaxLevel : snap'[n] \in Pictures \cup {Torn, Missing}
    <2>1. current \in Pictures \cup {Torn, Missing}
      BY DEF AnyInv, FilesThere
    <2>2. QED
      BY <1>2, <2>1, SessionHolds
  <1>4. session = "open" =>
          \A n \in 0..count' - 1 :
             (n \in 0..level /\ n \in 0..count - 1) \/ n = level'
    BY <1>2, SessionHolds
  <1>5. session = "open" => snap'[level'] \in Held
    <2>1. CASE current = Missing
      BY <1>2, <1>3, <2>1 DEF Held
    <2>2. CASE current # Missing /\ session = "open"
      <3>1. PICK nm \in 0..MaxLevel : \E f \in CopyOf(current, snap[nm]) :
                /\ count' = nm + 1
                /\ snap' = [snap EXCEPT ![nm] = f]
                /\ Note(current, f)
        BY <1>1, CheckpointPlaces
      <3>2. PICK f \in CopyOf(current, snap[nm]) : snap' = [snap EXCEPT ![nm] = f]
        BY <3>1
      <3>3. nm = level' /\ snap'[nm] = f
        BY <1>2, <2>2, <3>1, <3>2, SessionHolds
      <3>4. f \in {current, Torn, Missing}
        BY <2>2, <3>2 DEF CopyOf
      <3>5. QED
        BY <3>3, <3>4 DEF Held
    <2>3. QED
      BY <2>1, <2>2
  <1>6. session = "open" => \A n \in 0..count' - 1 : snap'[n] \in Held
    BY <1>2, <1>4, <1>5, SessionHolds
  <1>7. session = "open" /\ failures' = 0 =>
          /\ current \in Pictures
          /\ \A n \in 0..count' - 1 : snap'[n] \in Pictures
          /\ snap'[level'] = current
    BY <1>2, <1>4, WholeAtRest, PicturesApart
  <1>8. level' \in Nat /\ level' <= MaxLevel /\ (session = "open" => level' < count')
    BY <1>2, SessionHolds
  <1>9. QED
    BY <1>2, <1>3, <1>6, <1>7, <1>8

LEMMA ConfirmKeepsAny ==
    ASSUME AnyInv, host \in Hosts, ~dead, UNCHANGED host, Confirm
    PROVE  AnyInv'
  <1>1. /\ session # "closed" /\ call = "no" /\ ~busy /\ level < host.levels
        /\ Checkpoint
        /\ UNCHANGED <<photo, pristine, session, path, call, pristineExists,
                       thread, busy, dialog, reverted, current, dead>>
    BY DEF Confirm, Adjusted, Shown, disk, data
  <1>2. thread.step = "none"
    BY <1>1 DEF AnyInv, ThreadSound
  <1>3. level < MaxLevel
    BY <1>1, SessionHolds, LevelsBound
  <1>4. DiesOfMishaps' /\ AtLevel'
    BY <1>1, <1>2, <1>3, CheckpointHolds DEF DiesOfMishaps, AtLevel
  <1>5. Replaces
    BY <1>1, <1>2, <1>3, <1>4, CheckpointHolds, SessionHolds DEF Replaces
  <1>6. QED
    BY <1>1, <1>2, <1>5, ReplacingKeepsAny

LEMMA EditFinishedKeepsAny ==
    ASSUME AnyInv, ~dead, UNCHANGED host, EditFinished
    PROVE  AnyInv'
  <1>1. /\ thread.step = "done" /\ busy /\ call = "no"
        /\ thread' = NoThread /\ ~busy'
        /\ UNCHANGED <<photo, pristine, current, session, path, reverted,
                       pristineExists, call, adjusting, dialog>>
        /\ dead' \in MetadataOf(current)
    BY DEF EditFinished, FinishEditing, AnyInv, ThreadSound, disk, tools
  <1>2. failures = 0 /\ dead' => path = "gone" /\ "busy" \in host.calls
    <2>1. failures = 0 /\ session = "open" => current \in Pictures
      BY <1>1, WholeAtRest
    <2>2. failures = 0 /\ dead' => session # "open" /\ path = "gone"
      BY <1>1, <2>1, Refreshed
    <2>3. QED
      BY <1>1, <2>2 DEF AnyInv, Intact
  <1>3. CASE adjusting \/ dead'
    <2>1. UNCHANGED <<level, count, snap, failures>>
      BY <1>3 DEF EditFinished
    <2>2. DiesOfMishaps' /\ AtLevel'
      BY <1>1, <1>2, <1>3, <2>1, SessionHolds DEF DiesOfMishaps, AtLevel
    <2>3. failures = 0 /\ session = "open" =>
            current \in Pictures /\ \A n \in 0..count - 1 : snap[n] \in Pictures
      BY <1>1, WholeAtRest
    <2>4. /\ level' \in Nat /\ count' \in Nat /\ failures' \in Nat
          /\ level' <= MaxLevel /\ count' <= MaxLevel + 1
          /\ session = "open" => level' < count'
      BY <2>1, SessionHolds
    <2>5. Replaces
      BY <1>1, <2>1, <2>2, <2>3, <2>4, SessionHolds DEF Replaces
    <2>6. QED
      BY <1>1, <2>5, ReplacingKeepsAny
  <1>4. CASE ~adjusting /\ ~dead'
    <2>1. Checkpoint /\ level < MaxLevel
      BY <1>1, <1>4 DEF EditFinished, AnyInv, ThreadSound
    <2>2. DiesOfMishaps' /\ AtLevel'
      BY <1>1, <1>4, <2>1, CheckpointHolds DEF DiesOfMishaps, AtLevel
    <2>3. Replaces
      BY <1>1, <2>1, <2>2, CheckpointHolds, SessionHolds DEF Replaces
    <2>4. QED
      BY <1>1, <2>3, ReplacingKeepsAny
  <1>5. QED
    BY <1>3, <1>4

\* With no failure the thread's file is there while the editor waits for it,
\* unless the host has closed the editor under the edit.
LEMMA BusyPlaces ==
    ASSUME AnyInv, busy, failures = 0
    PROVE  /\ path = "session" =>
                current # Missing /\ (current = Torn => thread.step = "write")
           /\ path # "session" \/ call # "no" => "busy" \in host.calls
           /\ path # "session" => "busy" \in host.calls
  BY DEF AnyInv, Intact, Sound

\* What the thread finds without metadata is what a closed session left.
LEMMA ThreadReads ==
    ASSUME AnyInv, busy, failures = 0, thread.step # "write",
           dead' \in MetadataOf(File), dead'
    PROVE  path = "gone" /\ "busy" \in host.calls
  <1>1. CASE path = "session"
    <2>1. current \notin {Missing, Torn}
      BY <1>1, BusyPlaces
    <2>2. MetadataOf(File) = {FALSE}
      BY <1>1, <2>1 DEF MetadataOf, File
    <2>3. QED
      BY <2>2
  <1>2. CASE path # "session"
    <2>1. path \in {"none", "gone"}
      BY <1>2 DEF AnyInv, Sound
    <2>2. QED
      BY <1>2, <2>1, BusyPlaces DEF MetadataOf
  <1>3. QED
    BY <1>1, <1>2

LEMMA ThreadKeepsAny ==
    ASSUME AnyInv, ~dead, UNCHANGED host, ThreadSteps
    PROVE  AnyInv'
  <1> DEFINE Threads == [step : {"none", "load", "save", "write", "lost", "done"},
                         edit : Edit \cup {Zero}, image : Pictures \cup {Missing}]
  <1>1. /\ UNCHANGED <<photo, pristine, snap, session, path, level, count,
                       reverted, pristineExists, call, busy, adjusting, dialog>>
        /\ thread.step # "none" /\ thread \in Threads /\ busy
    BY DEF ThreadSteps, ThreadLoads, ThreadOpens, ThreadWrites,
           ThreadWritesRemoved, disk, files, stack, tools, AnyInv, ThreadSound
  <1>2. /\ PristineSeen' /\ AtLevel'
        /\ failures \in Nat
    BY <1>1 DEF AnyInv, Sound, StackTypes, PristineSeen, AtLevel
  <1>3. File \in Pictures \cup {Torn, Missing}
    BY PicturesApart DEF AnyInv, FilesThere, File
  <1>4. CASE ThreadLoads
    <2>1. /\ UNCHANGED <<current, failures>> /\ thread.step = "load"
      BY <1>4 DEF ThreadLoads, files
    <2>2. Sound' /\ FilesThere' /\ BeforeWriting'
      BY <1>1, <2>1 DEF AnyInv, Sound, StackTypes, Placed, FilesThere,
         BeforeWriting, MayDrop
    <2>3. CASE File \in {Missing, Torn}
      <3>1. /\ thread' = [thread EXCEPT !.step = "done"]
            /\ dead' \in IF thread.edit = "rotate" THEN MetadataOf(File)
                         ELSE {FALSE}
        BY <1>4, <2>3 DEF ThreadLoads
      <3>2. thread' \in Threads /\ thread'.step = "done"
        BY <1>1, <3>1
      <3>3. DiesOfMishaps'
        <4>1. ASSUME dead', failures = 0
              PROVE  path = "gone" /\ "busy" \in host.calls
          <5>1. dead' \in MetadataOf(File) /\ thread.step # "write"
            BY <2>1, <3>1, <4>1
          <5>2. QED
            BY <1>1, <4>1, <5>1, ThreadReads
        <4>2. failures' > 0 \/ failures = 0
          BY <1>2, <2>1
        <4>3. UNCHANGED <<path, host>>
          BY <1>1
        <4>4. QED
          BY <4>1, <4>2, <4>3 DEF DiesOfMishaps
      <3>4. ThreadSound' /\ Intact'
        BY <1>1, <2>1, <3>2 DEF AnyInv, ThreadSound, Intact
      <3>5. LostForGood' /\ ThreadHasCurrent'
        BY <1>1, <2>1, <3>2 DEF AnyInv, LostForGood, FirstNowhere, ThreadHasCurrent
      <3>6. QED
        BY <1>2, <2>2, <3>3, <3>4, <3>5 DEF AnyInv
    <2>4. CASE File \notin {Missing, Torn}
      <3>1. /\ thread' = [thread EXCEPT !.step = "save", !.image = File]
            /\ UNCHANGED dead
        BY <1>4, <2>4 DEF ThreadLoads
      <3>2. path = "session" /\ File = current /\ session = "open"
        BY <2>4 DEF File, AnyInv, Sound
      <3>3. /\ thread'.step = "save" /\ thread'.image = current
            /\ thread' \in Threads
        BY <1>1, <1>3, <2>4, <3>1, <3>2
      <3>4. ThreadSound' /\ Intact' /\ DiesOfMishaps'
        BY <1>1, <2>1, <2>4, <3>1, <3>2, <3>3
        DEF AnyInv, ThreadSound, Intact, DiesOfMishaps
      <3>5. LostForGood' /\ ThreadHasCurrent'
        BY <1>1, <2>1, <3>2, <3>3
        DEF AnyInv, LostForGood, FirstNowhere, ThreadHasCurrent
      <3>6. QED
        BY <1>2, <2>2, <3>4, <3>5 DEF AnyInv
    <2>5. QED
      BY <2>3, <2>4
  <1>5. CASE ThreadOpens
    <2>1. thread.step = "save" /\ UNCHANGED <<failures, dead>>
      BY <1>5 DEF ThreadOpens
    <2>2. CASE File = Missing
      <3>1. /\ thread' = [thread EXCEPT !.step = "lost"] /\ UNCHANGED current
        BY <1>5, <2>2 DEF ThreadOpens
      <3>2. thread' \in Threads /\ thread'.step = "lost"
        BY <1>1, <3>1
      <3>3. QED
        BY <1>1, <1>2, <2>1, <3>1, <3>2
        DEF AnyInv, Sound, StackTypes, Placed, FilesThere, ThreadSound, Intact,
            LostForGood, FirstNowhere, ThreadHasCurrent, BeforeWriting, MayDrop,
            DiesOfMishaps
    <2>3. CASE File # Missing
      <3>1. /\ thread' = [thread EXCEPT !.step = "write"] /\ current' = Torn
            /\ session = "open" /\ current # Missing
        BY <1>5, <2>3 DEF ThreadOpens, File, AnyInv, Sound
      <3>2. /\ thread' \in Threads /\ thread'.step = "write"
            /\ thread'.image = thread.image
        BY <1>1, <3>1
      <3>3. Sound' /\ FilesThere' /\ BeforeWriting' /\ DiesOfMishaps'
        BY <1>1, <2>1, <3>1, PicturesApart
        DEF AnyInv, Sound, StackTypes, Placed, FilesThere, BeforeWriting,
            MayDrop, DiesOfMishaps
      <3>4. ThreadSound' /\ Intact'
        BY <1>1, <2>1, <3>1, <3>2, PicturesApart DEF AnyInv, ThreadSound, Intact
      <3>5. LostForGood' /\ ThreadHasCurrent'
        BY <1>1, <2>1, <3>1, <3>2, PicturesApart
        DEF AnyInv, LostForGood, FirstNowhere, ThreadHasCurrent
      <3>6. QED
        BY <1>2, <3>3, <3>4, <3>5 DEF AnyInv
    <2>4. QED
      BY <2>2, <2>3
  <1>6. CASE ThreadWrites
    <2>1. /\ thread.step = "write" /\ current = Torn
          /\ thread.image \in Pictures /\ thread.edit \in Edit \cup {Zero}
          /\ thread' = [thread EXCEPT !.step = "done"]
          /\ session = "open"
      BY <1>1, <1>6, PicturesApart DEF ThreadWrites, AnyInv, ThreadSound, FilesThere
    <2>2. thread' \in Threads /\ thread'.step = "done"
      BY <1>1, <2>1
    <2>3. CASE /\ current' = Edited(thread.image, thread.edit)
               /\ UNCHANGED <<failures, dead>>
      <3>1. current' \in Pictures /\ (thread.image # First => current' # First)
        BY <2>1, <2>3, EditedPicture
      <3>2. Sound' /\ FilesThere' /\ BeforeWriting' /\ DiesOfMishaps'
        BY <1>1, <2>1, <2>3, <3>1, PicturesApart
        DEF AnyInv, Sound, StackTypes, Placed, FilesThere, BeforeWriting, MayDrop,
            DiesOfMishaps
      <3>3. ThreadSound' /\ Intact'
        BY <1>1, <2>1, <2>2, <2>3, <3>1, PicturesApart
        DEF AnyInv, ThreadSound, Intact
      <3>4. LostForGood' /\ ThreadHasCurrent'
        BY <1>1, <2>1, <2>2, <3>1
        DEF AnyInv, LostForGood, FirstNowhere, ThreadHasCurrent
      <3>5. QED
        BY <1>2, <3>2, <3>3, <3>4 DEF AnyInv
    <2>4. CASE failures' = failures + 1 /\ UNCHANGED current
      <3>1. failures' \in Nat /\ failures' > 0
        BY <1>2, <2>4
      <3>2. Sound' /\ FilesThere' /\ BeforeWriting' /\ DiesOfMishaps'
        BY <1>1, <2>4, <3>1
        DEF AnyInv, Sound, StackTypes, Placed, FilesThere, BeforeWriting, MayDrop,
            DiesOfMishaps
      <3>3. ThreadSound' /\ Intact'
        BY <1>1, <2>2, <2>4, <3>1 DEF AnyInv, ThreadSound, Intact
      <3>4. LostForGood' /\ ThreadHasCurrent'
        BY <1>1, <2>1, <2>2, <2>4
        DEF AnyInv, LostForGood, FirstNowhere, ThreadHasCurrent
      <3>5. QED
        BY <1>2, <3>2, <3>3, <3>4 DEF AnyInv
    <2>5. QED
      BY <1>6, <2>3, <2>4 DEF ThreadWrites
  <1>7. CASE ThreadWritesRemoved
    <2>1. /\ thread.step = "lost" /\ UNCHANGED <<current, failures>>
          /\ thread' = [thread EXCEPT !.step = "done"]
          /\ dead' \in IF thread.edit = "rotate" THEN {FALSE} ELSE MetadataOf(File)
      BY <1>7 DEF ThreadWritesRemoved, SavedMetadata, files
    <2>2. thread' \in Threads /\ thread'.step = "done"
      BY <1>1, <2>1
    <2>3. DiesOfMishaps'
      <3>1. ASSUME dead', failures = 0
            PROVE  path = "gone" /\ "busy" \in host.calls
        <4>1. dead' \in MetadataOf(File) /\ thread.step # "write"
          BY <2>1, <3>1
        <4>2. QED
          BY <1>1, <3>1, <4>1, ThreadReads
      <3>2. failures' > 0 \/ failures = 0
        BY <1>2, <2>1
      <3>3. UNCHANGED <<path, host>>
        BY <1>1
      <3>4. QED
        BY <3>1, <3>2, <3>3 DEF DiesOfMishaps
    <2>4. QED
      BY <1>1, <1>2, <2>1, <2>2, <2>3
      DEF AnyInv, Sound, StackTypes, Placed, FilesThere, ThreadSound, Intact,
          LostForGood, FirstNowhere, ThreadHasCurrent, BeforeWriting, MayDrop
  <1>8. QED
    BY <1>4, <1>5, <1>6, <1>7 DEF ThreadSteps

\* A new session starts from the photo, as far as it can be copied.
LEMMA OpenKeepsAny ==
    ASSUME AnyInv, ~dead, UNCHANGED host, Open
    PROVE  AnyInv'
  <1>1. /\ session = "closed" /\ photo \in Pictures /\ call = "no"
        /\ current = Missing /\ thread.step # "write" /\ MaxLevel \in Nat
        /\ failures \in Nat /\ path \in {"none", "gone"}
        /\ call' = "path"
        /\ UNCHANGED <<photo, pristine, path, thread, busy, adjusting, dialog,
                       dead>>
    BY PicturesApart, SessionAssumption
    DEF Open, AnyInv, Sound, StackTypes, FilesThere, ThreadSound, disk, data, tools
  <1>2. ThreadSound' /\ ThreadHasCurrent' /\ BeforeWriting' /\ DiesOfMishaps'
        /\ Intact' /\ Sound' /\ FilesThere' /\ PristineSeen' /\ LostForGood'
        /\ AtLevel'
    <2>1. CASE /\ NoRoom /\ session' = "failed" /\ failures' = failures + 1
               /\ UNCHANGED <<current, snap, level, count, reverted,
                              pristineExists>>
      <3>1. failures' \in Nat /\ failures' # 0
        BY <1>1, <2>1
      <3>2. QED
        BY <1>1, <2>1, <3>1, PicturesApart
        DEF AnyInv, Sound, StackTypes, Placed, FilesThere, ThreadSound, Intact,
            PristineSeen, LostForGood, FirstNowhere, ThreadHasCurrent,
            BeforeWriting, DiesOfMishaps, AtLevel
    <2>2. CASE /\ session' = "open" /\ level' = 0 /\ count' = 1
               /\ reverted' = FALSE /\ pristineExists' = (pristine # Missing)
               /\ \E file \in CopyOf(photo, Missing), first \in {Missing, photo}:
                    /\ first \in CopyOf(file, Missing)
                    /\ current' = file
                    /\ snap' = [NoSnapshots EXCEPT ![0] = first]
                    /\ Note(photo, first)
      <3>1. PICK file \in CopyOf(photo, Missing), first \in {Missing, photo} :
                    /\ first \in CopyOf(file, Missing)
                    /\ current' = file
                    /\ snap' = [NoSnapshots EXCEPT ![0] = first]
                    /\ Note(photo, first)
        BY <2>2
      <3>2. photo # Missing /\ photo # Torn
        BY <1>1, PicturesApart
      <3>3. file \in {photo, Missing} /\ (file = Missing => first = Missing)
        BY <3>1, <3>2 DEF CopyOf
      <3>4. /\ failures' \in Nat
            /\ failures' = 0 => failures = 0 /\ first = photo
        BY <1>1, <3>1, <3>2 DEF Note
      <3>5. /\ DOMAIN snap' = 0..MaxLevel /\ snap'[0] = first
            /\ \A n \in 0..MaxLevel : n # 0 => snap'[n] = Missing
            /\ \A n \in 0..count' - 1 : n = 0
        BY <1>1, <2>2, <3>1 DEF NoSnapshots
      <3>6. Sound' /\ DiesOfMishaps'
        <4>1. StackTypes' /\ Placed'
          BY <1>1, <2>2, <3>4, <3>5 DEF StackTypes, Placed
        <4>2. QED
          BY <1>1, <2>2, <4>1 DEF AnyInv, Sound, DiesOfMishaps
      <3>7. FilesThere'
        BY <1>1, <2>2, <3>1, <3>2, <3>3, <3>5 DEF AnyInv, FilesThere
      <3>8. ThreadSound'
        <4>1. 0 < MaxLevel \/ ~(busy /\ ~adjusting)
          BY <1>1, SessionHolds DEF AnyInv, ThreadSound
        <4>2. QED
          BY <1>1, <2>2, <4>1 DEF AnyInv, ThreadSound
      <3>9. Intact'
        BY <1>1, <2>2, <3>1, <3>2, <3>3, <3>4, <3>5 DEF AnyInv, Intact
      <3>10. PristineSeen' /\ BeforeWriting'
        <4>1. pristineExists' <=> pristine' # Missing
          BY <1>1, <2>2
        <4>2. QED
          BY <1>1, <2>2, <4>1 DEF PristineSeen, BeforeWriting
      <3>11. LostForGood' /\ ThreadHasCurrent'
        <4>1. first # First \/ photo = First
          BY <3>1, PicturesApart
        <4>2. current' # First \/ photo = First
          BY <3>1, <3>3, PicturesApart
        <4>3. QED
          BY <1>1, <2>2, <3>2, <3>5, <4>1, <4>2, PicturesApart
          DEF AnyInv, LostForGood, FirstNowhere, ThreadHasCurrent
      <3>12. AtLevel'
        BY <2>2, <3>1, <3>2, <3>4, <3>5 DEF AtLevel, CopyOf
      <3>13. QED
        BY <3>6, <3>7, <3>8, <3>9, <3>10, <3>11, <3>12
    <2>3. QED
      BY <2>1, <2>2 DEF Open, StartEditingSession
  <1>3. QED
    BY <1>2 DEF AnyInv

\* open gives the path of the session's file, if it is there, and reads it.
LEMMA OpenStepsKeepAny ==
    ASSUME AnyInv, ~dead, UNCHANGED host, OpenSteps
    PROVE  AnyInv'
  <1>1. /\ call \in {"path", "orientation"} /\ call' \in {"no", "orientation"}
        /\ UNCHANGED <<photo, pristine, current, snap, failures, session, level,
                       count, reverted, pristineExists, thread, busy, adjusting,
                       dialog>>
        /\ path' = path \/ (path' = "session" /\ current # Missing)
        /\ call' = "orientation" => path' = "session"
        /\ session # "closed"
    BY DEF OpenSteps, SetPath, ReadOrientation, disk, files, data, tools,
           AnyInv, Sound
  <1>2. current # Missing => session = "open"
    BY DEF AnyInv, FilesThere
  <1>3. Sound'
    BY <1>1, <1>2 DEF AnyInv, Sound, StackTypes, Placed
  <1>4. FilesThere' /\ ThreadSound' /\ PristineSeen' /\ ThreadHasCurrent'
        /\ BeforeWriting' /\ AtLevel'
    BY <1>1 DEF AnyInv, FilesThere, ThreadSound, PristineSeen, ThreadHasCurrent,
       BeforeWriting, AtLevel
  <1>5. LostForGood'
    BY <1>1 DEF AnyInv, LostForGood, FirstNowhere
  <1>6. Intact'
    <2>1. CASE SetPath
      <3>1. call = "path"
        BY <2>1 DEF SetPath
      <3>2. current # Missing => path' = "session"
        BY <2>1 DEF SetPath
      <3>3. QED
        BY <1>1, <3>1, <3>2 DEF AnyInv, Intact
    <2>2. CASE ReadOrientation
      BY <1>1, <2>2 DEF ReadOrientation, AnyInv, Intact, Sound
    <2>3. QED
      BY <2>1, <2>2 DEF OpenSteps
  <1>7. DiesOfMishaps'
    <2>1. CASE SetPath
      BY <2>1 DEF SetPath, DiesOfMishaps
    <2>2. CASE ReadOrientation
      <3>1. /\ call = "orientation" /\ path = "session" /\ current # Missing
            /\ dead' \in MetadataOf(current)
            /\ UNCHANGED <<failures, thread, path>>
        BY <2>2 DEF ReadOrientation, AnyInv, Sound, files, data
      <3>2. dead' => current = Torn
        BY <3>1 DEF MetadataOf
      <3>3. current = Torn /\ failures = 0 =>
              thread.step = "write" /\ "busy" \in host.calls
        BY <3>1 DEF AnyInv, Intact, ThreadSound
      <3>4. failures = 0 \/ failures > 0
        BY SessionHolds
      <3>5. QED
        BY <3>1, <3>2, <3>3, <3>4 DEF DiesOfMishaps
    <2>3. QED
      BY <2>1, <2>2 DEF OpenSteps
  <1>8. QED
    BY <1>3, <1>4, <1>5, <1>6, <1>7 DEF AnyInv

LEMMA CloseKeepsAny ==
    ASSUME AnyInv, ~dead, UNCHANGED host, NEW s \in BOOLEAN, Close(s)
    PROVE  AnyInv'
  <1>1. /\ session # "closed" /\ call = "no"
        /\ \/ call' = "clear"
           \/ call' = "keep" /\ modified /\ session = "open"
        /\ Situation \in host.calls
        /\ UNCHANGED <<photo, pristine, current, snap, failures, session, path,
                       level, count, reverted, pristineExists, thread, busy,
                       adjusting, dialog, dead>>
    BY DEF Close, disk, files, data, tools
  <1>2. /\ busy => "busy" \in host.calls
        /\ dialog => "dialog" \in host.calls
    BY <1>1 DEF Situation, AnyInv, ThreadSound
  <1>3. Sound' /\ FilesThere' /\ ThreadSound' /\ PristineSeen' /\ BeforeWriting'
    BY <1>1 DEF AnyInv, Sound, StackTypes, Placed, FilesThere, ThreadSound,
                PristineSeen, BeforeWriting, modified
  <1>4. LostForGood' /\ ThreadHasCurrent' /\ DiesOfMishaps' /\ AtLevel'
    BY <1>1 DEF AnyInv, LostForGood, FirstNowhere, ThreadHasCurrent, DiesOfMishaps,
       AtLevel
  <1>5. Intact'
    BY <1>1, <1>2 DEF AnyInv, Intact
  <1>6. QED
    BY <1>3, <1>4, <1>5 DEF AnyInv

LEMMA SavingKeepsAny ==
    ASSUME AnyInv, ~dead, UNCHANGED host, CloseSteps
    PROVE  AnyInv'
  <1>1. /\ session # "closed" /\ failures \in Nat
        /\ UNCHANGED <<level, count, reverted, pristineExists, busy, adjusting,
                       dialog, dead, host>>
        /\ DiesOfMishaps'
    BY DEF CloseSteps, KeepPristine, TruncatePhoto, WritePhoto, ClearSession,
           AnyInv, Sound, StackTypes, data, tools, DiesOfMishaps
  <1>2. ASSUME session = "open", UNCHANGED <<current, snap, session, path, thread>>,
               failures' = failures \/ failures' = failures + 1,
               call # "path", call # "no", call' # "path"
        PROVE  Intact' /\ AtLevel'
    <2>1. failures' = 0 => failures = 0
      BY <1>1, <1>2
    <2>2. QED
      BY <1>1, <1>2, <2>1 DEF AnyInv, Intact, AtLevel
  <1>3. CASE KeepPristine
    <2>1. /\ call = "keep" /\ call' = "truncate" /\ session = "open"
          /\ \/ pristine' = PristineAfter /\ UNCHANGED failures
             \/ /\ failures' = failures + 1 /\ ~pristineExists
                /\ UNCHANGED pristine
          /\ UNCHANGED <<photo, current, snap, session, path, thread>>
      BY <1>3 DEF KeepPristine, data, AnyInv, Sound
    <2>2. /\ photo \in Pictures /\ (pristineExists <=> pristine # Missing)
          /\ level \in Nat
      BY <1>1, <2>1 DEF AnyInv, Sound, StackTypes, FilesThere, PristineSeen
    <2>3. Sound' /\ ThreadSound' /\ PristineSeen' /\ ThreadHasCurrent'
      BY <1>1, <2>1, <2>2
      DEF AnyInv, Sound, StackTypes, Placed, ThreadSound, PristineSeen,
          ThreadHasCurrent
    <2>4. FilesThere' /\ Intact' /\ AtLevel'
      BY <1>1, <1>2, <2>1, <2>2, PicturesApart
      DEF AnyInv, FilesThere, PristineAfter
    <2>5. LostForGood'
      BY <1>1, <2>1, <2>2, PicturesApart
      DEF AnyInv, LostForGood, FirstNowhere, PristineAfter
    <2>6. BeforeWriting'
      <3>1. CASE pristine' = PristineAfter
        BY <1>1, <2>1, <2>2, <3>1
        DEF AnyInv, LostForGood, PristineSeen, BeforeWriting, MayDrop,
            PristineAfter
      <3>2. CASE failures' = failures + 1 /\ ~pristineExists /\ UNCHANGED pristine
        BY <1>1, <2>1, <2>2, <3>2 DEF BeforeWriting, MayDrop
      <3>3. QED
        BY <2>1, <3>1, <3>2
    <2>7. QED
      BY <1>1, <2>3, <2>4, <2>5, <2>6 DEF AnyInv
  <1>4. CASE TruncatePhoto
    <2>1. /\ call = "truncate" /\ session = "open"
          /\ UNCHANGED <<pristine, current, snap, failures, session, path, thread>>
          /\ \/ current = Missing /\ call' = "clear" /\ UNCHANGED photo
             \/ current # Missing /\ call' = "write" /\ photo' = Torn
      BY <1>4 DEF TruncatePhoto, files, data, AnyInv, Sound
    <2>2. /\ level > 0 \/ reverted
          /\ level \in Nat
      BY <2>1 DEF AnyInv, Sound, StackTypes, PristineSeen
    <2>3. /\ Sound' /\ FilesThere' /\ ThreadSound' /\ PristineSeen'
          /\ ThreadHasCurrent' /\ BeforeWriting'
      BY <1>1, <2>1
      DEF AnyInv, Sound, StackTypes, Placed, FilesThere, ThreadSound,
          PristineSeen, ThreadHasCurrent, BeforeWriting
    <2>4. Intact' /\ AtLevel'
      BY <1>2, <2>1
    <2>5. LostForGood'
      <3>1. CASE current = Missing
        <4>1. thread.step \notin {"save", "write"}
          BY <2>1, <2>2, <3>1, PicturesApart
          DEF AnyInv, ThreadSound, ThreadHasCurrent
        <4>2. QED
          BY <1>1, <2>1, <3>1, <4>1, PicturesApart
          DEF AnyInv, LostForGood, FirstNowhere
      <3>2. CASE current # Missing
        BY <1>1, <2>1, <3>2, PicturesApart DEF AnyInv, LostForGood, FirstNowhere
      <3>3. QED
        BY <3>1, <3>2
    <2>6. QED
      BY <1>1, <2>3, <2>4, <2>5 DEF AnyInv
  <1>5. CASE WritePhoto
    <2>1. /\ call = "write" /\ call' = "clear" /\ session = "open"
          /\ photo = Torn
          /\ UNCHANGED <<pristine, current, snap, session, path, thread>>
      BY <1>5 DEF WritePhoto, data, AnyInv, Sound, FilesThere
    <2>2. PICK file \in CopyOf(current, photo) :
            photo' = file /\ Note(current, file)
      BY <1>5 DEF WritePhoto
    <2>3. /\ current \in Pictures \cup {Torn, Missing} /\ (level > 0 \/ reverted)
          /\ level \in Nat
      BY <2>1 DEF AnyInv, Sound, StackTypes, FilesThere, PristineSeen
    <2>4. /\ photo' = Torn \/ (photo' = current /\ current # Missing)
          /\ failures' = failures \/ failures' = failures + 1
          /\ failures' \in Nat
      BY <1>1, <2>1, <2>2, PicturesApart DEF CopyOf, Note
    <2>5. /\ Sound' /\ FilesThere' /\ ThreadSound' /\ PristineSeen'
          /\ ThreadHasCurrent' /\ BeforeWriting'
      BY <1>1, <2>1, <2>3, <2>4, PicturesApart
      DEF AnyInv, Sound, StackTypes, Placed, FilesThere, ThreadSound,
          PristineSeen, ThreadHasCurrent, BeforeWriting
    <2>6. Intact' /\ AtLevel'
      BY <1>2, <2>1, <2>4
    <2>7. LostForGood'
      <3>1. pristine \notin {First, Missing} => photo' # First /\ FirstNowhere'
        BY <1>1, <2>1, <2>4, PicturesApart DEF AnyInv, LostForGood, FirstNowhere
      <3>2. photo' \notin {First, Torn} =>
              /\ current' # First
              /\ thread'.step \in {"save", "write"} => thread'.image # First
        BY <1>1, <2>1, <2>3, <2>4 DEF AnyInv, ThreadSound, ThreadHasCurrent
      <3>3. QED
        BY <1>1, <2>1, <3>1, <3>2 DEF LostForGood
    <2>8. QED
      BY <1>1, <2>5, <2>6, <2>7 DEF AnyInv
  <1>6. CASE ClearSession
    <2>1. /\ call = "clear" /\ call' = "no" /\ session' = "closed"
          /\ current' = Missing /\ DOMAIN snap' = 0..MaxLevel
          /\ \A n \in 0..MaxLevel : snap'[n] = Missing
          /\ path' # "session"
          /\ path' \in {"none", "gone"}
          /\ UNCHANGED <<photo, pristine, failures>>
      BY <1>6 DEF ClearSession, disk, NoSnapshots, AnyInv, Sound
    <2>2. /\ thread' \in [step : {"none", "load", "save", "write", "lost", "done"},
                          edit : Edit \cup {Zero}, image : Pictures \cup {Missing}]
          /\ thread'.step # "write"
          /\ (thread'.step = "none" <=> thread.step = "none")
          /\ (thread'.step = "save" => thread' = thread)
      BY <1>6 DEF ClearSession, AnyInv, ThreadSound
    <2>3. Sound' /\ FilesThere' /\ PristineSeen' /\ ThreadHasCurrent' /\ BeforeWriting'
      BY <1>1, <2>1
      DEF AnyInv, Sound, StackTypes, Placed, FilesThere, PristineSeen,
          ThreadHasCurrent, BeforeWriting
    <2>4. ThreadSound'
      BY <1>1, <2>1, <2>2, PicturesApart DEF AnyInv, ThreadSound
    <2>5. LostForGood'
      BY <1>1, <2>1, <2>2, PicturesApart DEF AnyInv, LostForGood, FirstNowhere
    <2>6. Intact' /\ AtLevel'
      BY <1>1, <2>1, PicturesApart DEF AnyInv, Intact, AtLevel
    <2>7. QED
      BY <1>1, <2>3, <2>4, <2>5, <2>6 DEF AnyInv
  <1>7. QED
    BY <1>3, <1>4, <1>5, <1>6 DEF CloseSteps

LEMMA RestartKeepsAny ==
    ASSUME AnyInv, Restart
    PROVE  AnyInv'
  <1>1. /\ DOMAIN NoSnapshots = 0..MaxLevel /\ NoThread.step = "none"
        /\ \A n \in 0..MaxLevel : NoSnapshots[n] = Missing
    BY DEF NoSnapshots, NoThread
  <1>2. NoThread \in [step : {"none", "load", "save", "write", "lost", "done"},
                      edit : Edit \cup {Zero}, image : Pictures \cup {Missing}]
    BY DEF NoThread
  <1>3. QED
    BY <1>1, <1>2, PicturesApart, SessionAssumption
    DEF AnyInv, Sound, StackTypes, Placed, FilesThere, ThreadSound, Intact,
        PristineSeen, LostForGood, FirstNowhere, ThreadHasCurrent, BeforeWriting,
        DiesOfMishaps, AtLevel, Restart, disk

LEMMA AnyNextKeeps ==
    ASSUME AnyInv, host \in Hosts, [Next]_vars
    PROVE  AnyInv'
  <1>1. CASE UNCHANGED vars
    BY <1>1
    DEF AnyInv, Sound, StackTypes, Placed, FilesThere, ThreadSound, Intact,
        PristineSeen, LostForGood, FirstNowhere, ThreadHasCurrent, BeforeWriting,
        MayDrop, DiesOfMishaps, AtLevel, vars, disk, files, stack, data, tools
  <1>2. CASE Step /\ UNCHANGED host
    <2>1. CASE ~dead /\ UserActs
      BY <1>2, <2>1, ToolsKeepAny, RestoringKeepsAny, ConfirmKeepsAny,
         ConfirmRevertKeepsAny DEF UserActs
    <2>2. CASE ~dead /\ (Open \/ OpenSteps \/ \E s \in BOOLEAN : Close(s))
      BY <1>2, <2>2, OpenKeepsAny, OpenStepsKeepAny, CloseKeepsAny
    <2>3. CASE ~dead /\ (CloseSteps \/ ThreadSteps \/ EditFinished)
      BY <1>2, <2>3, SavingKeepsAny, ThreadKeepsAny, EditFinishedKeepsAny
    <2>4. CASE ~dead /\ (BarFades \/ CropperFades)
      BY <1>2, <2>4, ToolsKeepAny
    <2>5. CASE Restart
      BY <2>5, RestartKeepsAny
    <2>6. QED
      BY <1>2, <2>1, <2>2, <2>3, <2>4, <2>5 DEF Step
  <1>3. QED
    BY <1>1, <1>2 DEF Next

LEMMA AnyInit == Init => AnyInv
  <1>1. SUFFICES ASSUME Init PROVE AnyInv
    OBVIOUS
  <1>2. /\ DOMAIN snap = 0..MaxLevel /\ thread.step = "none"
        /\ \A n \in 0..MaxLevel : snap[n] = Missing
    BY <1>1 DEF Init, NoSnapshots, NoThread
  <1>3. thread \in [step : {"none", "load", "save", "write", "lost", "done"},
                    edit : Edit \cup {Zero}, image : Pictures \cup {Missing}]
    BY <1>1 DEF Init, NoThread
  <1>4. QED
    BY <1>1, <1>2, <1>3, PicturesApart, SessionAssumption
    DEF AnyInv, Sound, StackTypes, Placed, FilesThere, ThreadSound, Intact,
        PristineSeen, LostForGood, FirstNowhere, ThreadHasCurrent, BeforeWriting,
        DiesOfMishaps, AtLevel, Init

\* Whatever the host and the system do, every state is one AnyInv describes.
THEOREM AnyInvariant == Spec => [](host \in Hosts /\ AnyInv)
  <1> DEFINE Inv == host \in Hosts /\ AnyInv
  <1>1. Init => Inv
    BY AnyInit DEF Init
  <1>2. Inv /\ [Next]_vars => Inv'
    <2>1. SUFFICES ASSUME Inv, [Next]_vars PROVE Inv'
      OBVIOUS
    <2>2. host' = host
      BY <2>1 DEF Next, vars
    <2>3. QED
      BY <2>1, <2>2, AnyNextKeeps
  <1>3. QED
    BY <1>1, <1>2, PTL DEF Spec

\* EditStack.qml:41 and 52, PhotoEditor.qml:78, photo-edit-thread.cpp:69, 112
\* and 130: with any host, and with copies, directories and saves that may fail
\* anywhere, the process uses metadata that is not there only once one of them
\* has failed, or after the host closed the editor under an edit or the prompt.
THEOREM DeadOfMishaps == Spec => []DiesOfMishaps
  <1>1. AnyInv => DiesOfMishaps
    BY DEF AnyInv
  <1>2. QED
    BY <1>1, AnyInvariant, PTL

\* EditStack.qml:80-111: with any host, unless a file could not be written,
\* what is shown and would be saved at rest is the snapshot of the level, for
\* any number of levels and edits.
THEOREM ShownIsLevel == Spec => []AtLevel
  <1>1. AnyInv => AtLevel
    BY DEF AnyInv
  <1>2. QED
    BY <1>1, AnyInvariant, PTL

\* The photo's file and its pristine file are written by saving alone.
LEMMA SavingWrites ==
    ASSUME [Next]_vars
    PROVE  UNCHANGED disk \/ (~dead /\ (KeepPristine \/ TruncatePhoto \/ WritePhoto))
  <1>1. ASSUME UserActs PROVE UNCHANGED disk
    BY <1>1
    DEF UserActs, Rotate, StartCropping, Cropped, CropCanceled, StartAdjusting,
        Confirm, Cancel, Adjusted, ExposureChanged, Undo, Redo, UndoOrRedo,
        AskToRevert, ConfirmRevert, CancelRevert
  <1>2. ASSUME ThreadSteps PROVE UNCHANGED disk
    BY <1>2
    DEF ThreadSteps, ThreadLoads, ThreadOpens, ThreadWrites, ThreadWritesRemoved
  <1>3. QED
    BY <1>1, <1>2
    DEF Next, Step, Open, OpenSteps, SetPath, ReadOrientation, Close, CloseSteps,
        ClearSession, EditFinished, BarFades, CropperFades, Restart, vars

\* EditStack.qml:62-73: whatever the host does and wherever the process dies,
\* the last copy of the very first original goes only when a revert is saved,
\* or with a pristine file that could not be made.
THEOREM FirstOriginalDropped == Spec => OnlyRevertDrops
  <1>1. ASSUME AnyInv, [Next]_vars, photo = First \/ pristine = First,
               ~(photo' = First \/ pristine' = First)
        PROVE  /\ call \in {"keep", "truncate"}
               /\ \/ reverted /\ level = 0
                  \/ failures > 0 /\ ~pristineExists /\ pristine = Missing
    <2>1. KeepPristine \/ TruncatePhoto \/ WritePhoto
      BY <1>1, SavingWrites DEF disk
    <2>2. CASE KeepPristine
      <3>1. /\ call = "keep" /\ UNCHANGED photo
            /\ pristine' = PristineAfter \/ UNCHANGED pristine
        BY <2>2 DEF KeepPristine
      <3>2. session = "open" /\ level \in Nat
        BY <1>1, <3>1 DEF AnyInv, Sound, StackTypes
      <3>3. pristineExists <=> pristine # Missing
        BY <1>1, <3>1, <3>2 DEF AnyInv, PristineSeen
      <3>4. pristine = First /\ photo # First /\ pristine' = PristineAfter
        BY <1>1, <3>1
      <3>5. QED
        BY <1>1, <3>1, <3>2, <3>3, <3>4, PicturesApart DEF PristineAfter
    <2>3. CASE TruncatePhoto
      <3>1. call = "truncate" /\ UNCHANGED pristine
        BY <2>3 DEF TruncatePhoto
      <3>2. QED
        BY <1>1, <3>1 DEF AnyInv, BeforeWriting, MayDrop
    <2>4. CASE WritePhoto
      <3>1. call = "write" /\ UNCHANGED pristine
        BY <2>4 DEF WritePhoto
      <3>2. photo # First
        BY <1>1, <3>1, PicturesApart DEF AnyInv, FilesThere
      <3>3. QED
        BY <1>1, <3>1, <3>2
    <2>5. QED
      BY <2>1, <2>2, <2>3, <2>4
  <1>2. AnyInv /\ [Next]_vars =>
          [(photo = First \/ pristine = First)
             /\ ~(photo' = First \/ pristine' = First)
           => /\ call \in {"keep", "truncate"}
              /\ \/ reverted /\ level = 0
                 \/ failures > 0 /\ ~pristineExists /\ pristine = Missing]_vars
    BY <1>1
  <1>3. QED
    BY <1>2, AnyInvariant, PTL DEF Spec, OnlyRevertDrops

-----------------------------------------------------------------------------
(* A file that cannot be written takes one of the failures the host has.   *)

LEMMA CheckpointFails ==
    ASSUME AnyInv, Checkpoint
    PROVE  failures' = failures \/ (failures' = failures + 1 /\ NoRoom)
  <1> DEFINE name == IF count < level + 1 THEN count ELSE level + 1
  <1>1. PICK file \in CopyOf(current, snap[name]) : Note(current, file)
    BY DEF Checkpoint
  <1>2. QED
    BY <1>1, SessionHolds, Copied

LEMMA RestoringFails ==
    ASSUME AnyInv, NEW n, RestoreSnapshot(n)
    PROVE  failures' = failures \/ (failures' = failures + 1 /\ NoRoom)
  <1>1. PICK file \in CopyOf(snap[n], current) : Note(snap[n], file)
    BY DEF RestoreSnapshot
  <1>2. QED
    BY <1>1, SessionHolds, Copied

LEMMA RevertingFails ==
    ASSUME AnyInv, RevertToPristine
    PROVE  failures' = failures \/ (failures' = failures + 1 /\ NoRoom)
  <1>1. CASE session # "open" \/ pristine = Missing
    BY <1>1, RestoringFails DEF RevertToPristine
  <1>2. CASE session = "open" /\ pristine # Missing
    <2>1. PICK file \in CopyOf(pristine, current) :
            \E first \in CopyOf(file, snap[0]) : Note(pristine, first)
      BY <1>2 DEF RevertToPristine
    <2>2. PICK first \in CopyOf(file, snap[0]) : Note(pristine, first)
      BY <2>1
    <2>3. ~NoRoom => first = pristine
      BY <1>2, <2>1, <2>2 DEF CopyOf
    <2>4. QED
      BY <2>2, <2>3 DEF Note
  <1>3. QED
    BY <1>1, <1>2

LEMMA FailureStep ==
    ASSUME AnyInv, [Next]_vars
    PROVE  \/ failures' = failures
           \/ failures' = failures + 1 /\ NoRoom
           \/ failures' = 0
  <1>1. ASSUME UserActs
        PROVE  failures' = failures \/ (failures' = failures + 1 /\ NoRoom)
    <2>1. CASE Rotate \/ StartCropping \/ Cropped \/ CropCanceled
               \/ AskToRevert \/ CancelRevert
      BY <2>1 DEF Rotate, StartCropping, Cropped, CropCanceled, AskToRevert,
                  CancelRevert, files
    <2>2. CASE StartAdjusting \/ \E value \in Exposure \cup {Zero} : ExposureChanged(value)
      BY <2>2, RestoringFails DEF StartAdjusting, ExposureChanged, files
    <2>3. CASE Confirm
      BY <2>3, CheckpointFails DEF Confirm
    <2>4. CASE Cancel
      BY <2>4, RestoringFails DEF Cancel
    <2>5. CASE Undo \/ Redo
      BY <2>5, RestoringFails DEF Undo, Redo, UndoOrRedo
    <2>6. CASE ConfirmRevert
      BY <2>6, RevertingFails DEF ConfirmRevert
    <2>7. QED
      BY <1>1, <2>1, <2>2, <2>3, <2>4, <2>5, <2>6 DEF UserActs
  <1>2. ASSUME Open
        PROVE  failures' = failures \/ (failures' = failures + 1 /\ NoRoom)
    <2>1. CASE NoRoom /\ failures' = failures + 1
      BY <2>1
    <2>2. CASE \E file \in CopyOf(photo, Missing), first \in {Missing, photo} :
                 first \in CopyOf(file, Missing) /\ Note(photo, first)
      <3>1. PICK file \in CopyOf(photo, Missing), first \in {Missing, photo} :
                 first \in CopyOf(file, Missing) /\ Note(photo, first)
        BY <2>2
      <3>2. ~NoRoom => first = photo
        BY <3>1 DEF CopyOf
      <3>3. QED
        BY <3>1, <3>2 DEF Note
    <2>3. QED
      BY <1>2, <2>1, <2>2 DEF Open, StartEditingSession
  <1>3. ASSUME CloseSteps
        PROVE  failures' = failures \/ (failures' = failures + 1 /\ NoRoom)
    <2>1. CASE WritePhoto
      BY <2>1, SessionHolds, Copied DEF WritePhoto
    <2>2. CASE KeepPristine \/ TruncatePhoto \/ ClearSession
      BY <2>2 DEF KeepPristine, TruncatePhoto, ClearSession, files
    <2>3. QED
      BY <1>3, <2>1, <2>2 DEF CloseSteps
  <1>4. ASSUME EditFinished
        PROVE  failures' = failures \/ (failures' = failures + 1 /\ NoRoom)
    BY <1>4, CheckpointFails DEF EditFinished
  <1>5. ASSUME ThreadSteps
        PROVE  failures' = failures \/ (failures' = failures + 1 /\ NoRoom)
    BY <1>5 DEF ThreadSteps, ThreadLoads, ThreadOpens, ThreadWrites,
                ThreadWritesRemoved, files
  <1>6. QED
    BY <1>1, <1>2, <1>3, <1>4, <1>5
    DEF Next, Step, OpenSteps, SetPath, ReadOrientation, Close, BarFades,
        CropperFades, Restart, vars, files

LEMMA FailuresFit ==
    ASSUME AnyInv, host \in Hosts, failures <= host.fails, [Next]_vars
    PROVE  failures' <= host'.fails
  <1>1. host' = host
    BY DEF Next, vars
  <1>2. host.fails \in Nat /\ failures \in Nat
    BY SessionHolds, SessionAssumption
  <1>3. QED
    BY <1>1, <1>2, FailureStep DEF NoRoom

-----------------------------------------------------------------------------
(* A host that waits: what a session and its pristine file are then.       *)

\* The pristine file is the first original.
PristineKnown == pristine \in {First, Missing}

\* After a revert the lowest level is the first original.
RevertedTo == session = "open" /\ reverted => snap[0] = First

\* Where the first original is, at each step of saving.
Kept ==
    /\ call \notin {"truncate", "write"} => photo = First \/ pristine = First
    /\ call \in {"truncate", "write"}
          => pristine = First \/ (reverted /\ level = 0)

\* The exposure tool is put away before the editor is closed or opened.
ToolPutAway == call # "no" => ~adjusting

SessionInv ==
    /\ failures = 0
    /\ (session = "closed" => ~adjusting)
    /\ ToolPutAway
    /\ PristineKnown
    /\ RevertedTo
    /\ Kept

\* What AnyInv says of an editor whose host waits.
LEMMA Waiting ==
    ASSUME AnyInv, HostWaits, failures = 0
    PROVE  /\ ~NoRoom /\ ~dead /\ session \in {"open", "closed"}
           /\ busy \/ dialog => session = "open" /\ call = "no"
           /\ call # "no" => session = "open" /\ ~busy
           /\ session = "open" =>
                /\ current # Missing
                /\ \A n \in 0..count - 1 : snap[n] \in Pictures /\ snap[n] # Missing
                /\ level \in 0..count - 1 /\ 0 \in 0..count - 1
                /\ 0 \in DOMAIN snap
  <1>1. ~NoRoom
    BY DEF HostWaits, NoRoom
  <1>2. host.calls \cap {"busy", "dialog"} = {}
    BY DEF HostWaits
  <1>3. ~dead
    BY <1>2 DEF AnyInv, DiesOfMishaps
  <1>4. /\ session \in {"open", "closed"}
        /\ busy \/ dialog => path = "session" /\ call = "no"
        /\ session = "open" =>
             current # Missing /\ \A n \in 0..count - 1 : snap[n] \in Pictures
    BY <1>2 DEF AnyInv, Sound, Intact
  <1>5. path = "session" => session = "open"
    BY DEF AnyInv, Sound
  <1>6. call # "no" => session = "open"
    BY <1>4 DEF AnyInv, Sound
  <1>7. 0 \in 0..MaxLevel /\ DOMAIN snap = 0..MaxLevel
    BY SessionHolds
  <1>8. QED
    BY <1>1, <1>3, <1>4, <1>5, <1>6, <1>7, SessionHolds, PicturesApart

LEMMA WaitingRestores ==
    ASSUME AnyInv, HostWaits, failures = 0, session = "open",
           NEW n \in 0..count - 1, RestoreSnapshot(n)
    PROVE  current' = snap[n] /\ snap' = snap
  <1>1. ~NoRoom /\ snap[n] # Missing
    BY Waiting
  <1>2. CopyOf(snap[n], current) = {snap[n]}
    BY <1>1 DEF CopyOf
  <1>3. QED
    BY <1>2 DEF RestoreSnapshot

\* The tools change no file but through an edit; the exposure tool starts from
\* the level's snapshot and goes back to it.
LEMMA ToolsKeep ==
    ASSUME SessionInv, AnyInv, HostWaits, failures' = 0, ~dead',
           \/ Rotate \/ StartCropping \/ Cropped \/ CropCanceled
           \/ StartAdjusting \/ Cancel \/ BarFades \/ CropperFades
           \/ AskToRevert \/ CancelRevert \/ Undo \/ Redo
           \/ \E value \in Exposure \cup {Zero} : ExposureChanged(value)
    PROVE  SessionInv'
  <1>1. ASSUME UNCHANGED <<photo, pristine, current, snap, session, call, level,
                           reverted, adjusting, dead>>,
               ~busy' => ~busy
        PROVE  SessionInv'
    BY <1>1 DEF SessionInv, ToolPutAway, PristineKnown, RevertedTo, Kept
  <1>2. CASE \/ Rotate \/ StartCropping \/ Cropped \/ CropCanceled
             \/ BarFades \/ CropperFades \/ AskToRevert \/ CancelRevert
    BY <1>1, <1>2
    DEF Rotate, StartCropping, Cropped, CropCanceled, BarFades, CropperFades,
        AskToRevert, CancelRevert, AsyncEdit, disk, files, stack, data, tools
  <1>3. ASSUME session = "open", UNCHANGED <<photo, pristine, session, call, reverted>>,
               call = "no", NEW n \in 0..count - 1, RestoreSnapshot(n), level' = n
        PROVE  SessionInv'
    BY <1>3, WaitingRestores
    DEF SessionInv, ToolPutAway, PristineKnown, RevertedTo, Kept
  <1>4. Shown => session = "open" /\ call = "no" /\ level \in 0..count - 1
    BY Waiting DEF Shown, SessionInv
  <1>5. CASE StartAdjusting
    <2>1. CASE exposure = Zero
      <3>1. /\ UNCHANGED <<photo, pristine, current, snap, session, call, level,
                           reverted>>
            /\ adjusting' /\ session = "open" /\ call = "no"
        BY <1>4, <1>5, <2>1
        DEF StartAdjusting, BarTakesTaps, disk, files, stack
      <3>2. QED
        BY <3>1
        DEF SessionInv, ToolPutAway, PristineKnown, RevertedTo, Kept
    <2>2. CASE exposure # Zero
      BY <1>3, <1>4, <1>5, <2>2 DEF StartAdjusting, BarTakesTaps, disk, stack
    <2>3. QED
      BY <2>1, <2>2
  <1>6. CASE Cancel
    BY <1>3, <1>4, <1>6 DEF Cancel, Adjusted, disk
  <1>7. ASSUME NEW value \in Exposure \cup {Zero}, ExposureChanged(value)
        PROVE  SessionInv'
    BY <1>3, <1>4, <1>7 DEF ExposureChanged, disk, stack
  <1>8. CASE Undo \/ Redo
    <2>1. session = "open" /\ call = "no" /\ level \in 0..count - 1
      BY <1>4, <1>8 DEF Undo, Redo, UndoOrRedo
    <2>2. PICK to \in 0..count - 1 : UndoOrRedo(to)
      <3>1. level \in Nat /\ count \in Nat
        BY SessionHolds
      <3>2. CASE Undo
        <4>1. level - 1 \in 0..count - 1 /\ UndoOrRedo(level - 1)
          BY <2>1, <3>1, <3>2 DEF Undo
        <4>2. QED
          BY <4>1
      <3>3. CASE Redo
        <4>1. level + 1 \in 0..count - 1 /\ UndoOrRedo(level + 1)
          BY <2>1, <3>1, <3>3 DEF Redo
        <4>2. QED
          BY <4>1
      <3>4. QED
        BY <1>8, <3>2, <3>3
    <2>3. QED
      BY <1>3, <2>1, <2>2 DEF UndoOrRedo, disk
  <1>9. QED
    BY <1>2, <1>5, <1>6, <1>7, <1>8

LEMMA RevertKeeps ==
    ASSUME SessionInv, AnyInv, HostWaits, failures' = 0, ~dead, ConfirmRevert
    PROVE  SessionInv'
  <1>1. /\ session = "open" /\ call = "no" /\ 0 \in 0..count - 1
        /\ RevertToPristine /\ level' = 0 /\ ~NoRoom
        /\ UNCHANGED <<photo, pristine, session, call, adjusting>>
    BY Waiting DEF ConfirmRevert, RevertToPristine, SessionInv, disk
  <1>2. CASE pristine = Missing
    <2>1. RestoreSnapshot(0) /\ UNCHANGED reverted
      BY <1>1, <1>2 DEF RevertToPristine
    <2>2. current' = snap[0] /\ snap' = snap
      BY <1>1, <2>1, WaitingRestores DEF SessionInv
    <2>3. QED
      BY <1>1, <2>1, <2>2
      DEF SessionInv, ToolPutAway, PristineKnown, RevertedTo, Kept
  <1>3. CASE pristine # Missing
    <2>1. PICK file \in CopyOf(pristine, current) :
            \E first \in CopyOf(file, snap[0]) : snap' = [snap EXCEPT ![0] = first]
      BY <1>1, <1>3 DEF RevertToPristine
    <2>2. snap' = [snap EXCEPT ![0] = pristine] /\ pristine = First
      BY <1>1, <1>3, <2>1 DEF CopyOf, SessionInv, PristineKnown
    <2>3. snap'[0] = First
      BY <1>1, <2>2, Waiting DEF SessionInv
    <2>4. QED
      BY <1>1, <2>3
      DEF SessionInv, ToolPutAway, PristineKnown, RevertedTo, Kept
  <1>4. QED
    BY <1>2, <1>3

\* A checkpoint makes the level of what is shown.
LEMMA CheckpointKeeps ==
    ASSUME SessionInv, AnyInv, HostWaits, failures' = 0, level < MaxLevel,
           session = "open", call = "no", Checkpoint,
           UNCHANGED <<photo, pristine, current, session, call, reverted>>
    PROVE  SessionInv'
  <1>1. /\ snap'[level'] = current /\ level' = level + 1
        /\ \A n \in 0..level : snap'[n] = snap[n]
    BY Waiting, CheckpointPlaces DEF AnyInv, Sound, SessionInv
  <1>2. 0 \in 0..level
    BY SessionHolds
  <1>3. QED
    BY <1>1, <1>2
    DEF SessionInv, ToolPutAway, PristineKnown, RevertedTo, Kept

LEMMA EditingKeeps ==
    ASSUME SessionInv, AnyInv, host \in Hosts, HostWaits, failures' = 0, ~dead',
           Confirm \/ EditFinished
    PROVE  SessionInv'
  <1>1. CASE Confirm
    <2>1. /\ session = "open" /\ call = "no" /\ Checkpoint
          /\ UNCHANGED <<photo, pristine, current, session, call, reverted>>
      BY <1>1, Waiting DEF Confirm, Adjusted, Shown, SessionInv, disk
    <2>2. level < MaxLevel
      BY <1>1, SessionHolds, LevelsBound DEF Confirm
    <2>3. QED
      BY <2>1, <2>2, CheckpointKeeps
  <1>2. CASE EditFinished
    <2>1. /\ busy /\ call = "no" /\ session = "open"
          /\ UNCHANGED <<photo, pristine, current, session, call, reverted,
                         adjusting>>
      BY <1>2, Waiting
      DEF EditFinished, FinishEditing, AnyInv, ThreadSound, SessionInv, disk, tools
    <2>2. CASE adjusting
      <3>1. UNCHANGED <<level, snap>>
        BY <1>2, <2>2 DEF EditFinished
      <3>2. QED
        BY <2>1, <2>2, <3>1
        DEF SessionInv, ToolPutAway, PristineKnown, RevertedTo, Kept
    <2>3. CASE ~adjusting
      <3>1. Checkpoint /\ level < MaxLevel
        BY <1>2, <2>1, <2>3 DEF EditFinished, AnyInv, ThreadSound
      <3>2. QED
        BY <2>1, <3>1, CheckpointKeeps
    <2>4. QED
      BY <2>2, <2>3
  <1>3. QED
    BY <1>1, <1>2

\* The edit thread changes nothing but the file that is being edited.
LEMMA ThreadKeeps ==
    ASSUME SessionInv, AnyInv, failures' = 0, ThreadSteps
    PROVE  SessionInv'
  <1>1. /\ busy /\ busy'
        /\ UNCHANGED <<photo, pristine, snap, session, call, level, reverted,
                       adjusting>>
    BY DEF ThreadSteps, ThreadLoads, ThreadOpens, ThreadWrites,
           ThreadWritesRemoved, disk, files, stack, tools, AnyInv, ThreadSound
  <1>2. QED
    BY <1>1 DEF SessionInv, ToolPutAway, PristineKnown, RevertedTo, Kept

\* A new session starts from the photo, at the lowest level.
LEMMA OpenKeeps ==
    ASSUME SessionInv, AnyInv, HostWaits, failures' = 0,
           Open \/ OpenSteps \/ \E s \in BOOLEAN : Close(s)
    PROVE  SessionInv'
  <1>1. CASE Open
    <2>1. /\ session = "closed" /\ call' = "path" /\ call = "no" /\ ~NoRoom
          /\ photo # Missing /\ ~adjusting
          /\ UNCHANGED <<photo, pristine, adjusting>>
      BY <1>1, Waiting, PicturesApart
      DEF Open, disk, tools, SessionInv, AnyInv, FilesThere
    <2>2. PICK file \in CopyOf(photo, Missing), first \in {Missing, photo} :
             /\ first \in CopyOf(file, Missing)
             /\ current' = file
             /\ snap' = [NoSnapshots EXCEPT ![0] = first]
             /\ session' = "open" /\ level' = 0 /\ ~reverted'
      BY <1>1, <2>1 DEF Open, StartEditingSession
    <2>3. file = photo /\ first = photo
      BY <2>1, <2>2 DEF CopyOf
    <2>4. snap'[0] = photo
      BY <2>2, <2>3, SessionAssumption DEF NoSnapshots
    <2>5. QED
      BY <2>1, <2>2, <2>3, <2>4
      DEF SessionInv, ToolPutAway, PristineKnown, RevertedTo, Kept
  <1>2. CASE OpenSteps
    <2>1. /\ call \in {"path", "orientation"} /\ call' \in {"no", "orientation"}
          /\ UNCHANGED <<photo, pristine, current, snap, session, level, reverted,
                         busy, adjusting>>
      BY <1>2
      DEF OpenSteps, SetPath, ReadOrientation, disk, files, data, tools
    <2>2. ~dead
      BY Waiting DEF SessionInv
    <2>3. QED
      BY <2>1, <2>2
      DEF SessionInv, ToolPutAway, PristineKnown, RevertedTo, Kept
  <1>3. CASE \E s \in BOOLEAN : Close(s)
    <2>1. /\ Situation = "idle" /\ call = "no" /\ call' \in {"keep", "clear"}
          /\ UNCHANGED <<photo, pristine, current, snap, session, level, reverted,
                         busy, adjusting, dead>>
      BY <1>3 DEF Close, HostWaits, disk, files, data, tools
    <2>2. ~adjusting
      BY <2>1 DEF Situation
    <2>3. QED
      BY <2>1, <2>2
      DEF SessionInv, ToolPutAway, PristineKnown, RevertedTo, Kept
  <1>4. QED
    BY <1>1, <1>2, <1>3

\* endEditingSession keeps the first original at every step: it removes the
\* pristine file only if what it then saves is the first original.
LEMMA SavingKeeps ==
    ASSUME SessionInv, AnyInv, HostWaits, failures' = 0, CloseSteps
    PROVE  SessionInv'
  <1>1. /\ ~NoRoom /\ ~dead /\ call # "no" /\ session = "open" /\ ~busy
        /\ ~adjusting /\ current = snap[level] /\ current # Missing
        /\ level \in Nat
    BY Waiting, SessionHolds
    DEF CloseSteps, KeepPristine, TruncatePhoto, WritePhoto, ClearSession,
        SessionInv, ToolPutAway, AnyInv, AtLevel
  <1>2. CASE KeepPristine
    <2>1. /\ call = "keep" /\ call' = "truncate" /\ pristine' = PristineAfter
          /\ UNCHANGED <<photo, current, snap, session, level, reverted, busy,
                         adjusting, dead>>
      BY <1>1, <1>2 DEF KeepPristine, data, tools
    <2>2. pristineExists <=> pristine # Missing
      BY <1>1, <2>1 DEF AnyInv, PristineSeen
    <2>3. PristineKnown' /\ Kept'
      BY <1>1, <2>1, <2>2, PicturesApart
      DEF SessionInv, PristineKnown, Kept, PristineAfter
    <2>4. QED
      BY <1>1, <2>1, <2>3 DEF SessionInv, ToolPutAway, RevertedTo
  <1>3. CASE TruncatePhoto
    <2>1. /\ call = "truncate" /\ call' = "write"
          /\ UNCHANGED <<pristine, current, snap, session, level, reverted, busy,
                         adjusting, dead>>
      BY <1>1, <1>3 DEF TruncatePhoto, files, data, tools
    <2>2. QED
      BY <1>1, <2>1
      DEF SessionInv, ToolPutAway, PristineKnown, RevertedTo, Kept
  <1>4. CASE WritePhoto
    <2>1. /\ call = "write" /\ call' = "clear" /\ photo' = current
          /\ UNCHANGED <<pristine, current, snap, session, level, reverted, busy,
                         adjusting, dead>>
      BY <1>1, <1>4 DEF WritePhoto, CopyOf, data, tools
    <2>2. QED
      BY <1>1, <2>1
      DEF SessionInv, ToolPutAway, PristineKnown, RevertedTo, Kept
  <1>5. CASE ClearSession
    <2>1. /\ call = "clear" /\ call' = "no" /\ session' = "closed"
          /\ UNCHANGED <<photo, pristine, adjusting>>
      BY <1>5 DEF ClearSession, disk, tools
    <2>2. QED
      BY <1>1, <2>1
      DEF SessionInv, ToolPutAway, PristineKnown, RevertedTo, Kept
  <1>6. QED
    BY <1>2, <1>3, <1>4, <1>5 DEF CloseSteps

LEMMA NextKeeps ==
    ASSUME SessionInv, AnyInv, host \in Hosts, HostWaits, [Next]_vars
    PROVE  SessionInv'
  <1>1. ~dead /\ ~NoRoom /\ ~Restart
    BY Waiting DEF SessionInv, Restart, HostWaits
  <1>2. failures' = 0
    BY <1>1, FailureStep DEF SessionInv
  <1>3. ~dead'
    <2>1. HostWaits' /\ AnyInv'
      BY AnyNextKeeps DEF HostWaits, Next, vars
    <2>2. QED
      BY <1>2, <2>1 DEF HostWaits, AnyInv, DiesOfMishaps
  <1>4. CASE UserActs
    BY <1>1, <1>2, <1>3, <1>4, ToolsKeep, RevertKeeps, EditingKeeps DEF UserActs
  <1>5. CASE Open \/ OpenSteps \/ (\E s \in BOOLEAN : Close(s)) \/ CloseSteps
    BY <1>2, <1>5, OpenKeeps, SavingKeeps
  <1>6. CASE ThreadSteps \/ EditFinished \/ BarFades \/ CropperFades
    BY <1>2, <1>3, <1>6, ThreadKeeps, EditingKeeps, ToolsKeep
  <1>7. CASE UNCHANGED vars
    BY <1>7
    DEF SessionInv, ToolPutAway, PristineKnown, RevertedTo, Kept,
        vars, disk, files, stack, data, tools
  <1>8. QED
    BY <1>1, <1>4, <1>5, <1>6, <1>7 DEF Next, Step

LEMMA InitKeeps == Init => SessionInv
  BY DEF SessionInv, ToolPutAway, PristineKnown, RevertedTo, Kept, Init

\* With a host that waits, every state is one SessionInv describes.  The host
\* is chosen once and for all.
THEOREM SessionInvariant == Spec => [](HostWaits => SessionInv)
  <1> DEFINE Inv == HostWaits => SessionInv
             Any == host \in Hosts /\ AnyInv
  <1>1. Init => Inv
    BY InitKeeps
  <1>2. Any /\ Inv /\ [Next]_vars => Inv'
    <2>1. SUFFICES ASSUME Any, Inv, [Next]_vars PROVE Inv'
      OBVIOUS
    <2>2. host' = host
      BY <2>1 DEF Next, vars
    <2>3. HostWaits' => HostWaits
      BY <2>2 DEF HostWaits
    <2>4. QED
      BY <2>1, <2>3, NextKeeps
  <1>3. QED
    BY <1>1, <1>2, AnyInvariant, PTL DEF Spec

\* EditStack.qml:59-71: with a host that waits, whatever the user does in any
\* number of sessions, the very first original is the photo or its pristine
\* file whenever the editor is not saving.
THEOREM FirstOriginalKept == Spec => []OriginalKept
  <1>1. (HostWaits => SessionInv) => OriginalKept
    BY DEF SessionInv, Kept, OriginalKept, OriginalSaved
  <1>2. QED
    BY <1>1, SessionInvariant, PTL

-----------------------------------------------------------------------------
(* The types, for which an edit must leave its picture within the bound.   *)

\* An edit that is started has room, whichever file the thread then loads:
\* nothing but a new session replaces it while the editor is busy.
LoadFits ==
    /\ thread.step = "load" /\ thread.edit # Zero /\ current \in Pictures
         => Len(current) < MaxEdits
    /\ thread.step \in {"save", "write"} /\ thread.edit # Zero
         => Len(thread.image) < MaxEdits

\* The part of TypeOK no action can break by what it reads from a file.
ControlTypes ==
    /\ session \in {"open", "closed", "failed"}
    /\ path \in {"none", "session", "gone"}
    /\ level \in 0..MaxLevel /\ count \in 0..MaxLevel + 1
    /\ reverted \in BOOLEAN /\ pristineExists \in BOOLEAN
    /\ call \in {"no", "path", "orientation", "keep", "truncate", "write",
                "clear"}
    /\ busy \in BOOLEAN
    /\ adjusting \in BOOLEAN /\ exposure \in Exposure \cup {Zero}
    /\ cropper \in {"hidden", "shown", "fading"}
    /\ bar \in BOOLEAN /\ dialog \in BOOLEAN
    /\ dead \in BOOLEAN /\ failures \in Nat
    /\ host \in Hosts

\* And the part it can.
FileTypes ==
    /\ photo \in Picture \cup {Torn}
    /\ pristine \in Picture \cup {Torn, Missing}
    /\ current \in Picture \cup {Torn, Missing}
    /\ snap \in [0..MaxLevel -> Picture \cup {Torn, Missing}]
    /\ thread \in [step: {"none", "load", "save", "write", "lost", "done"},
                   edit: Edit \cup {Zero}, image: Picture \cup {Missing}]

LEMMA PictureIs ==
    ASSUME NEW x
    PROVE  x \in Picture <=> x \in Pictures /\ Len(x) <= MaxEdits
  <1>1. MaxEdits \in Nat
    BY SessionAssumption
  <1>2. ASSUME x \in Picture
        PROVE  x \in Pictures /\ Len(x) <= MaxEdits
    <2>1. PICK n \in 0..MaxEdits : x \in [1..n -> Edit]
      BY <1>2 DEF Picture
    <2>2. x \in Seq(Edit) /\ Len(x) = n
      <3> DEFINE S == Edit
      <3>1. x \in [1..n -> S] /\ n \in Nat
        BY <1>1, <2>1
      <3> HIDE DEF S
      <3>2. x \in Seq(S) /\ Len(x) = n
        BY <3>1
      <3>3. QED
        BY <3>2 DEF S
    <2>3. QED
      BY <1>1, <2>2 DEF Pictures
  <1>3. ASSUME x \in Pictures, Len(x) <= MaxEdits
        PROVE  x \in Picture
    <2>1. Len(x) \in Nat /\ x \in [1..Len(x) -> Edit]
      BY <1>3, LenProperties DEF Pictures
    <2>2. Len(x) \in 0..MaxEdits
      BY <1>1, <1>3, <2>1
    <2>3. QED
      BY <2>1, <2>2 DEF Picture
  <1>4. QED
    BY <1>2, <1>3

LEMMA PicturesFit ==
    /\ First \in Picture
    /\ \A x \in Picture : x \in Pictures /\ Len(x) \in Nat
    /\ Torn \notin Picture /\ Missing \notin Picture
  <1>1. First \in Picture
    <2>1. Len(First) = 0 /\ MaxEdits \in Nat
      BY SessionAssumption DEF First
    <2>2. QED
      BY <2>1, PictureIs, PicturesApart
  <1>2. \A x \in Pictures : Len(x) \in Nat
    BY LenProperties DEF Pictures
  <1>3. QED
    BY <1>1, <1>2, PictureIs, PicturesApart

LEMMA EditedFits ==
    ASSUME NEW picture \in Picture, NEW edit \in Edit \cup {Zero},
           edit # Zero => Len(picture) < MaxEdits
    PROVE  Edited(picture, edit) \in Picture
  <1>1. picture \in Pictures /\ Edited(picture, edit) \in Pictures
    BY PicturesFit, EditedPicture
  <1>2. CASE edit = Zero
    BY <1>2 DEF Edited
  <1>3. CASE edit # Zero
    <2>1. Len(Edited(picture, edit)) = Len(picture) + 1
      BY <1>1, <1>3 DEF Edited, Pictures
    <2>2. Len(picture) \in Nat /\ MaxEdits \in Nat
      BY PicturesFit, SessionAssumption
    <2>3. QED
      BY <1>1, <1>3, <2>1, <2>2, PictureIs
  <1>4. QED
    BY <1>2, <1>3

\* Metadata that is used is there or not.
LEMMA Reads ==
    ASSUME NEW file PROVE MetadataOf(file) \subseteq BOOLEAN
  BY DEF MetadataOf

\* Each action sets its flags to values they can have.
LEMMA ControlStep ==
    ASSUME AnyInv, ControlTypes, [Next]_vars
    PROVE  ControlTypes'
  <1>1. AnyInv' /\ MaxLevel \in Nat
    BY AnyNextKeeps, SessionAssumption DEF ControlTypes
  <1>2. /\ session' \in {"open", "closed", "failed"}
        /\ path' \in {"none", "session", "gone"}
        /\ call' \in {"no", "path", "orientation", "keep", "truncate", "write",
                     "clear"}
        /\ level' \in Nat /\ count' \in Nat /\ failures' \in Nat
        /\ level' <= MaxLevel /\ count' <= MaxLevel + 1
    BY <1>1 DEF AnyInv, Sound, StackTypes, Placed
  <1>3. host' \in Hosts
    BY DEF Next, vars, ControlTypes
  <1>4. level' \in 0..MaxLevel /\ count' \in 0..MaxLevel + 1
    BY <1>1, <1>2
  <1>5. /\ reverted' \in BOOLEAN /\ pristineExists' \in BOOLEAN
        /\ busy' \in BOOLEAN /\ dead' \in BOOLEAN
        /\ adjusting' \in BOOLEAN /\ exposure' \in Exposure \cup {Zero}
        /\ cropper' \in {"hidden", "shown", "fading"}
        /\ bar' \in BOOLEAN /\ dialog' \in BOOLEAN
    <2>1. CASE UserActs
      <3>1. CASE Rotate \/ Cropped
        BY <3>1
        DEF ControlTypes, stack, data, tools, Rotate, Cropped, AsyncEdit
      <3>2. CASE StartCropping \/ CropCanceled \/ AskToRevert \/ CancelRevert
        BY <3>2
        DEF ControlTypes, stack, data, tools, StartCropping, CropCanceled,
            AskToRevert, CancelRevert
      <3>3. ASSUME NEW value \in Exposure \cup {Zero},
                   StartAdjusting \/ ExposureChanged(value)
            PROVE  /\ reverted' \in BOOLEAN /\ pristineExists' \in BOOLEAN
                   /\ busy' \in BOOLEAN /\ dead' \in BOOLEAN
                   /\ adjusting' \in BOOLEAN /\ exposure' \in Exposure \cup {Zero}
                   /\ cropper' \in {"hidden", "shown", "fading"}
                   /\ bar' \in BOOLEAN /\ dialog' \in BOOLEAN
        BY <3>3, Reads
        DEF ControlTypes, stack, data, tools, StartAdjusting, ExposureChanged,
            AsyncEdit, RestoreSnapshot
      <3>4. CASE Confirm \/ Cancel
        BY <3>4, Reads
        DEF ControlTypes, data, Confirm, Cancel, Adjusted, RestoreSnapshot
      <3>5. CASE Undo \/ Redo
        BY <3>5, Reads
        DEF ControlTypes, data, tools, Undo, Redo, UndoOrRedo, RestoreSnapshot
      <3>6. CASE ConfirmRevert
        BY <3>6, Reads
        DEF ControlTypes, data, ConfirmRevert, RevertToPristine, RestoreSnapshot
      <3>7. QED
        BY <2>1, <3>1, <3>2, <3>3, <3>4, <3>5, <3>6 DEF UserActs
    <2>2. CASE Open \/ OpenSteps \/ (\E s \in BOOLEAN : Close(s)) \/ CloseSteps
      <3>1. CASE Open
        BY <3>1
        DEF ControlTypes, data, tools, Open, StartEditingSession
      <3>2. CASE OpenSteps
        BY <3>2, Reads
        DEF ControlTypes, data, tools, OpenSteps, SetPath, ReadOrientation
      <3>3. CASE \E s \in BOOLEAN : Close(s)
        BY <3>3 DEF ControlTypes, data, tools, Close
      <3>4. CASE CloseSteps
        BY <3>4
        DEF ControlTypes, data, tools, CloseSteps, KeepPristine, TruncatePhoto,
            WritePhoto, ClearSession
      <3>5. QED
        BY <2>2, <3>1, <3>2, <3>3, <3>4
    <2>3. CASE ThreadSteps \/ EditFinished \/ BarFades \/ CropperFades
      BY <2>3, Reads
      DEF ControlTypes, stack, data, tools, ThreadSteps, ThreadLoads, ThreadOpens,
          ThreadWrites, ThreadWritesRemoved, SavedMetadata, EditFinished, FinishEditing,
          BarFades, CropperFades
    <2>4. CASE Restart \/ UNCHANGED vars
      BY <2>4 DEF ControlTypes, Restart, vars, stack, data, tools
    <2>5. QED
      BY <2>1, <2>2, <2>3, <2>4 DEF Next, Step
  <1>6. QED
    BY <1>2, <1>3, <1>4, <1>5 DEF ControlTypes

Typed == TypeOK /\ LoadFits /\ failures <= host.fails

\* Where no edit is going to load or save, none can outgrow the bound.
LEMMA NothingLoads ==
    ASSUME thread'.step \in {"none", "done", "lost"}
    PROVE  LoadFits'
  BY DEF LoadFits

\* What a copy leaves is within the bound if the files are.
LEMMA CopyFits ==
    ASSUME NEW source \in Picture \cup {Torn, Missing},
           NEW target \in Picture \cup {Torn, Missing},
           NEW file \in CopyOf(source, target)
    PROVE  /\ file \in Picture \cup {Torn, Missing}
           /\ source = Missing => file = target
           /\ source # Missing => file \in {source, Torn, Missing}
  BY DEF CopyOf

LEMMA RestoringFits ==
    ASSUME Typed, NEW n \in 0..MaxLevel, RestoreSnapshot(n)
    PROVE  /\ current' \in Picture \cup {Torn, Missing}
           /\ snap' = snap
           /\ snap[n] = Missing => current' = current
           /\ snap[n] # Missing => current' \in {snap[n], Torn, Missing}
  <1>1. PICK file \in CopyOf(snap[n], current) : current' = file /\ snap' = snap
    BY DEF RestoreSnapshot
  <1>2. /\ snap[n] \in Picture \cup {Torn, Missing}
        /\ current \in Picture \cup {Torn, Missing}
    BY DEF Typed, TypeOK
  <1>3. QED
    BY <1>1, <1>2, CopyFits

LEMMA CheckpointFits ==
    ASSUME AnyInv, Typed, level < MaxLevel, Checkpoint
    PROVE  snap' \in [0..MaxLevel -> Picture \cup {Torn, Missing}]
  <1>1. PICK nm \in 0..MaxLevel : \E f \in CopyOf(current, snap[nm]) :
           snap' = [snap EXCEPT ![nm] = f]
    BY CheckpointPlaces DEF AnyInv, Sound
  <1>2. PICK f \in CopyOf(current, snap[nm]) : snap' = [snap EXCEPT ![nm] = f]
    BY <1>1
  <1>3. f \in Picture \cup {Torn, Missing}
    <2>1. /\ current \in Picture \cup {Torn, Missing}
          /\ snap[nm] \in Picture \cup {Torn, Missing}
      BY DEF Typed, TypeOK
    <2>2. QED
      BY <1>2, <2>1, CopyFits
  <1>4. QED
    BY <1>2, <1>3 DEF Typed, TypeOK

\* A started edit, of a file with room for it.
LEMMA StartedFits ==
    ASSUME Typed, NEW edit \in Edit \cup {Zero},
           thread' = [step |-> "load", edit |-> edit, image |-> Missing],
           UNCHANGED <<photo, pristine, snap>>,
           current' \in Picture \cup {Torn, Missing},
           edit # Zero /\ current' \in Pictures => Len(current') < MaxEdits
    PROVE  FileTypes' /\ LoadFits'
  <1>1. FileTypes'
    BY DEF Typed, TypeOK, FileTypes
  <1>2. LoadFits'
    BY DEF LoadFits
  <1>3. QED
    BY <1>1, <1>2

\* A picture there is room for leaves the bound unreached.
LEMMA RoomIs ==
    ASSUME Typed, NEW picture, Room(picture), picture \in Pictures
    PROVE  Len(picture) < MaxEdits
  <1>1. host \in Hosts /\ Len(picture) \in Nat
    BY LenProperties DEF Typed, TypeOK, Pictures
  <1>2. host.edits \in Nat /\ host.edits <= MaxEdits /\ MaxEdits \in Nat
    BY <1>1, SessionAssumption
  <1>3. Len(picture) < host.edits
    BY PicturesApart DEF Room
  <1>4. QED
    BY <1>1, <1>2, <1>3

\* The user's actions.
LEMMA UserFits ==
    ASSUME AnyInv, Typed, UserActs, ~dead, UNCHANGED host
    PROVE  FileTypes' /\ LoadFits'
  <1>1. CASE UNCHANGED <<photo, pristine, current, snap, thread>>
    BY <1>1 DEF Typed, TypeOK, FileTypes, LoadFits
  <1>2. ASSUME NEW edit \in {"rotate", "crop"}, AsyncEdit(edit),
               ~busy => Room(current),
               UNCHANGED <<photo, pristine, current, snap>>
        PROVE  FileTypes' /\ LoadFits'
    <2>1. CASE busy
      BY <1>1, <1>2, <2>1 DEF AsyncEdit, data
    <2>2. CASE ~busy
      <3>1. thread' = [step |-> "load", edit |-> edit, image |-> Missing]
        BY <1>2, <2>2 DEF AsyncEdit
      <3>2. /\ current' \in Picture \cup {Torn, Missing}
            /\ current' \in Pictures => Len(current') < MaxEdits
        BY <1>2, <2>2, RoomIs DEF Typed, TypeOK
      <3>3. edit \in Edit \cup {Zero}
        BY DEF Edit
      <3>4. QED
        BY <1>2, <3>1, <3>2, <3>3, StartedFits
    <2>3. QED
      BY <2>1, <2>2
  <1>3. CASE Rotate
    BY <1>2, <1>3 DEF Rotate, disk, files
  <1>4. CASE Cropped
    BY <1>2, <1>4 DEF Cropped, disk, files
  <1>5. level \in 0..MaxLevel
    BY DEF Typed, TypeOK
  <1>6. ASSUME NEW edit \in Exposure \cup {Zero}, AsyncEdit(edit), ~busy,
               RestoreSnapshot(level),
               edit # Zero =>
                 Room(IF snap[level] = Missing THEN current ELSE snap[level]),
               UNCHANGED <<photo, pristine>>
        PROVE  FileTypes' /\ LoadFits'
    <2>1. thread' = [step |-> "load", edit |-> edit, image |-> Missing]
      BY <1>6 DEF AsyncEdit
    <2>2. /\ current' \in Picture \cup {Torn, Missing} /\ snap' = snap
          /\ snap[level] = Missing => current' = current
          /\ snap[level] # Missing => current' \in {snap[level], Torn, Missing}
      BY <1>5, <1>6, RestoringFits
    <2>3. edit # Zero /\ current' \in Pictures => Room(current')
      BY <1>6, <2>2, PicturesApart
    <2>4. edit # Zero /\ current' \in Pictures => Len(current') < MaxEdits
      BY <2>3, RoomIs
    <2>5. edit \in Edit \cup {Zero}
      BY DEF Edit
    <2>6. QED
      BY <1>6, <2>1, <2>2, <2>4, <2>5, StartedFits
  <1>7. CASE StartAdjusting
    <2>1. CASE exposure = Zero
      BY <1>1, <1>7, <2>1 DEF StartAdjusting, disk, files, data
    <2>2. CASE exposure # Zero
      BY <1>6, <1>7, <2>2 DEF StartAdjusting, BarTakesTaps, disk
    <2>3. QED
      BY <2>1, <2>2
  <1>8. ASSUME NEW value \in Exposure \cup {Zero}, ExposureChanged(value)
        PROVE  FileTypes' /\ LoadFits'
    BY <1>6, <1>8 DEF ExposureChanged, disk
  <1>9. ASSUME ~busy, UNCHANGED <<photo, pristine, thread>>,
               current' \in Picture \cup {Torn, Missing},
               snap' \in [0..MaxLevel -> Picture \cup {Torn, Missing}]
        PROVE  FileTypes' /\ LoadFits'
    <2>1. thread.step = "none"
      BY <1>9 DEF AnyInv, ThreadSound
    <2>2. QED
      BY <1>9, <2>1 DEF Typed, TypeOK, FileTypes, LoadFits
  <1>10. CASE Cancel
    <2>1. ~busy /\ UNCHANGED <<photo, pristine, thread>> /\ RestoreSnapshot(level)
      BY <1>10 DEF Cancel, Adjusted, disk, data
    <2>2. current' \in Picture \cup {Torn, Missing} /\ snap' = snap
      BY <1>5, <2>1, RestoringFits
    <2>3. QED
      BY <1>9, <2>1, <2>2 DEF Typed, TypeOK
  <1>11. CASE Confirm
    <2>1. ~busy /\ UNCHANGED <<photo, pristine, thread, current>> /\ Checkpoint
      BY <1>11 DEF Confirm, Adjusted, disk, data
    <2>2. level < MaxLevel
      BY <1>11, SessionHolds, LevelsBound DEF Confirm, Typed, TypeOK
    <2>3. snap' \in [0..MaxLevel -> Picture \cup {Torn, Missing}]
      BY <2>1, <2>2, CheckpointFits
    <2>4. QED
      BY <1>9, <2>1, <2>3 DEF Typed, TypeOK
  <1>12. ASSUME NEW to \in 0..MaxLevel, UndoOrRedo(to)
         PROVE  FileTypes' /\ LoadFits'
    <2>1. ~busy /\ UNCHANGED <<photo, pristine, thread>> /\ RestoreSnapshot(to)
      BY <1>12 DEF UndoOrRedo, ActionsEnabled, disk, data
    <2>2. current' \in Picture \cup {Torn, Missing} /\ snap' = snap
      BY <2>1, RestoringFits
    <2>3. QED
      BY <1>9, <2>1, <2>2 DEF Typed, TypeOK
  <1>13. CASE Undo
    <2>1. level - 1 \in 0..MaxLevel /\ UndoOrRedo(level - 1)
      BY <1>13, SessionHolds DEF Undo
    <2>2. QED
      BY <1>12, <2>1
  <1>14. CASE Redo
    <2>1. level + 1 \in 0..MaxLevel /\ UndoOrRedo(level + 1)
      BY <1>14, SessionHolds DEF Redo
    <2>2. QED
      BY <1>12, <2>1
  <1>15. CASE ConfirmRevert
    <2>1. /\ ~busy /\ UNCHANGED <<photo, pristine, thread>> /\ RevertToPristine
          /\ 0 \in 0..MaxLevel
      BY <1>15, SessionHolds
      DEF ConfirmRevert, AnyInv, ThreadSound, disk, data
    <2>2. CASE session # "open" \/ pristine = Missing
      <3>1. current' \in Picture \cup {Torn, Missing} /\ snap' = snap
        BY <2>1, <2>2, RestoringFits DEF RevertToPristine
      <3>2. QED
        BY <1>9, <2>1, <3>1 DEF Typed, TypeOK
    <2>3. CASE session = "open" /\ pristine # Missing
      <3>1. PICK file \in CopyOf(pristine, current) :
              /\ current' = file
              /\ \E first \in CopyOf(file, snap[0]) : snap' = [snap EXCEPT ![0] = first]
        BY <2>1, <2>3 DEF RevertToPristine
      <3>2. PICK first \in CopyOf(file, snap[0]) : snap' = [snap EXCEPT ![0] = first]
        BY <3>1
      <3>3. file \in Picture \cup {Torn, Missing}
        BY <3>1, CopyFits DEF Typed, TypeOK
      <3>4. snap[0] \in Picture \cup {Torn, Missing}
        BY <2>1 DEF Typed, TypeOK
      <3>5. first \in Picture \cup {Torn, Missing}
        BY <3>2, <3>3, <3>4, CopyFits
      <3>6. snap' \in [0..MaxLevel -> Picture \cup {Torn, Missing}]
        BY <3>2, <3>5 DEF Typed, TypeOK
      <3>7. QED
        BY <1>9, <2>1, <3>1, <3>3, <3>6
    <2>4. QED
      BY <2>2, <2>3
  <1>16. CASE StartCropping \/ CropCanceled \/ AskToRevert \/ CancelRevert
    BY <1>1, <1>16 DEF StartCropping, CropCanceled, AskToRevert, CancelRevert,
       disk, files, data
  <1>17. QED
    BY <1>3, <1>4, <1>7, <1>8, <1>10, <1>11, <1>13, <1>14, <1>15, <1>16
    DEF UserActs

\* Opening, saving and closing.
LEMMA HostFits ==
    ASSUME AnyInv, Typed, ~dead, UNCHANGED host,
           Open \/ OpenSteps \/ (\E s \in BOOLEAN : Close(s)) \/ CloseSteps
    PROVE  FileTypes' /\ LoadFits'
  <1>1. /\ NoSnapshots \in [0..MaxLevel -> Picture \cup {Torn, Missing}]
        /\ MaxLevel \in Nat /\ 0 \in 0..MaxLevel
    BY SessionAssumption DEF NoSnapshots
  <1>2. CASE Open
    <2>1. UNCHANGED <<photo, pristine, thread, busy>> /\ (busy => Room(photo))
          /\ photo \in Picture
      BY <1>2 DEF Open, Typed, TypeOK, disk, data
    <2>2. CASE UNCHANGED <<current, snap>>
      BY <2>1, <2>2 DEF Typed, TypeOK, FileTypes, LoadFits
    <2>3. CASE \E file \in CopyOf(photo, Missing), first \in {Missing, photo} :
                 current' = file /\ snap' = [NoSnapshots EXCEPT ![0] = first]
      <3>1. PICK file \in CopyOf(photo, Missing), first \in {Missing, photo} :
                 current' = file /\ snap' = [NoSnapshots EXCEPT ![0] = first]
        BY <2>3
      <3>2. file \in {photo, Missing}
        BY <2>1, <3>1, PicturesFit DEF CopyOf
      <3>3. FileTypes'
        BY <1>1, <2>1, <3>1, <3>2 DEF Typed, TypeOK, FileTypes
      <3>4. busy => Len(photo) < MaxEdits
        BY <2>1, RoomIs, PicturesFit
      <3>5. thread.step = "load" => busy
        BY DEF AnyInv, ThreadSound
      <3>6. LoadFits'
        BY <2>1, <3>1, <3>2, <3>4, <3>5, PicturesApart DEF Typed, LoadFits
      <3>7. QED
        BY <3>3, <3>6
    <2>4. QED
      BY <1>2, <2>2, <2>3 DEF Open, StartEditingSession
  <1>3. CASE OpenSteps \/ \E s \in BOOLEAN : Close(s)
    BY <1>3 DEF OpenSteps, SetPath, ReadOrientation, Close, Typed, TypeOK,
       FileTypes, LoadFits, disk, files, data
  <1>4. CASE KeepPristine
    <2>1. session = "open" /\ photo \in Picture
      BY <1>4, PicturesApart
      DEF KeepPristine, Typed, TypeOK, AnyInv, Sound, FilesThere
    <2>2. QED
      BY <1>4, <2>1
      DEF KeepPristine, PristineAfter, Typed, TypeOK, FileTypes, LoadFits, data
  <1>5. CASE TruncatePhoto
    BY <1>5 DEF TruncatePhoto, Typed, TypeOK, FileTypes, LoadFits, files, data
  <1>6. CASE WritePhoto
    <2>1. PICK file \in CopyOf(current, photo) : photo' = file
      BY <1>6 DEF WritePhoto
    <2>2. photo = Torn
      BY <1>6 DEF WritePhoto, AnyInv, FilesThere
    <2>3. file \in Picture \cup {Torn}
      BY <2>1, <2>2, PicturesApart DEF CopyOf, Typed, TypeOK
    <2>4. QED
      BY <1>6, <2>1, <2>3 DEF WritePhoto, Typed, TypeOK, FileTypes, LoadFits, data
  <1>7. CASE ClearSession
    <2>1. /\ current' = Missing /\ snap' = NoSnapshots
          /\ UNCHANGED <<photo, pristine>>
          /\ thread' = thread \/ thread' = [thread EXCEPT !.step = "lost"]
      BY <1>7 DEF ClearSession, disk
    <2>2. FileTypes'
      BY <1>1, <2>1 DEF Typed, TypeOK, FileTypes
    <2>3. thread'.step = "lost" \/ thread' = thread
      BY <2>1 DEF Typed, TypeOK
    <2>4. QED
      BY <2>1, <2>2, <2>3, PicturesApart DEF Typed, LoadFits
  <1>8. QED
    BY <1>2, <1>3, <1>4, <1>5, <1>6, <1>7 DEF CloseSteps

\* The thread reads a picture that has room, and writes one within the bound.
LEMMA ThreadFits ==
    ASSUME AnyInv, Typed, ~dead, UNCHANGED host, ThreadSteps
    PROVE  FileTypes' /\ LoadFits'
  <1>1. UNCHANGED <<photo, pristine, snap>>
    BY DEF ThreadSteps, ThreadLoads, ThreadOpens, ThreadWrites,
           ThreadWritesRemoved, disk, files
  <1>2. CASE ThreadLoads
    <2>1. UNCHANGED current /\ thread.step = "load"
      BY <1>2 DEF ThreadLoads, files
    <2>2. CASE File \in {Missing, Torn}
      BY <1>1, <1>2, <2>1, <2>2
      DEF ThreadLoads, Typed, TypeOK, FileTypes, LoadFits
    <2>3. CASE File \notin {Missing, Torn}
      <3>1. File = current /\ current \in Picture /\ current \in Pictures
        BY <2>3, PicturesFit DEF File, Typed, TypeOK
      <3>2. thread' = [thread EXCEPT !.step = "save", !.image = current]
        BY <1>2, <2>3, <3>1 DEF ThreadLoads
      <3>3. thread' \in [step: {"none", "load", "save", "write", "lost", "done"},
                         edit: Edit \cup {Zero}, image: Picture \cup {Missing}]
        BY <3>1, <3>2 DEF Typed, TypeOK
      <3>4. /\ thread'.step = "save" /\ thread'.edit = thread.edit
            /\ thread'.image = current
        BY <3>2 DEF Typed, TypeOK
      <3>5. LoadFits'
        BY <2>1, <3>1, <3>4 DEF Typed, LoadFits
      <3>6. QED
        BY <1>1, <2>1, <3>3, <3>5 DEF Typed, TypeOK, FileTypes
    <2>4. QED
      BY <2>2, <2>3
  <1>3. CASE ThreadOpens
    <2>1. current' \in {current, Torn}
      BY <1>3 DEF ThreadOpens
    <2>2. /\ thread.step = "save"
          /\ \/ thread' = [thread EXCEPT !.step = "lost"]
             \/ thread' = [thread EXCEPT !.step = "write"]
      BY <1>3 DEF ThreadOpens
    <2>3. FileTypes'
      BY <1>1, <2>1, <2>2 DEF Typed, TypeOK, FileTypes
    <2>4. /\ thread'.step \in {"lost", "write"} /\ thread'.edit = thread.edit
          /\ thread'.image = thread.image
      BY <2>2 DEF Typed, TypeOK
    <2>5. QED
      BY <2>2, <2>3, <2>4 DEF Typed, LoadFits
  <1>4. CASE ThreadWrites
    <2>1. /\ thread.step = "write" /\ thread' = [thread EXCEPT !.step = "done"]
          /\ current' = Edited(thread.image, thread.edit) \/ UNCHANGED current
      BY <1>4 DEF ThreadWrites
    <2>2. thread.image \in Picture /\ thread.edit \in Edit \cup {Zero}
      BY <2>1 DEF Typed, TypeOK, AnyInv, ThreadSound
    <2>3. thread.edit # Zero => Len(thread.image) < MaxEdits
      BY <2>1 DEF Typed, LoadFits
    <2>4. current' \in Picture \cup {Torn, Missing}
      BY <2>1, <2>2, <2>3, EditedFits DEF Typed, TypeOK
    <2>5. thread'.step = "done" /\ FileTypes'
      BY <1>1, <2>1, <2>4 DEF Typed, TypeOK, FileTypes
    <2>6. QED
      BY <2>5, NothingLoads
  <1>5. CASE ThreadWritesRemoved
    <2>1. UNCHANGED current /\ thread' = [thread EXCEPT !.step = "done"]
      BY <1>5 DEF ThreadWritesRemoved, files
    <2>2. thread'.step = "done" /\ FileTypes'
      BY <1>1, <2>1 DEF Typed, TypeOK, FileTypes
    <2>3. QED
      BY <2>2, NothingLoads
  <1>6. QED
    BY <1>2, <1>3, <1>4, <1>5 DEF ThreadSteps

LEMMA TypedStep ==
    ASSUME AnyInv, Typed, [Next]_vars
    PROVE  Typed'
  <1>1. ControlTypes
    BY SessionHolds DEF Typed, TypeOK, ControlTypes
  <1>2. /\ NoSnapshots \in [0..MaxLevel -> Picture \cup {Torn, Missing}]
        /\ NoThread \in [step: {"none", "load", "save", "write", "lost", "done"},
                         edit: Edit \cup {Zero}, image: Picture \cup {Missing}]
        /\ NoThread.step = "none"
    BY DEF NoSnapshots, NoThread
  <1>3. ASSUME EditFinished, ~dead
        PROVE  FileTypes' /\ LoadFits'
    <2>1. thread' = NoThread /\ UNCHANGED <<photo, pristine, current>>
      BY <1>3 DEF EditFinished, FinishEditing, disk
    <2>2. snap' \in [0..MaxLevel -> Picture \cup {Torn, Missing}]
      <3>1. CASE UNCHANGED snap
        BY <3>1 DEF Typed, TypeOK
      <3>2. CASE Checkpoint /\ ~adjusting
        <4>1. level < MaxLevel
          BY <1>3, <3>2 DEF EditFinished, FinishEditing, AnyInv, ThreadSound
        <4>2. QED
          BY <3>2, <4>1, CheckpointFits
      <3>3. QED
        BY <1>3, <3>1, <3>2 DEF EditFinished
    <2>3. QED
      BY <1>2, <2>1, <2>2 DEF Typed, TypeOK, FileTypes, LoadFits
  <1>4. ASSUME BarFades \/ CropperFades \/ UNCHANGED vars
        PROVE  FileTypes' /\ LoadFits'
    <2>1. UNCHANGED <<photo, pristine, current, snap, thread>>
      BY <1>4 DEF BarFades, CropperFades, vars, disk, files, stack, data
    <2>2. QED
      BY <2>1 DEF Typed, TypeOK, FileTypes, LoadFits
  <1>5. ASSUME Restart
        PROVE  FileTypes' /\ LoadFits'
    <2>1. /\ UNCHANGED <<photo, pristine>> /\ current' = Missing
          /\ snap' = NoSnapshots /\ thread' = NoThread
      BY <1>5 DEF Restart, disk
    <2>2. QED
      BY <1>2, <2>1 DEF Typed, TypeOK, FileTypes, LoadFits
  <1>6. FileTypes' /\ LoadFits'
    BY <1>3, <1>4, <1>5, UserFits, HostFits, ThreadFits DEF Next, Step
  <1>7. ControlTypes'
    BY <1>1, ControlStep
  <1>8. failures' <= host'.fails /\ failures' \in 0..MaxFails
    <2>1. host' \in Hosts /\ failures' \in Nat
      BY <1>7 DEF ControlTypes
    <2>2. failures' <= host'.fails
      BY FailuresFit DEF Typed, TypeOK
    <2>3. host'.fails \in Nat /\ host'.fails <= MaxFails /\ MaxFails \in Nat
      BY <2>1, SessionAssumption
    <2>4. QED
      BY <2>1, <2>2, <2>3
  <1>9. QED
    BY <1>6, <1>7, <1>8 DEF Typed, TypeOK, ControlTypes, FileTypes

LEMMA TypedInit ==
    ASSUME Init
    PROVE  Typed
  <1>1. /\ NoSnapshots \in [0..MaxLevel -> Picture \cup {Torn, Missing}]
        /\ NoThread \in [step: {"none", "load", "save", "write", "lost", "done"},
                         edit: Edit \cup {Zero}, image: Picture \cup {Missing}]
        /\ NoThread.step = "none" /\ MaxLevel \in Nat
    BY SessionAssumption DEF NoSnapshots, NoThread
  <1>2. FileTypes
    BY <1>1, PicturesFit DEF Init, FileTypes
  <1>3. 0 \in 0..MaxLevel /\ 0 \in 0..MaxLevel + 1
    BY <1>1
  <1>4. ControlTypes
    BY <1>3 DEF Init, ControlTypes
  <1>5. LoadFits
    <2>1. thread.step = "none"
      BY <1>1 DEF Init
    <2>2. QED
      BY <2>1 DEF LoadFits
  <1>6. failures <= host.fails /\ failures \in 0..MaxFails
    BY SessionAssumption DEF Init
  <1>7. QED
    BY <1>2, <1>4, <1>5, <1>6 DEF Typed, TypeOK, ControlTypes, FileTypes

\* The types of the whole editor, with any host, crashes and failing copies:
\* above all no file grows beyond the bound, so that an edit refused or begun
\* again in another session never works on another picture than it was
\* started for without there being room.
THEOREM SessionTypes == Spec => []TypeOK
  <1>1. (host \in Hosts /\ AnyInv) /\ Typed /\ [Next]_vars => Typed'
    BY TypedStep
  <1>2. Typed => TypeOK
    BY DEF Typed
  <1>3. QED
    BY <1>1, <1>2, TypedInit, AnyInvariant, PTL DEF Spec

-----------------------------------------------------------------------------
(* The session's snapshots are a history of versions: EditHistory's list   *)
(* and place, as the refinement in EditSession maps them.                  *)

Versions ==
    IF session = "open" /\ HostWaits
    THEN [n \in 1..count |-> snap[n - 1]] ELSE <<>>

Pos == IF session = "open" /\ HostWaits THEN level + 1 ELSE 0

\* In a session the list has an item for each snapshot, and the place is one.
LEMMA SessionHistory ==
    ASSUME AnyInv, TypeOK, HostWaits, failures = 0, session = "open"
    PROVE  /\ Versions \in Seq(Picture) /\ Len(Versions) = count
           /\ \A n \in 1..count : Versions[n] = snap[n - 1]
           /\ Pos = level + 1 /\ Pos \in 1..count /\ Versions # <<>>
           /\ level \in Nat /\ count \in Nat
  <1>1. level \in Nat /\ count \in Nat /\ level < count
    BY SessionHolds
  <1>2. Versions = [n \in 1..count |-> snap[n - 1]] /\ Pos = level + 1
    BY DEF Versions, Pos
  <1>3. ASSUME NEW n \in 1..count
        PROVE  snap[n - 1] \in Picture
    <2>1. n - 1 \in 0..count - 1
      BY <1>1
    <2>2. snap[n - 1] \in Pictures /\ n - 1 \in 0..MaxLevel
      BY <2>1, Waiting, SessionHolds
    <2>3. QED
      BY <2>2, PicturesApart DEF TypeOK
  <1>4. Versions \in Seq(Picture) /\ Len(Versions) = count
    BY <1>1, <1>2, <1>3
  <1>5. QED
    BY <1>1, <1>2, <1>4

\* A checkpoint drops the versions that were undone and adds what is shown.
LEMMA CheckpointEdits ==
    ASSUME AnyInv, TypeOK, HostWaits, HostWaits', failures = 0,
           session = "open", session' = "open", level < MaxLevel,
           current \in Picture, Checkpoint
    PROVE  /\ Versions' = Append(SubSeq(Versions, 1, Pos), current)
           /\ Pos' = Pos + 1 /\ Versions # <<>>
  <1>1. /\ level \in Nat /\ count \in Nat /\ level < count
        /\ Versions \in Seq(Picture) /\ Len(Versions) = count
        /\ \A n \in 1..count : Versions[n] = snap[n - 1]
        /\ Pos = level + 1 /\ Versions # <<>>
    BY SessionHistory, SessionHolds
  <1>2. /\ level' = level + 1 /\ count' = level + 2
        /\ snap'[level'] = current /\ \A n \in 0..level : snap'[n] = snap[n]
    BY CheckpointPlaces, Waiting, PicturesFit DEF AnyInv, Sound
  <1>3. Versions' = [n \in 1..level + 2 |-> snap'[n - 1]] /\ Pos' = Pos + 1
    BY <1>1, <1>2 DEF Versions, Pos
  <1> DEFINE shown == SubSeq(Versions, 1, level + 1)
             edited == Append(shown, current)
             S == Picture
  <1>4. /\ shown \in Seq(S) /\ Len(shown) = level + 1
        /\ \A i \in 1..level + 1 : shown[i] = Versions[i]
    <2>1. 1 \in 1..Len(Versions) /\ level + 1 \in 1..Len(Versions)
      BY <1>1
    <2> HIDE DEF S
    <2>2. Versions \in Seq(S)
      BY <1>1 DEF S
    <2>3. QED
      BY <1>1, <2>1, <2>2, SubSeqProperties
  <1>5. /\ edited \in Seq(S) /\ Len(edited) = level + 2
        /\ \A i \in 1..level + 1 : edited[i] = shown[i]
        /\ edited[level + 2] = current
    <2>1. current \in S
      OBVIOUS
    <2> HIDE DEF S, shown
    <2>2. /\ edited \in Seq(S) /\ Len(edited) = Len(shown) + 1
          /\ \A i \in 1..Len(shown) : edited[i] = shown[i]
          /\ edited[Len(shown) + 1] = current
      BY <1>4, <2>1, AppendProperties
    <2> HIDE DEF edited
    <2>3. QED
      BY <1>1, <1>4, <2>2
  <1>6. \A i \in 1..level + 2 : edited[i] = snap'[i - 1]
    <2>1. SUFFICES ASSUME NEW i \in 1..level + 2 PROVE edited[i] = snap'[i - 1]
      OBVIOUS
    <2> HIDE DEF edited, shown, S
    <2>2. CASE i = level + 2
      BY <1>1, <1>2, <1>5, <2>2
    <2>3. CASE i # level + 2
      <3>1. i \in 1..level + 1 /\ i \in 1..count /\ i - 1 \in 0..level
        BY <1>1, <2>3
      <3>2. QED
        BY <1>1, <1>2, <1>4, <1>5, <3>1
    <2>4. QED
      BY <2>2, <2>3
  <1>7. edited = [i \in 1..level + 2 |-> edited[i]]
    <2> HIDE DEF edited, shown, S
    <2>1. QED
      BY <1>1, <1>5
  <1>8. Versions' = edited
    <2> HIDE DEF edited, shown, S
    <2>1. [i \in 1..level + 2 |-> edited[i]] = [n \in 1..level + 2 |-> snap'[n - 1]]
      BY <1>6
    <2>2. QED
      BY <1>3, <1>7, <2>1
  <1>9. QED
    BY <1>1, <1>3, <1>8

\* While no edit is running what is shown is a picture.
LEMMA AtRest ==
    ASSUME AnyInv, SessionInv, TypeOK, session = "open",
           ~busy \/ thread.step = "done"
    PROVE  current \in Picture
  <1>1. current \in Pictures
    BY WholeAtRest DEF SessionInv, AnyInv, ThreadSound
  <1>2. QED
    BY <1>1, PicturesApart DEF TypeOK

\* A session of one version.
LEMMA OneVersion ==
    ASSUME HostWaits', session' = "open", level' = 0, count' = 1
    PROVE  Versions' = <<snap'[0]>> /\ Pos' = 1
  <1>1. Versions' = [n \in 1..1 |-> snap'[n - 1]] /\ Pos' = 1
    BY DEF Versions, Pos
  <1>2. [n \in 1..1 |-> snap'[n - 1]] = [n \in 1..1 |-> snap'[0]]
    BY \A n \in 1..1 : n - 1 = 0
  <1>3. [n \in 1..1 |-> snap'[0]] = <<snap'[0]>>
    OBVIOUS
  <1>4. QED
    BY <1>1, <1>2, <1>3

\* What the user does is an edit, an undo, a redo, a revert, or nothing to the
\* versions.
LEMMA UserMakesHistory ==
    ASSUME AnyInv, SessionInv, TypeOK, HostWaits, HostWaits', host \in Hosts,
           ~dead, UserActs
    PROVE  [History!Next]_<<Versions, Pos>>
  <1>1. CASE UNCHANGED <<session, level, count, snap>>
    BY <1>1 DEF Versions, Pos
  <1>2. CASE Rotate \/ StartCropping \/ Cropped \/ CropCanceled \/ StartAdjusting
             \/ AskToRevert \/ CancelRevert
    BY <1>1, <1>2
    DEF Rotate, StartCropping, Cropped, CropCanceled, StartAdjusting,
        AskToRevert, CancelRevert, RestoreSnapshot, files, stack
  <1>3. CASE Cancel \/ \E value \in Exposure \cup {Zero} : ExposureChanged(value)
    BY <1>1, <1>3 DEF Cancel, Adjusted, ExposureChanged, RestoreSnapshot, stack
  <1>4. CASE Confirm
    <2>1. /\ session = "open" /\ session' = "open" /\ ~busy /\ Checkpoint
          /\ level < host.levels
      BY <1>4, Waiting DEF Confirm, Adjusted, Shown, SessionInv
    <2>2. level < MaxLevel
      BY <2>1, SessionHolds, LevelsBound, SessionAssumption
    <2>3. current \in Picture
      BY <2>1, AtRest
    <2>4. PICK v \in Picture : v = current
      BY <2>3
    <2>5. History!Edit(v)
      BY <2>1, <2>2, <2>3, <2>4, CheckpointEdits
      DEF History!Edit, Versions, Pos, SessionInv
    <2>6. QED
      BY <2>5 DEF History!Next
  <1>5. ASSUME NEW to \in Int, UndoOrRedo(to)
        PROVE  /\ session = "open" /\ UNCHANGED Versions /\ Pos' = to + 1
               /\ Pos = level + 1 /\ level \in Nat /\ count \in Nat
               /\ Len(Versions) = count
    <2>1. /\ session = "open" /\ UNCHANGED <<session, count, snap>>
          /\ level' = to
      BY <1>5, Waiting DEF UndoOrRedo, Shown, RestoreSnapshot, SessionInv
    <2>2. QED
      BY <2>1, SessionHistory DEF Versions, Pos, SessionInv
  <1>6. CASE Undo
    <2>1. level - 1 \in Int /\ level > 0 /\ UndoOrRedo(level - 1)
      BY <1>6 DEF Undo, TypeOK
    <2>2. Pos > 1 /\ Pos' = Pos - 1 /\ UNCHANGED Versions
      BY <1>5, <2>1
    <2>3. QED
      BY <2>2 DEF History!Next, History!Undo, Versions, Pos
  <1>7. CASE Redo
    <2>1. level + 1 \in Int /\ level < count - 1 /\ UndoOrRedo(level + 1)
      BY <1>7 DEF Redo, TypeOK
    <2>2. Pos < Len(Versions) /\ Pos' = Pos + 1 /\ UNCHANGED Versions
      BY <1>5, <2>1
    <2>3. QED
      BY <2>2 DEF History!Next, History!Redo, Versions, Pos
  <1>8. CASE ConfirmRevert
    <2>1. UNCHANGED session /\ RevertToPristine /\ call = "no"
      BY <1>8 DEF ConfirmRevert
    <2>2. CASE session # "open"
      BY <2>1, <2>2 DEF Versions, Pos
    <2>3. CASE session = "open"
      <3>1. level' = 0 /\ count' = 1 /\ session' = "open"
        BY <2>1, <2>3 DEF RevertToPristine
      <3>2. /\ ~NoRoom /\ 0 \in DOMAIN snap /\ failures = 0
            /\ 1 \in 1..count /\ Versions[1] = snap[1 - 1]
        BY <2>3, Waiting, SessionHistory DEF SessionInv
      <3>3. snap'[0] \in {Versions[1], First}
        <4>1. CASE pristine = Missing
          BY <2>1, <2>3, <3>2, <4>1 DEF RevertToPristine, RestoreSnapshot
        <4>2. CASE pristine # Missing
          <5>1. pristine = First
            BY <4>2 DEF SessionInv, PristineKnown
          <5>2. /\ CopyOf(pristine, current) = {First}
                /\ CopyOf(First, snap[0]) = {First}
            BY <3>2, <4>2, <5>1 DEF CopyOf
          <5>3. PICK file \in CopyOf(pristine, current) :
                  \E first \in CopyOf(file, snap[0]) :
                    snap' = [snap EXCEPT ![0] = first]
            BY <2>1, <2>3, <4>2 DEF RevertToPristine
          <5>4. QED
            BY <3>2, <5>2, <5>3
        <4>3. QED
          BY <4>1, <4>2
      <3>4. Versions' = <<snap'[0]>> /\ Pos' = 1 /\ Versions # <<>>
        BY <2>3, <3>1, <3>2, OneVersion, SessionHistory
      <3>5. History!Revert
        BY <3>3, <3>4 DEF History!Revert, Versions, Pos
      <3>6. QED
        BY <3>5 DEF History!Next
    <2>4. QED
      BY <2>2, <2>3
  <1>9. QED
    BY <1>2, <1>3, <1>4, <1>6, <1>7, <1>8 DEF UserActs

\* So is every other step: the host's, the thread's and the end of the process.
LEMMA StepMakesHistory ==
    ASSUME AnyInv, SessionInv, TypeOK, HostWaits, HostWaits', host \in Hosts,
           [Next]_vars
    PROVE  [History!Next]_<<Versions, Pos>>
  <1>1. CASE UNCHANGED <<session, level, count, snap>>
    BY <1>1 DEF Versions, Pos
  <1>2. CASE session # "open" /\ session' # "open"
    BY <1>2 DEF Versions, Pos
  <1>3. CASE ~dead /\ Open
    <2>1. /\ session = "closed" /\ photo \in Picture
          /\ ~NoRoom /\ MaxLevel \in Nat
      BY <1>3, Waiting, SessionHolds DEF Open, TypeOK, SessionInv
    <2>2. /\ CopyOf(photo, Missing) = {photo} /\ photo # Missing
      BY <2>1, PicturesFit DEF CopyOf
    <2>3. /\ session' = "open" /\ level' = 0 /\ count' = 1
          /\ snap' = [NoSnapshots EXCEPT ![0] = photo]
      BY <1>3, <2>1, <2>2 DEF Open, StartEditingSession
    <2>4. snap'[0] = photo
      BY <2>1, <2>3 DEF NoSnapshots
    <2>5. Versions = <<>> /\ Versions' = <<photo>> /\ Pos' = 1
      BY <2>1, <2>3, <2>4, OneVersion DEF Versions
    <2>6. PICK v \in Picture : v = photo
      BY <2>1
    <2>7. History!Begin(v)
      BY <2>5, <2>6 DEF History!Begin, Versions, Pos
    <2>8. QED
      BY <2>7 DEF History!Next
  <1>4. CASE ClearSession \/ Restart
    <2>1. session' = "closed"
      BY <1>4 DEF ClearSession, Restart
    <2>2. History!End
      BY <2>1 DEF History!End
    <2>3. QED
      BY <2>2 DEF History!Next, Versions, Pos
  <1>5. CASE \E s \in BOOLEAN : Close(s)
    BY <1>1, <1>5 DEF Close, files
  <1>6. CASE KeepPristine \/ TruncatePhoto \/ WritePhoto
    BY <1>1, <1>6 DEF KeepPristine, TruncatePhoto, WritePhoto, files
  <1>7. CASE ThreadSteps \/ OpenSteps
    BY <1>1, <1>7
    DEF ThreadSteps, ThreadLoads, ThreadOpens, ThreadWrites,
        ThreadWritesRemoved, OpenSteps, SetPath, ReadOrientation, files, stack
  <1>8. CASE EditFinished
    <2>1. CASE adjusting \/ dead'
      BY <1>1, <1>8, <2>1 DEF EditFinished
    <2>2. CASE session # "open"
      BY <1>2, <1>8, <2>2 DEF EditFinished
    <2>3. CASE session = "open" /\ ~adjusting /\ ~dead'
      <3>1. /\ Checkpoint /\ session' = "open" /\ thread.step = "done"
            /\ level < MaxLevel /\ failures = 0
        BY <1>8, <2>3
        DEF EditFinished, FinishEditing, AnyInv, ThreadSound, SessionInv
      <3>2. current \in Picture
        BY <2>3, <3>1, AtRest
      <3>3. PICK v \in Picture : v = current
        BY <3>2
      <3>4. History!Edit(v)
        BY <2>3, <3>1, <3>2, <3>3, CheckpointEdits
        DEF History!Edit, Versions, Pos
      <3>5. QED
        BY <3>4 DEF History!Next
    <2>4. QED
      BY <2>1, <2>2, <2>3
  <1>9. CASE BarFades \/ CropperFades \/ UNCHANGED vars
    BY <1>1, <1>9 DEF BarFades, CropperFades, vars, files, stack
  <1>10. QED
    BY <1>3, <1>4, <1>5, <1>6, <1>7, <1>8, <1>9, UserMakesHistory
    DEF Next, Step, CloseSteps

\* EditStack.qml: with a host that waits the undo stack and its files are a
\* list of versions and a place in it.  An edit drops what was undone and adds
\* the version shown, undo and redo move by one and change no version, and a
\* revert leaves the version the session began with or the first original.
THEOREM HistoryKept == Spec => HistorySpec
  <1> DEFINE Inv == (host \in Hosts /\ AnyInv) /\ TypeOK
                    /\ (HostWaits => SessionInv)
  <1>1. Init => History!Init
    BY DEF Init, History!Init
  <1>2. Inv /\ [Next]_vars => [History!Next]_<<Versions, Pos>>
    <2>1. SUFFICES ASSUME Inv, [Next]_vars
                   PROVE  [History!Next]_<<Versions, Pos>>
      OBVIOUS
    <2>2. host' = host
      BY <2>1 DEF Next, vars
    <2>3. HostWaits' <=> HostWaits
      BY <2>2 DEF HostWaits
    <2>4. CASE ~HostWaits
      BY <2>3, <2>4 DEF Versions, Pos
    <2>5. CASE HostWaits
      BY <2>1, <2>3, <2>5, StepMakesHistory
    <2>6. QED
      BY <2>4, <2>5
  <1>3. Inv /\ [Next]_vars
        => [History!Next]_<<IF session = "open" /\ HostWaits
                            THEN [n \in 1..count |-> snap[n - 1]] ELSE <<>>,
                            IF session = "open" /\ HostWaits
                            THEN level + 1 ELSE 0>>
    BY <1>2 DEF Versions, Pos
  <1>4. QED
    BY <1>1, <1>3, SessionTypes, SessionInvariant, AnyInvariant, PTL
    DEF Spec, HistorySpec, History!Spec
=============================================================================
