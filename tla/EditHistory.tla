----------------------------- MODULE EditHistory -----------------------------
(***************************************************************************)
(* What the photo editor's EditStack promises: a list of the versions a    *)
(* picture had in this session and the one being shown.  An edit drops the *)
(* versions that were undone; reverting leaves one version, the first of   *)
(* the session or the very first original.                                 *)
(***************************************************************************)
EXTENDS Naturals, Sequences

CONSTANTS
    Version,        \* the versions of a picture
    First           \* the very first original

VARIABLES
    versions,       \* items, as what their files hold; empty out of a session
    pos             \* level + 1; 0 out of a session

Init == versions = <<>> /\ pos = 0

Begin(v) ==
    /\ versions = <<>>
    /\ versions' = <<v>>
    /\ pos' = 1

Edit(v) ==
    /\ versions # <<>>
    /\ versions' = Append(SubSeq(versions, 1, pos), v)
    /\ pos' = pos + 1

Undo ==
    /\ pos > 1
    /\ pos' = pos - 1
    /\ UNCHANGED versions

Redo ==
    /\ pos < Len(versions)
    /\ pos' = pos + 1
    /\ UNCHANGED versions

Revert ==
    /\ versions # <<>>
    /\ \E v \in {versions[1], First}: versions' = <<v>>
    /\ pos' = 1

End ==
    /\ versions' = <<>>
    /\ pos' = 0

Next ==
    \/ \E v \in Version: Begin(v) \/ Edit(v)
    \/ Undo \/ Redo \/ Revert \/ End

Spec == Init /\ [][Next]_<<versions, pos>>
==============================================================================
