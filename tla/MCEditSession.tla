---------------------------- MODULE MCEditSession ----------------------------
(* Small instances of EditSession: one exposure value and hosts that wait, *)
(* with two undo levels, so that an edit after an undo is among them, or   *)
(* with pictures of two edits, for a second session that starts from an    *)
(* edited photo; and one that closes the editor at any time.               *)
EXTENDS EditSession

MCExposure == {"brighter"}
MCZero == "zero"
MCTorn == <<"torn">>
MCMissing == <<"missing">>
MCLevels == [calls |-> {"idle"}, crashes |-> FALSE, fails |-> 0,
             levels |-> 2, edits |-> 1]
MCEdits == [calls |-> {"idle"}, crashes |-> FALSE, fails |-> 0,
            levels |-> 1, edits |-> 2]
MCTool == [calls |-> {"idle", "tool"}, crashes |-> FALSE, fails |-> 0,
           levels |-> 2, edits |-> 2]
MCAnyTime == [calls |-> {"idle", "tool", "dialog", "busy"}, crashes |-> TRUE,
              fails |-> 1, levels |-> 1, edits |-> 1]
MCHosts == {MCLevels, MCEdits, MCAnyTime}
MCToolHost == {MCTool}
==============================================================================
