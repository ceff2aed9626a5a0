----------------------------- MODULE Coalescer -----------------------------
(***************************************************************************)
(* What the rest of the Printers library relies on from SignalRateLimiter  *)
(* (Printers/printer/signalratelimiter.cpp): notifications about printers  *)
(* go in one at a time, names come out in batches, no name that went in is *)
(* lost, nothing comes out that did not go in, and no name is owed for     *)
(* ever.  When a batch comes out is left open here; SignalRateLimiter adds *)
(* the timer and the clock and implements this module.  The modules that   *)
(* have a limiter use the three actions, with the batch b as a parameter.  *)
(***************************************************************************)
CONSTANT Name       \* the printer names notifications can be about

VARIABLES
    owed,           \* names notified and not handed on yet
    batch           \* the names handed on by the last step, {} if none were

coalescerVars == <<owed, batch>>

Init == owed = {} /\ batch = {}

\* A notification is kept for a later batch ...
Keep(n) == owed' = owed \union {n}

\* ... or is the one that makes the batch go out at once.
KeepAndHandOn(n, b) ==
    /\ b = owed \union {n}
    /\ owed' = {}

\* Mutant: what was handed on is not forgotten.
HandOnKeeping(b) ==
    /\ owed # {}
    /\ b = owed
    /\ UNCHANGED owed

\* Everything owed is handed on in one batch.
HandOn(b) ==
    /\ owed # {}
    /\ b = owed
    /\ owed' = {}

Next ==
    \/ \E n \in Name : Keep(n) /\ batch' = {}
    \/ \E n \in Name : KeepAndHandOn(n, batch')
    \/ HandOn(batch')
    \/ owed' = owed /\ batch' = {}

Spec ==
    /\ Init
    /\ [][Next]_coalescerVars
    /\ WF_coalescerVars(HandOn(batch'))
=============================================================================
