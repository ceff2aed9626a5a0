------------------------ MODULE MCSignalRateLimiter ------------------------
(* A small instance of SignalRateLimiter: two printers, an interval of two *)
(* ticks, a timeout at most one tick late, and a wall clock that may be    *)
(* set by more than four intervals either way while names are pending.     *)
EXTENDS SignalRateLimiter

CONSTANTS p1, p2

MCName == {p1, p2}
MCAdjustments == {-9, -1, 1, 9}
=============================================================================
