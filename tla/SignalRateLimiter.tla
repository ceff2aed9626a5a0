------------------------- MODULE SignalRateLimiter -------------------------
(***************************************************************************)
(* SignalRateLimiter (Printers/printer/signalratelimiter.cpp): a debounce. *)
(* Every notification about a printer puts its name in m_unprocessed and   *)
(* restarts m_timer; the names are emitted when the timer times out, or by *)
(* the notification that finds the oldest pending one more than four       *)
(* intervals old.                                                          *)
(*                                                                         *)
(* Only differences of the clocks matter to the code, so the state keeps   *)
(* ages and not times.  There are two clocks: the timer runs on the        *)
(* monotonic one, while m_unprocessed_time is QDateTime::currentDateTime(),*)
(* the wall clock, which the user or NTP may set while names are pending.  *)
(***************************************************************************)
EXTENDS Integers

CONSTANTS
    Name,           \* the printer names notifications can be about
    Interval,       \* m_timer.interval(), in ticks
    Slack,          \* how late the event loop may serve a timeout, in ticks
    Adjustments,    \* the steps by which the wall clock may be set
    MaxBack,        \* bound: how far it is set back while names are pending
    MaxAhead        \* bound: how far it is set ahead while names are pending

ASSUME LimiterAssumption ==
    /\ Interval \in Nat \ {0}
    /\ Slack \in Nat
    /\ Adjustments \subseteq Int
    /\ MaxBack \in Nat
    /\ MaxAhead \in Nat

VARIABLES
    unprocessed,    \* m_unprocessed
    wallAge,        \* m_unprocessed_time.msecsTo(currentDateTime())
    timer,          \* m_timer: "active" or "stopped"
    left,           \* ticks until m_timer times out; below 0 it is late
    emitted,        \* the names the last step emitted printerModified for
    waited,         \* ticks really gone by since the first pending name
    setBack,        \* sum of the backward settings since then
    setAhead        \* sum of the forward settings since then

vars == <<unprocessed, wallAge, timer, left, emitted, waited, setBack,
          setAhead>>

history == <<waited, setBack, setAhead>>

TypeOK ==
    /\ unprocessed \subseteq Name
    /\ wallAge \in Int
    /\ timer \in {"active", "stopped"}
    /\ left \in Int
    /\ emitted \subseteq Name
    /\ waited \in Nat
    /\ setBack \in Nat
    /\ setAhead \in Nat

Init ==
    /\ unprocessed = {}
    /\ wallAge = 0
    /\ timer = "stopped"
    /\ left = 0
    /\ emitted = {}
    /\ waited = 0 /\ setBack = 0 /\ setAhead = 0

-----------------------------------------------------------------------------
\* The age the oldest pending name has when a notification arrives: the time
\* is taken again when nothing was pending.
AgeOnReceipt == IF unprocessed = {} THEN 0 ELSE wallAge

\* Mutant: no notification ever finds the oldest one overdue.
OverdueNever(age) == FALSE

\* Mutant: the factor on the wrong side.
OverdueEarly(age) == 4 * age > Interval

\* Pending for more than four intervals, due to many signals coming in rapidly.
Overdue(age) == age > 4 * Interval

\* process(): emit every pending name, forget them, stop the timer.  The code
\* leaves m_unprocessed_time as it is; it is taken again before it is read, so
\* the ages are reset here to keep them finite.
Process(pending) ==
    /\ emitted' = pending
    /\ unprocessed' = {}
    /\ timer' = "stopped"
    /\ left' = 0
    /\ wallAge' = 0
    /\ waited' = 0 /\ setBack' = 0 /\ setAhead' = 0

\* Mutant: a name takes the place of the pending ones.
ReceiveReplaces(n) ==
    \/ /\ Overdue(AgeOnReceipt)
       /\ Process({n})
    \/ /\ ~Overdue(AgeOnReceipt)
       /\ unprocessed' = {n}
       /\ wallAge' = AgeOnReceipt
       /\ timer' = "active"
       /\ left' = Interval
       /\ emitted' = {}
       /\ IF unprocessed = {}
          THEN waited' = 0 /\ setBack' = 0 /\ setAhead' = 0
          ELSE UNCHANGED history

\* The body both slots have: note the name, restart the timer, and process
\* right away when the oldest pending name is overdue.
Receive(n) ==
    LET pending == unprocessed \union {n} IN
    \/ /\ Overdue(AgeOnReceipt)
       /\ Process(pending)
    \/ /\ ~Overdue(AgeOnReceipt)
       /\ unprocessed' = pending
       /\ wallAge' = AgeOnReceipt
       /\ timer' = "active"
       /\ left' = Interval
       /\ emitted' = {}
       /\ IF unprocessed = {}
          THEN waited' = 0 /\ setBack' = 0 /\ setAhead' = 0
          ELSE UNCHANGED history

OnPrinterModified(n) == Receive(n)

OnPrinterStateChanged(n) == Receive(n)

\* m_timer's timeout() runs process().
Timeout ==
    /\ timer = "active"
    /\ left <= 0
    /\ Process(unprocessed)

-----------------------------------------------------------------------------
\* A tick of time.  It cannot go by while a timeout is Slack ticks late: the
\* event loop serves it before that.
Tick ==
    /\ timer = "active"
    /\ left > -Slack
    /\ left' = left - 1
    /\ wallAge' = wallAge + 1
    /\ waited' = waited + 1
    /\ emitted' = {}
    /\ UNCHANGED <<unprocessed, timer, setBack, setAhead>>

\* The wall clock is set while names are pending.
SetClock(d) ==
    /\ unprocessed # {}
    /\ \/ /\ d < 0
          /\ setBack - d <= MaxBack
          /\ setBack' = setBack - d
          /\ UNCHANGED setAhead
       \/ /\ d > 0
          /\ setAhead + d <= MaxAhead
          /\ setAhead' = setAhead + d
          /\ UNCHANGED setBack
    /\ wallAge' = wallAge + d
    /\ emitted' = {}
    /\ UNCHANGED <<unprocessed, timer, left, waited>>

Next ==
    \/ \E n \in Name : OnPrinterModified(n) \/ OnPrinterStateChanged(n)
    \/ Timeout
    \/ Tick
    \/ \E d \in Adjustments : SetClock(d)

\* Time goes on, and the event loop serves the timer.
Spec == Init /\ [][Next]_vars /\ WF_vars(Tick) /\ WF_vars(Timeout)

-----------------------------------------------------------------------------
(***************************************************************************)
(* However many notifications keep restarting the timer, the oldest one is *)
(* never pending for longer than four intervals (the last notification     *)
(* that was not overdue), one more (its timer), the lateness of the event  *)
(* loop, and what the wall clock was set back by meanwhile.  This is what  *)
(* the "four times longer than the timer" test of onPrinterModified is for.*)
(***************************************************************************)
PendingBound ==
    unprocessed # {} => waited <= 5 * Interval + Slack + setBack

(***************************************************************************)
(* A batch goes out no earlier than one interval after its first name went *)
(* in, unless the wall clock was set ahead: printers are not reloaded more *)
(* often than once per interval, which is what the class exists for.       *)
(***************************************************************************)
RateLimited ==
    [][emitted' # {} => waited + setAhead >= Interval]_vars

(***************************************************************************)
(* The inductive invariant behind PendingBound and RateLimited: pending    *)
(* names always have the timer running, and the ages the two clocks give   *)
(* differ by exactly the settings of the wall clock.                       *)
(***************************************************************************)
TimerInv ==
    /\ unprocessed # {} <=> timer = "active"
    /\ timer = "active" =>
        /\ wallAge = waited + setAhead - setBack
        /\ left <= Interval
        /\ left >= -Slack
        /\ waited + left >= Interval
        /\ waited + left <= 5 * Interval + setBack

(***************************************************************************)
(* The limiter keeps what the models built on it rely on: no notification  *)
(* is lost or invented, and none is owed for ever.                         *)
(***************************************************************************)
Promise == INSTANCE Coalescer WITH owed <- unprocessed, batch <- emitted
CoalescerSpec == Promise!Spec
=============================================================================
