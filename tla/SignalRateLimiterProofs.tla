----------------------- MODULE SignalRateLimiterProofs -----------------------
(***************************************************************************)
(* For every interval, event loop lateness and clock setting: the types,   *)
(* the bound on how long a name can be pending, and the bound on how often *)
(* batches go out.  All three come from TypeOK /\ TimerInv, which is       *)
(* inductive.                                                              *)
(***************************************************************************)
EXTENDS SignalRateLimiter, TLAPS

IInv == TypeOK /\ TimerInv

\* Handing on the pending names re-establishes the invariant from anywhere.
LEMMA ProcessInv ==
    ASSUME TypeOK, NEW pending \in SUBSET Name, Process(pending)
    PROVE  IInv'
  <1>1. TypeOK'
    BY DEF TypeOK, Process
  <1>2. unprocessed' = {} /\ timer' = "stopped"
    BY DEF Process
  <1>3. TimerInv'
    BY <1>2 DEF TimerInv
  <1>4. QED
    BY <1>1, <1>3 DEF IInv

\* A notification keeps the invariant, whichever slot receives it.
LEMMA ReceiveInv ==
    ASSUME IInv, NEW n \in Name, Receive(n)
    PROVE  IInv'
  <1>1. CASE Overdue(AgeOnReceipt)
    <2>1. Process(unprocessed \union {n})
      BY <1>1 DEF Receive
    <2>2. unprocessed \union {n} \in SUBSET Name
      BY DEF IInv, TypeOK
    <2>3. QED
      BY <2>1, <2>2, ProcessInv DEF IInv
  <1>2. CASE ~Overdue(AgeOnReceipt)
    <2>1. /\ unprocessed' = unprocessed \union {n}
          /\ wallAge' = AgeOnReceipt
          /\ timer' = "active"
          /\ left' = Interval
          /\ emitted' = {}
      BY <1>2 DEF Receive
    <2>2. AgeOnReceipt <= 4 * Interval /\ AgeOnReceipt \in Int
      BY <1>2, LimiterAssumption DEF Overdue, AgeOnReceipt, IInv, TypeOK
    <2>3. CASE unprocessed = {}
      <3>1. waited' = 0 /\ setBack' = 0 /\ setAhead' = 0
        BY <1>2, <2>3 DEF Receive
      <3>2. AgeOnReceipt = 0
        BY <2>3 DEF AgeOnReceipt
      <3>3. QED
        BY <2>1, <3>1, <3>2, LimiterAssumption DEF IInv, TypeOK, TimerInv
    <2>4. CASE unprocessed # {}
      <3>1. UNCHANGED <<waited, setBack, setAhead>>
        BY <1>2, <2>4 DEF Receive, history
      <3>2. AgeOnReceipt = waited + setAhead - setBack
        BY <2>4 DEF AgeOnReceipt, IInv, TimerInv
      <3>3. waited <= 4 * Interval + setBack
        BY <2>2, <3>2, LimiterAssumption DEF IInv, TypeOK
      <3>4. QED
        BY <2>1, <3>1, <3>2, <3>3, LimiterAssumption
        DEF IInv, TypeOK, TimerInv
    <2>5. QED
      BY <2>3, <2>4
  <1>3. QED
    BY <1>1, <1>2

\* The invariant holds initially and every step keeps it.
LEMMA InitInv == Init => IInv
  BY LimiterAssumption DEF Init, IInv, TypeOK, TimerInv

LEMMA NextInv == IInv /\ [Next]_vars => IInv'
  <1> SUFFICES ASSUME IInv, [Next]_vars PROVE IInv'
    OBVIOUS
  <1>1. ASSUME NEW n \in Name, OnPrinterModified(n) \/ OnPrinterStateChanged(n)
        PROVE  IInv'
    BY <1>1, ReceiveInv DEF OnPrinterModified, OnPrinterStateChanged
  <1>2. CASE Timeout
    BY <1>2, ProcessInv DEF Timeout, IInv, TypeOK
  <1>3. CASE Tick
    BY <1>3, LimiterAssumption DEF Tick, IInv, TypeOK, TimerInv
  <1>4. ASSUME NEW d \in Adjustments, SetClock(d)
        PROVE  IInv'
    <2>1. d \in Int
      BY LimiterAssumption
    <2>2. CASE d < 0 /\ setBack' = setBack - d /\ UNCHANGED setAhead
      BY <1>4, <2>1, <2>2, LimiterAssumption
      DEF SetClock, IInv, TypeOK, TimerInv
    <2>3. CASE d > 0 /\ setAhead' = setAhead + d /\ UNCHANGED setBack
      BY <1>4, <2>1, <2>3, LimiterAssumption
      DEF SetClock, IInv, TypeOK, TimerInv
    <2>4. QED
      BY <1>4, <2>2, <2>3 DEF SetClock
  <1>5. CASE UNCHANGED vars
    BY <1>5 DEF vars, IInv, TypeOK, TimerInv
  <1>6. QED
    BY <1>1, <1>2, <1>3, <1>4, <1>5 DEF Next

\* SignalRateLimiter::process and the two slots: the timer runs exactly while
\* names are pending, whatever is notified and however the clock is set.
THEOREM LimiterInvariant == Spec => [](TypeOK /\ TimerInv)
  <1>1. IInv <=> TypeOK /\ TimerInv
    BY DEF IInv
  <1>2. QED
    BY <1>1, InitInv, NextInv, PTL DEF Spec

\* The "four times longer than the timer" test of onPrinterModified bounds how
\* long a stream of notifications can hold a name back.
THEOREM LimiterBound == Spec => []PendingBound
  <1>1. TypeOK /\ TimerInv => PendingBound
    BY LimiterAssumption DEF TypeOK, TimerInv, PendingBound
  <1>2. QED
    BY <1>1, LimiterInvariant, PTL

\* No batch goes out within an interval of its first name, unless the wall
\* clock was set ahead.
THEOREM LimiterRate == Spec => RateLimited
  <1>1. TypeOK /\ TimerInv /\ [Next]_vars
        => [emitted' # {} => waited + setAhead >= Interval]_vars
    <2> SUFFICES ASSUME TypeOK, TimerInv, [Next]_vars, emitted' # {},
                        ~ UNCHANGED vars
                 PROVE  waited + setAhead >= Interval
      OBVIOUS
    <2>1. ASSUME NEW n \in Name, Receive(n)
          PROVE  waited + setAhead >= Interval
      <3>1. Overdue(AgeOnReceipt)
        BY <2>1 DEF Receive
      <3>2. unprocessed # {} /\ wallAge > 4 * Interval
        BY <3>1, LimiterAssumption DEF Overdue, AgeOnReceipt, TypeOK
      <3>3. QED
        BY <3>2, LimiterAssumption DEF TypeOK, TimerInv
    <2>2. CASE Timeout
      BY <2>2, LimiterAssumption DEF Timeout, TypeOK, TimerInv
    <2>3. CASE Tick
      BY <2>3 DEF Tick
    <2>4. ASSUME NEW d \in Adjustments, SetClock(d)
          PROVE  FALSE
      BY <2>4 DEF SetClock
    <2>5. QED
      BY <2>1, <2>2, <2>3, <2>4
      DEF Next, OnPrinterModified, OnPrinterStateChanged
  <1>2. QED
    BY <1>1, LimiterInvariant, PTL DEF Spec, RateLimited

\* What the models built on the limiter take from it: every step of it is one
\* of Coalescer or none, so process() hands on just what the slots were given.
\* That nothing is owed for ever needs fairness and is model-checked.
THEOREM LimiterCoalesces ==
    Spec => Promise!Init /\ [][Promise!Next]_<<unprocessed, emitted>>
  <1>1. Init => Promise!Init
    BY DEF Init, Promise!Init
  <1>2. TypeOK /\ TimerInv /\ [Next]_vars
        => [Promise!Next]_<<unprocessed, emitted>>
    <2> SUFFICES ASSUME TypeOK, TimerInv, [Next]_vars
                 PROVE  [Promise!Next]_<<unprocessed, emitted>>
      OBVIOUS
    <2>1. ASSUME NEW n \in Name, Receive(n)
          PROVE  Promise!Next
      <3>1. CASE Overdue(AgeOnReceipt)
        <4>1. Promise!KeepAndHandOn(n, emitted')
          BY <2>1, <3>1 DEF Receive, Process, Promise!KeepAndHandOn
        <4>2. QED
          BY <4>1 DEF Promise!Next
      <3>2. CASE ~Overdue(AgeOnReceipt)
        <4>1. Promise!Keep(n) /\ emitted' = {}
          BY <2>1, <3>2 DEF Receive, Promise!Keep
        <4>2. QED
          BY <4>1 DEF Promise!Next
      <3>3. QED
        BY <3>1, <3>2
    <2>2. CASE Timeout
      <3>1. Promise!HandOn(emitted')
        BY <2>2 DEF Timeout, Process, TimerInv, Promise!HandOn
      <3>2. QED
        BY <3>1 DEF Promise!Next
    <2>3. CASE Tick \/ \E d \in Adjustments : SetClock(d)
      BY <2>3 DEF Tick, SetClock, Promise!Next
    <2>4. CASE UNCHANGED vars
      BY <2>4 DEF vars
    <2>5. QED
      BY <2>1, <2>2, <2>3, <2>4
      DEF Next, OnPrinterModified, OnPrinterStateChanged
  <1>3. QED
    BY <1>1, <1>2, LimiterInvariant, PTL DEF Spec
=============================================================================
