---------------------------- MODULE JobSyncProofs ----------------------------
(***************************************************************************)
(* For any number of jobs, printers, subscriptions and changes: the types, *)
(* and one load for each active request.  With no subscription but the     *)
(* own, each job has one row, which finds its printer and is never loaded  *)
(* without one.  With any subscriptions a job has as many rows at most, is *)
(* listed while it is open, and shows the state CUPS has, once the signals *)
(* of it have come: what each subscription still has to say of a job is    *)
(* counted against its rows.                                               *)
(***************************************************************************)
EXTENDS JobSync, FiniteSetTheorems, SequenceTheorems, TLAPS

-----------------------------------------------------------------------------
(* What the helpers do. *)

\* Of some of the numbers up to n one is the least: 1..k is then contained in
\* all the others.
LEMMA LeastOf ==
    ASSUME NEW n \in Nat, NEW I \in SUBSET (1..n), I # {}
    PROVE  Min(I) \in I /\ \A k \in I : Min(I) <= k
  <1> DEFINE P == SUBSET (1..n)
             R == StrictSubsetOrdering(1..n)
             T == {1..k : k \in I}
  <1>1. IsWellFoundedOn(R, P)
    <2>1. IsFiniteSet(1..n)
      BY FS_Interval
    <2>2. FiniteSubsetsOf(1..n) = P
      BY <2>1, FS_FiniteSubsetsOfFinite
    <2>3. QED
      BY <2>2, FS_StrictSubsetOrderingWellFounded
  <1>2. T \subseteq P /\ T # {}
    <2>1. \A k \in I : 1..k \subseteq 1..n
      OBVIOUS
    <2>2. QED
      BY <2>1
  <1>3. PICK x \in T : \A y \in T : <<y, x>> \notin R
    <2> HIDE DEF T, P, R
    <2> QED
      BY <1>1, <1>2, WFMin
  <1>4. PICK k \in I : x = 1..k
    BY <1>3
  <1>5. \A m \in I : k =< m
    <2>1. SUFFICES ASSUME NEW m \in I, m < k
                   PROVE  FALSE
      OBVIOUS
    <2>2. 1..m \subseteq 1..k /\ 1..m # 1..k
      BY <2>1
    <2>3. 1..m \in T /\ 1..m \in P /\ 1..k \in P
      BY <1>2
    <2>4. <<1..m, 1..k>> \in R
      BY <2>2, <2>3 DEF StrictSubsetOrdering
    <2>5. QED
      BY <1>3, <1>4, <2>3, <2>4
  <1>6. QED
    BY <1>5 DEF Min

\* getJob finds a row of the job, if there is one.
LEMMA FirstIsOne ==
    ASSUME NEW S, NEW seq \in Seq(S), NEW j,
           NEW i \in DOMAIN seq, seq[i].job = j
    PROVE  FirstOf(seq, j) \in DOMAIN seq /\ seq[FirstOf(seq, j)].job = j
  <1> DEFINE I == {k \in 1..Len(seq) : seq[k].job = j}
  <1>1. /\ I \subseteq 1..Len(seq) /\ i \in I
        /\ DOMAIN seq = 1..Len(seq) /\ Len(seq) \in Nat
    OBVIOUS
  <1>2. Min(I) \in I
    BY <1>1, LeastOf
  <1>3. FirstOf(seq, j) = Min(I)
    BY <1>1 DEF FirstOf, SelectInSeq
  <1>4. QED
    BY <1>1, <1>2, <1>3

\* Where each job has one row, that row is the one it finds.
LEMMA FirstIsOnly ==
    ASSUME NEW S, NEW seq \in Seq(S), NEW i \in DOMAIN seq,
           \A k, m \in DOMAIN seq : seq[k].job = seq[m].job => k = m
    PROVE  FirstOf(seq, seq[i].job) = i
  BY FirstIsOne

\* Removing a row leaves a sequence of the other rows, in their order.
LEMMA RemoveAtProps ==
    ASSUME NEW S, NEW seq \in Seq(S), NEW k \in 1..Len(seq)
    PROVE  /\ RemoveAt(seq, k) \in Seq(S)
           /\ Len(RemoveAt(seq, k)) = Len(seq) - 1
           /\ \A i \in 1..(Len(seq) - 1) :
                RemoveAt(seq, k)[i] = IF i < k THEN seq[i] ELSE seq[i + 1]
  <1> DEFINE before == SubSeq(seq, 1, k - 1)
             after == SubSeq(seq, k + 1, Len(seq))
  <1>1. /\ before \in Seq(S)
        /\ Len(before) = k - 1
        /\ \A i \in 1..(k - 1) : before[i] = seq[i]
    OBVIOUS
  <1>2. /\ after \in Seq(S)
        /\ Len(after) = Len(seq) - k
        /\ \A i \in 1..(Len(seq) - k) : after[i] = seq[k + i]
    OBVIOUS
  <1>3. RemoveAt(seq, k) = before \o after
    BY DEF RemoveAt
  <1> HIDE DEF before, after
  <1>4. /\ before \o after \in Seq(S)
        /\ Len(before \o after) = Len(seq) - 1
    BY <1>1, <1>2
  <1>5. ASSUME NEW i \in 1..(Len(seq) - 1)
        PROVE  (before \o after)[i] = IF i < k THEN seq[i] ELSE seq[i + 1]
    <2>1. (before \o after)[i] =
            IF i <= k - 1 THEN before[i] ELSE after[i - (k - 1)]
      BY <1>1, <1>2
    <2>2. CASE i < k
      BY <1>1, <2>1, <2>2
    <2>3. CASE ~(i < k)
      <3>1. i - (k - 1) \in 1..(Len(seq) - k) /\ k + (i - (k - 1)) = i + 1
        BY <2>3
      <3>2. after[i - (k - 1)] = seq[i + 1]
        BY <1>2, <3>1
      <3>3. QED
        BY <2>1, <2>3, <3>2
    <2>4. QED
      BY <2>2, <2>3
  <1>6. QED
    BY <1>3, <1>4, <1>5

\* requestJobExtendedAttributes starts at most one load for a job.
LEMMA RequestKeeps ==
    ASSUME active \subseteq Jobs, loads \subseteq Load, OneLoad,
           NEW S \in SUBSET Jobs, Request(S)
    PROVE  /\ active' \subseteq Jobs
           /\ loads' \subseteq Load
           /\ OneLoad'
           /\ \A l \in loads' : l \in loads \/ l.job \in S
  <1> DEFINE new(j) == [job |-> j, stage |-> "started", report |-> Unread,
                        overtaken |-> FALSE]
  <1>1. /\ active' = active \union S
        /\ loads' = loads \union {new(j) : j \in S \ active}
    BY DEF Request
  <1>2. \A j \in Jobs : new(j) \in Load /\ new(j).job = j
    BY DEF Load, Unread, Report, State
  <1> HIDE DEF new
  <1>3. loads' \subseteq Load
    BY <1>1, <1>2
  <1>4. \A l \in loads' : l \in loads \/ (l.job \in S \ active /\ l = new(l.job))
    BY <1>1, <1>2
  <1>5. OneLoad'
    <2>1. \A j \in active' : \E l \in loads' : l.job = j
      BY <1>1, <1>2 DEF OneLoad
    <2>2. \A l \in loads' : l.job \in active'
      BY <1>1, <1>4 DEF OneLoad
    <2>3. \A l, m \in loads' : l.job = m.job => l = m
      BY <1>4 DEF OneLoad
    <2>4. QED
      BY <2>1, <2>2, <2>3 DEF OneLoad
  <1>6. QED
    BY <1>1, <1>3, <1>4, <1>5

\* jobAdded keeps the rows and what they report; some that had no printer may
\* have one now.
LEMMA JobsAddedKeeps ==
    ASSUME NEW seq \in Seq(Row), NEW S \in SUBSET Jobs, NEW listed,
           JobsAdded(seq, S, listed)
    PROVE  /\ rows' \in Seq(Row)
           /\ DOMAIN rows' = DOMAIN seq
           /\ \A i \in DOMAIN seq :
                /\ rows'[i].job = seq[i].job
                /\ seq[i].printer # "null" => rows'[i].printer # "null"
                /\ seq[i].job \in S /\ PrinterOf[seq[i].job] \in listed
                     /\ i = FirstOf(seq, seq[i].job)
                     => rows'[i].printer = "listed"
           /\ Request({j \in S : PrinterOf[j] \in listed})
  <1> DEFINE added == {j \in S : PrinterOf[j] \in listed}
             row(i) == IF seq[i].job \in added /\ i = FirstOf(seq, seq[i].job)
                       THEN [seq[i] EXCEPT !.printer = "listed"] ELSE seq[i]
  <1>1. rows' = [i \in DOMAIN seq |-> row(i)] /\ Request(added)
    BY DEF JobsAdded
  <1>2. DOMAIN seq = 1..Len(seq) /\ Len(seq) \in Nat
        /\ \A i \in DOMAIN seq : seq[i] \in Row
    OBVIOUS
  <1>3. \A i \in DOMAIN seq :
          /\ row(i) \in Row
          /\ row(i).job = seq[i].job
          /\ seq[i].printer # "null" => row(i).printer # "null"
          /\ seq[i].job \in added /\ i = FirstOf(seq, seq[i].job)
               => row(i).printer = "listed"
    BY <1>2 DEF Row
  <1> HIDE DEF row
  <1>4. rows' \in Seq(Row)
    BY <1>1, <1>2, <1>3
  <1>5. QED
    BY <1>1, <1>3, <1>4

-----------------------------------------------------------------------------
(* The types, and one load for each active request. *)

Typed == TypeOK /\ OneLoad

\* The fields but server and bus.
LoadsTyped == active \subseteq Jobs /\ loads \subseteq Load /\ OneLoad
Sets == /\ pending \subseteq Printer /\ printers \subseteq Printer
        /\ stale \subseteq Jobs /\ missed \subseteq Jobs

\* Types are of a set of jobs that stays the same.
NextLoadsTyped == active' \subseteq Jobs /\ loads' \subseteq Load /\ OneLoad'
NextSets == /\ pending' \subseteq Printer /\ printers' \subseteq Printer
            /\ stale' \subseteq Jobs /\ missed' \subseteq Jobs

LEMMA SameJobs ==
    ASSUME Jobs' = Jobs
    PROVE  JobSignal' = JobSignal /\ Load' = Load /\ Row' = Row
  BY DEF JobSignal, Load, Row

\* What a step that CUPS has no part in must do to keep the types.
LEMMA TypedParts ==
    Typed => /\ LoadsTyped /\ Sets /\ rows \in Seq(Row) /\ phase \in Phase
             /\ Jobs \subseteq Job /\ Subscriptions \subseteq Subscription
  <1>1. Typed => Jobs \subseteq Job /\ Subscriptions \subseteq Subscription
    BY JobAssumption DEF Typed, TypeOK, Jobs, Subscriptions
  <1>2. QED
    BY <1>1 DEF Typed, TypeOK, LoadsTyped, Sets

LEMMA PartsTyped ==
    ASSUME Typed, UNCHANGED server,
           NextLoadsTyped, NextSets, rows' \in Seq(Row), phase' \in Phase,
           \/ UNCHANGED bus
           \/ \E s \in Subscriptions :
                bus[s] # <<>> /\ bus' = [bus EXCEPT ![s] = Tail(@)]
    PROVE  Typed'
  <1>1. Jobs' = Jobs
    BY DEF Jobs
  <1>2. JobSignal' = JobSignal /\ Load' = Load /\ Row' = Row
    BY <1>1, SameJobs
  <1>3. PICK w \in Worlds :
          /\ server \in [w.jobs -> [report : Report, changes : Nat]]
          /\ bus \in [w.subscriptions -> Seq(JobSignal \union PrinterSignal)]
    BY DEF Typed, TypeOK
  <1>4. bus' \in [w.subscriptions -> Seq(JobSignal \union PrinterSignal)]
    <2> DEFINE S == JobSignal \union PrinterSignal
    <2>1. ASSUME NEW s \in Subscriptions, bus[s] # <<>>
          PROVE  bus[s] \in Seq(S) /\ Tail(bus[s]) \in Seq(S)
      <3>1. bus[s] \in Seq(S)
        BY <1>3 DEF Subscriptions
      <3> HIDE DEF S
      <3>2. QED
        BY <2>1, <3>1
    <2> HIDE DEF S
    <2>2. bus \in [w.subscriptions -> Seq(S)]
      BY <1>3 DEF S
    <2>3. bus' \in [w.subscriptions -> Seq(S)]
      BY <2>1, <2>2
    <2>4. QED
      BY <2>3 DEF S
  <1>5. QED
    BY <1>1, <1>2, <1>3, <1>4 DEF Typed, TypeOK, NextLoadsTyped, NextSets

\* What CUPS does, and what is signalled of it.
LEMMA ServerTypes ==
    ASSUME Typed, NEW j \in Jobs, Server(j)
    PROVE  Typed'
  <1>1. PICK w \in Worlds :
          /\ server \in [w.jobs -> [report : Report, changes : Nat]]
          /\ bus \in [w.subscriptions -> Seq(JobSignal \union PrinterSignal)]
    BY DEF Typed, TypeOK
  <1>2. Jobs = w.jobs /\ Subscriptions = w.subscriptions
    BY <1>1 DEF Jobs, Subscriptions
  <1>3. ASSUME NEW signal \in JobSignal \union PrinterSignal, Announce(signal)
        PROVE  bus' \in [w.subscriptions -> Seq(JobSignal \union PrinterSignal)]
    <2> DEFINE S == JobSignal \union PrinterSignal
    <2>1. \A s \in w.subscriptions : Append(bus[s], signal) \in Seq(S)
      <3> HIDE DEF S
      <3>1. \A s \in w.subscriptions : bus[s] \in Seq(S)
        BY <1>1 DEF S
      <3>2. signal \in S
        BY <1>3 DEF S
      <3>3. QED
        BY <3>1, <3>2
    <2>2. QED
      BY <1>1, <1>2, <1>3, <2>1 DEF Announce
  <1>4. ASSUME NEW report \in Report, Change(j, report)
        PROVE  /\ server' \in [w.jobs -> [report : Report, changes : Nat]]
               /\ missed' \subseteq Jobs
    <2>1. server[j] \in [report : Report, changes : Nat]
      BY <1>1, <1>2
    <2>2. [report |-> report, changes |-> server[j].changes + 1]
            \in [report : Report, changes : Nat]
      BY <2>1
    <2>3. server' \in [w.jobs -> [report : Report, changes : Nat]]
      BY <1>1, <1>2, <1>4, <2>2 DEF Change
    <2>4. missed' \subseteq Jobs
      BY <1>4 DEF Change, Typed, TypeOK
    <2>5. QED
      BY <2>3, <2>4
  <1>5. ASSUME server' \in [w.jobs -> [report : Report, changes : Nat]],
               bus' \in [w.subscriptions -> Seq(JobSignal \union PrinterSignal)],
               missed' \subseteq Jobs,
               UNCHANGED <<phase, pending, printers, active, loads, rows, stale>>
        PROVE  Typed'
    <2>1. Jobs' = Jobs
      BY <1>2, <1>5 DEF Jobs
    <2>2. QED
      BY <1>5, <2>1, SameJobs DEF Typed, TypeOK, OneLoad
  <1>6. server[j].report.pages \in Nat
    BY <1>1, <1>2 DEF Report
  <1>7. ASSUME NEW kind \in {"Created", "State", "Completed"},
               NEW to \in Open \union {"done"}, ChangeState(j, kind, to)
        PROVE  Typed'
    <2> DEFINE report == [state |-> to, pages |-> server[j].report.pages]
               signal == [kind |-> kind, job |-> j, report |-> report]
    <2>1. Change(j, report) /\ Announce(signal)
          /\ UNCHANGED <<phase, pending, printers, active, loads, rows, stale>>
      BY <1>7 DEF ChangeState
    <2>2. report \in Report /\ report \in Said
      BY <1>6 DEF Report, Said, State
    <2>3. signal \in JobSignal
      BY <2>2 DEF JobSignal
    <2> HIDE DEF report, signal
    <2>4. QED
      BY <1>3, <1>4, <1>5, <2>1, <2>2, <2>3
  <1>8. CASE ServerPrintsPage(j)
    <2>1. [server[j].report EXCEPT !.pages = @ + 1] \in Report
      BY <1>1, <1>2 DEF Report
    <2>2. [kind |-> "PrinterState", printer |-> PrinterOf[j]] \in PrinterSignal
      BY TypedParts, JobAssumption DEF PrinterSignal
    <2>3. QED
      BY <1>3, <1>4, <1>5, <1>8, <2>1, <2>2 DEF ServerPrintsPage
  <1>9. QED
    BY <1>7, <1>8 DEF Server, ServerCreates, ServerMoves, ServerCompletes, Open

\* A load that is taken further is still the one of its job.
LEMMA LoadMoves ==
    ASSUME LoadsTyped, NEW l \in loads, NEW k \in Load, k.job = l.job,
           loads' = (loads \ {l}) \union {k}, UNCHANGED active
    PROVE  NextLoadsTyped
  <1>1. OneLoad'
    BY DEF LoadsTyped, OneLoad
  <1>2. QED
    BY <1>1 DEF LoadsTyped, NextLoadsTyped

\* A loaded row is a row still, of the same job and printer.
LEMMA LoadedRow ==
    ASSUME NEW row \in Row, NEW report \in Report
    PROVE  /\ LoadAttributes(row, report) \in Row
           /\ LoadAttributes(row, report).job = row.job
           /\ LoadAttributes(row, report).printer = row.printer
  <1>1. [state |-> IF report.state = "unknown" THEN row.report.state
                                               ELSE report.state,
         pages |-> report.pages] \in Said
    BY DEF Row, Report, Said, State
  <1>2. QED
    BY <1>1 DEF LoadAttributes, Row

LEMMA RowOfJob ==
    ASSUME Typed, NEW j, HasRow(j)
    PROVE  /\ FirstOf(rows, j) \in DOMAIN rows
           /\ RowOf(j) \in Row /\ RowOf(j).job = j
  <1>1. rows \in Seq(Row)
    BY TypedParts
  <1>2. PICK i \in DOMAIN rows : rows[i].job = j
    BY DEF HasRow
  <1>3. FirstOf(rows, j) \in DOMAIN rows /\ rows[FirstOf(rows, j)].job = j
    BY <1>1, <1>2, FirstIsOne
  <1>4. QED
    BY <1>1, <1>3 DEF RowOf

\* Rows keep their jobs and, if they have one, a printer.
KeepsRows ==
    /\ rows' \in Seq(Row)
    /\ DOMAIN rows' = DOMAIN rows
    /\ \A i \in DOMAIN rows :
         /\ rows'[i].job = rows[i].job
         /\ rows[i].printer # "null" => rows'[i].printer # "null"

LEMMA RowReplaced ==
    ASSUME Typed, NEW j, HasRow(j), NEW row \in Row, row.job = j,
           row.printer = RowOf(j).printer,
           rows' = [rows EXCEPT ![FirstOf(rows, j)] = row]
    PROVE  KeepsRows
  <1> DEFINE k == FirstOf(rows, j)
  <1>1. /\ rows \in Seq(Row) /\ k \in DOMAIN rows
        /\ rows[k].job = j /\ rows[k] = RowOf(j)
    BY TypedParts, RowOfJob DEF RowOf
  <1> HIDE DEF k
  <1>2. rows' = [rows EXCEPT ![k] = row]
    BY DEF k
  <1>3. DOMAIN rows = 1..Len(rows)
    BY <1>1
  <1>4. rows' \in Seq(Row)
    <2>1. k \in 1..Len(rows)
      BY <1>1, <1>3
    <2>2. [rows EXCEPT ![k] = row] \in Seq(Row)
      BY <1>1, <2>1, ExceptSeq, Zenon
    <2>3. QED
      BY <1>2, <2>2
  <1>5. /\ DOMAIN rows' = DOMAIN rows
        /\ \A i \in DOMAIN rows : rows'[i] = IF i = k THEN row ELSE rows[i]
    BY <1>2, Zenon
  <1>6. QED
    BY <1>1, <1>4, <1>5 DEF KeepsRows

LEMMA LoadTypes ==
    ASSUME Typed, NEW l \in loads, LoadStep(l)
    PROVE  Typed' /\ KeepsRows
  <1>1. /\ l \in Load /\ LoadsTyped /\ Sets /\ rows \in Seq(Row)
        /\ phase \in Phase
    BY TypedParts DEF LoadsTyped
  <1>2. CASE LoaderReads(l)
    <2>1. PICK report \in {server[l.job].report, Unread} :
            loads' = (loads \ {l}) \union
               {[l EXCEPT !.stage = "queued", !.report = report]}
      BY <1>2 DEF LoaderReads
    <2>2. report \in Report
      <3>1. Unread \in Report
        BY DEF Unread, Report, State
      <3>2. server[l.job].report \in Report
        BY <1>1 DEF Typed, TypeOK, Jobs, Load
      <3>3. QED
        BY <3>1, <3>2
    <2> DEFINE k == [l EXCEPT !.stage = "queued", !.report = report]
    <2>3. k \in Load /\ k.job = l.job
      BY <1>1, <2>2 DEF Load
    <2>4. loads' = (loads \ {l}) \union {k}
      BY <2>1
    <2> HIDE DEF k
    <2>5. NextLoadsTyped
      BY <1>1, <1>2, <2>3, <2>4, LoadMoves DEF LoaderReads
    <2>6. Typed'
      BY <1>1, <1>2, <2>5, PartsTyped DEF LoaderReads, Sets, NextSets
    <2>7. QED
      BY <1>1, <1>2, <2>6 DEF LoaderReads, KeepsRows
  <1>3. CASE UpdateJob(l)
    <2> DEFINE k == [l EXCEPT !.stage = "delivered"]
    <2>1. k \in Load /\ k.job = l.job
      BY <1>1 DEF Load
    <2>2. loads' = (loads \ {l}) \union {k} /\ UNCHANGED active
      BY <1>3 DEF UpdateJob
    <2> HIDE DEF k
    <2>3. NextLoadsTyped
      BY <1>1, <2>1, <2>2, LoadMoves
    <2>4. l.job \in Jobs /\ l.report \in Report
      BY <1>1 DEF Load
    <2>5. phase' \in Phase /\ stale' \subseteq Jobs
      BY <1>1, <1>3, <2>4 DEF UpdateJob, Phase, Sets
    <2>6. KeepsRows
      <3>1. CASE UNCHANGED rows
        BY <1>1, <3>1 DEF KeepsRows
      <3>2. CASE HasRow(l.job) /\ rows' = [rows EXCEPT ![FirstOf(rows, l.job)] =
                                              LoadAttributes(@, l.report)]
        <4> DEFINE row == LoadAttributes(RowOf(l.job), l.report)
        <4>1. RowOf(l.job) \in Row /\ RowOf(l.job).job = l.job
          BY <3>2, RowOfJob
        <4>2. row \in Row /\ row.job = l.job /\ row.printer = RowOf(l.job).printer
          BY <2>4, <4>1, LoadedRow
        <4>3. rows' = [rows EXCEPT ![FirstOf(rows, l.job)] = row]
          BY <3>2 DEF RowOf
        <4> HIDE DEF row
        <4>4. QED
          BY <3>2, <4>2, <4>3, RowReplaced
      <3>3. QED
        BY <1>3, <3>1, <3>2 DEF UpdateJob
    <2>7. Typed'
      BY <1>1, <1>3, <2>3, <2>5, <2>6, PartsTyped
      DEF UpdateJob, Sets, NextSets, KeepsRows
    <2>8. QED
      BY <2>6, <2>7
  <1>4. CASE OnJobLoaded(l)
    <2>1. loads' = loads \ {l} /\ active' = active \ {l.job}
      BY <1>4 DEF OnJobLoaded
    <2>2. NextLoadsTyped
      BY <1>1, <2>1 DEF LoadsTyped, NextLoadsTyped, OneLoad
    <2>3. Typed'
      BY <1>1, <1>4, <2>2, PartsTyped DEF OnJobLoaded, Sets, NextSets
    <2>4. QED
      BY <1>1, <1>4, <2>3 DEF OnJobLoaded, KeepsRows
  <1>5. QED
    BY <1>2, <1>3, <1>4 DEF LoadStep

\* What a signal that is delivered next can be.
LEMMA SignalTypes ==
    ASSUME Typed, NEW s \in Subscriptions, NEW signal, Delivered(s, signal)
    PROVE  /\ signal.kind # "PrinterState" => signal \in JobSignal
           /\ UNCHANGED <<phase, server, printers, missed>>
           /\ bus[s] # <<>> /\ bus' = [bus EXCEPT ![s] = Tail(@)]
           /\ signal = Head(bus[s])
  <1> DEFINE S == JobSignal \union PrinterSignal
  <1>1. bus[s] \in Seq(S)
    BY DEF Typed, TypeOK, Subscriptions
  <1>2. bus[s] # <<>> /\ signal = Head(bus[s])
    BY DEF Delivered
  <1> HIDE DEF S
  <1>3. signal \in S
    BY <1>1, <1>2
  <1>4. signal.kind # "PrinterState" => signal \in JobSignal
    BY <1>3 DEF S, PrinterSignal
  <1>5. QED
    BY <1>2, <1>4 DEF Delivered

\* JobsAdded on the rows there are.
LEMMA JobsAddedTypes ==
    ASSUME Typed, NEW S \in SUBSET Jobs, NEW listed, JobsAdded(rows, S, listed)
    PROVE  NextLoadsTyped /\ KeepsRows
  <1>1. KeepsRows /\ Request({j \in S : PrinterOf[j] \in listed})
    <2>1. rows \in Seq(Row)
      BY TypedParts
    <2>2. QED
      BY <2>1, JobsAddedKeeps DEF KeepsRows
  <1>2. NextLoadsTyped
    <2> DEFINE T == {j \in S : PrinterOf[j] \in listed}
    <2>1. T \in SUBSET Jobs /\ LoadsTyped
      BY TypedParts
    <2> HIDE DEF T
    <2>2. Request(T)
      BY <1>1 DEF T
    <2>3. QED
      BY <2>1, <2>2, RequestKeeps DEF LoadsTyped, NextLoadsTyped
  <1>3. QED
    BY <1>1, <1>2

LEMMA RowsOfJobs ==
    ASSUME Typed
    PROVE  \A i \in DOMAIN rows : rows[i].job \in Jobs
  <1>1. rows \in Seq(Row)
    BY TypedParts
  <1>2. \A i \in DOMAIN rows : rows[i] \in Row
    BY <1>1
  <1>3. QED
    BY <1>2 DEF Row

\* A batch of the limiter has jobs of some rows loaded.
LEMMA RefreshTypes ==
    ASSUME Typed, NEW b, ForceJobRefresh(b)
    PROVE  NextLoadsTyped /\ KeepsRows
  <1> DEFINE S == {rows[i].job : i \in {k \in DOMAIN rows :
                      /\ PrinterOf[rows[k].job] \in b
                      /\ rows[k].report.state \in {"pending", "processing"}}}
  <1>1. S \in SUBSET Jobs
    BY RowsOfJobs
  <1>2. JobsAdded(rows, S, printers)
    BY DEF ForceJobRefresh
  <1> HIDE DEF S
  <1>3. QED
    BY <1>1, <1>2, JobsAddedTypes

\* A job that is signalled as created gets a row at the end.
AddsRow(j) ==
    LET n == Len(rows) + 1 IN
    /\ rows' \in Seq(Row)
    /\ DOMAIN rows' = 1..n
    /\ \A i \in DOMAIN rows :
         /\ rows'[i].job = rows[i].job
         /\ rows[i].printer # "null" => rows'[i].printer # "null"
    /\ rows'[n].job = j
    /\ ~HasRow(j) /\ PrinterOf[j] \in printers => rows'[n].printer = "listed"

LEMMA CreatedTypes ==
    ASSUME Typed, NEW s \in Subscriptions, NEW signal, JobCreated(s, signal)
    PROVE  /\ Typed' /\ AddsRow(signal.job) /\ UNCHANGED printers
           /\ \A l \in loads' : \/ l \in loads
                               \/ /\ l.job = signal.job
                                  /\ PrinterOf[l.job] \in printers
  <1> DEFINE row == NewRow(signal.job, signal.report)
             seq == Append(rows, row)
             n == Len(rows) + 1
             j == signal.job
  <1>1. Delivered(s, signal) /\ signal \in JobSignal
    BY SignalTypes DEF JobCreated
  <1>2. j \in Jobs /\ row \in Row /\ row.job = j
    BY <1>1 DEF JobSignal, NewRow, Row
  <1>3. rows \in Seq(Row) /\ LoadsTyped /\ Sets /\ phase \in Phase
    BY TypedParts
  <1>4. JobsAdded(seq, {j}, printers) /\ UNCHANGED <<pending, stale>>
    BY DEF JobCreated
  <1> HIDE DEF row, j
  <1>5. /\ seq \in Seq(Row) /\ DOMAIN seq = 1..n
        /\ DOMAIN rows = 1..Len(rows) /\ Len(rows) \in Nat
        /\ \A i \in DOMAIN rows : seq[i] = rows[i]
        /\ seq[n] = row
    BY <1>2, <1>3
  <1> HIDE DEF seq
  <1>6. /\ rows' \in Seq(Row)
        /\ DOMAIN rows' = DOMAIN seq
        /\ \A i \in DOMAIN seq :
             /\ rows'[i].job = seq[i].job
             /\ seq[i].printer # "null" => rows'[i].printer # "null"
             /\ seq[i].job \in {j} /\ PrinterOf[seq[i].job] \in printers
                  /\ i = FirstOf(seq, seq[i].job)
                  => rows'[i].printer = "listed"
        /\ Request({k \in {j} : PrinterOf[k] \in printers})
    <2>1. {j} \in SUBSET Jobs
      BY <1>2
    <2>2. QED
      BY <1>4, <1>5, <2>1, JobsAddedKeeps
  <1>7. /\ NextLoadsTyped
        /\ \A l \in loads' : l \in loads \/ (l.job = j /\ PrinterOf[j] \in printers)
    <2> DEFINE T == {k \in {j} : PrinterOf[k] \in printers}
    <2>1. T \in SUBSET Jobs /\ \A k \in T : k = j /\ PrinterOf[j] \in printers
      BY <1>2
    <2>2. Request(T)
      BY <1>6
    <2> HIDE DEF T
    <2>3. QED
      BY <1>3, <2>1, <2>2, RequestKeeps DEF LoadsTyped, NextLoadsTyped
  <1>8. Typed'
    BY <1>1, <1>3, <1>4, <1>6, <1>7, SignalTypes, PartsTyped DEF Sets, NextSets
  <1>9. ~HasRow(j) => FirstOf(seq, j) = n
    <2>1. SUFFICES ASSUME ~HasRow(j) PROVE FirstOf(seq, j) = n
      OBVIOUS
    <2>2. n \in DOMAIN seq /\ seq[n].job = j
      BY <1>2, <1>5
    <2>3. FirstOf(seq, j) \in DOMAIN seq /\ seq[FirstOf(seq, j)].job = j
      BY <1>5, <2>2, FirstIsOne
    <2>4. \A i \in DOMAIN seq : seq[i].job = j => i = n
      BY <1>5, <2>1 DEF HasRow
    <2>5. QED
      BY <2>3, <2>4
  <1>10. AddsRow(j)
    BY <1>2, <1>5, <1>6, <1>9 DEF AddsRow
  <1>11. QED
    BY <1>1, <1>7, <1>8, <1>10, SignalTypes DEF j

LEMMA StateTypes ==
    ASSUME Typed, NEW s \in Subscriptions, NEW signal, JobState(s, signal)
    PROVE  Typed' /\ KeepsRows /\ UNCHANGED printers
           /\ \A m \in loads' : \E l \in loads : m.job = l.job
  <1> DEFINE j == signal.job
             told(l) == IF l.job = j /\ l.stage = "queued"
                        THEN [l EXCEPT !.overtaken = TRUE] ELSE l
  <1>1. Delivered(s, signal) /\ signal \in JobSignal
    BY SignalTypes DEF JobState
  <1>2. signal.report \in Said
    BY <1>1 DEF JobSignal
  <1>3. rows \in Seq(Row) /\ LoadsTyped /\ Sets /\ phase \in Phase
    BY TypedParts
  <1>4. loads' = {told(l) : l \in loads} /\ UNCHANGED <<active, pending>>
    BY DEF JobState
  <1>5. \A l \in loads : told(l) \in Load /\ told(l).job = l.job
    BY <1>3 DEF LoadsTyped, Load
  <1> HIDE DEF told
  <1>6. NextLoadsTyped
    <2>1. OneLoad'
      BY <1>3, <1>4, <1>5 DEF LoadsTyped, OneLoad
    <2>2. QED
      BY <1>3, <1>4, <1>5, <2>1 DEF LoadsTyped, NextLoadsTyped
  <1>7. KeepsRows
    <2>1. CASE UNCHANGED rows
      BY <1>3, <2>1 DEF KeepsRows
    <2>2. CASE HasRow(j) /\ rows' = [rows EXCEPT ![FirstOf(rows, j)].report =
                                                     signal.report]
      <3> DEFINE row == [RowOf(j) EXCEPT !.report = signal.report]
      <3>1. RowOf(j) \in Row /\ RowOf(j).job = j
        BY <2>2, RowOfJob
      <3>2. row \in Row /\ row.job = j /\ row.printer = RowOf(j).printer
        BY <1>2, <3>1 DEF Row
      <3>3. rows' = [rows EXCEPT ![FirstOf(rows, j)] = row]
        BY <2>2 DEF RowOf
      <3> HIDE DEF row
      <3>4. QED
        BY <2>2, <3>2, <3>3, RowReplaced
    <2>3. QED
      BY <2>1, <2>2 DEF JobState
  <1>8. stale' \subseteq Jobs
    BY <1>3 DEF JobState, Sets
  <1>9. Typed'
    BY <1>1, <1>3, <1>4, <1>6, <1>7, <1>8, SignalTypes, PartsTyped
    DEF Sets, NextSets, KeepsRows
  <1>10. QED
    BY <1>1, <1>4, <1>5, <1>7, <1>9, SignalTypes

\* A job that is done with loses its row, and the others stay.
RemovesRow(j) ==
    /\ HasRow(j)
    /\ rows' = RemoveAt(rows, FirstOf(rows, j))

LEMMA CompletedTypes ==
    ASSUME Typed, NEW s \in Subscriptions, NEW signal, JobCompleted(s, signal)
    PROVE  Typed' /\ (KeepsRows \/ RemovesRow(signal.job))
           /\ UNCHANGED <<printers, loads>>
  <1>1. Delivered(s, signal) /\ UNCHANGED <<pending, active, loads, stale>>
    BY DEF JobCompleted
  <1>2. rows \in Seq(Row) /\ LoadsTyped /\ Sets /\ phase \in Phase
    BY TypedParts
  <1>3. rows' \in Seq(Row) /\ (KeepsRows \/ RemovesRow(signal.job))
    <2>1. CASE UNCHANGED rows
      BY <1>2, <2>1 DEF KeepsRows
    <2>2. CASE RemovesRow(signal.job)
      <3>1. FirstOf(rows, signal.job) \in 1..Len(rows)
        BY <1>2, <2>2, RowOfJob DEF RemovesRow
      <3>2. QED
        BY <1>2, <2>2, <3>1, RemoveAtProps DEF RemovesRow
    <2>3. QED
      BY <2>1, <2>2 DEF JobCompleted, RemovesRow
  <1>4. NextLoadsTyped
    BY <1>1, <1>2 DEF LoadsTyped, NextLoadsTyped, OneLoad
  <1>5. Typed'
    BY <1>1, <1>2, <1>3, <1>4, SignalTypes, PartsTyped DEF Sets, NextSets
  <1>6. QED
    BY <1>1, <1>3, <1>5, SignalTypes

LEMMA LimiterTypes ==
    ASSUME Typed, LimiterEmits \/ (\E s \in Subscriptions : \E signal :
                                     PrinterSignalled(s, signal))
    PROVE  Typed' /\ KeepsRows /\ UNCHANGED printers
  <1>1. rows \in Seq(Row) /\ LoadsTyped /\ Sets /\ phase \in Phase
    BY TypedParts
  <1>2. CASE LimiterEmits
    <2>1. PICK b \in SUBSET Printer : Limiter!HandOn(b) /\ ForceJobRefresh(b)
      BY <1>2 DEF LimiterEmits
    <2>2. NextLoadsTyped /\ KeepsRows
      BY <2>1, RefreshTypes
    <2>3. pending' = {}
      BY <2>1 DEF Limiter!HandOn
    <2>4. UNCHANGED <<phase, server, bus, printers, stale, missed>>
      BY <1>2 DEF LimiterEmits
    <2>5. Typed'
      BY <1>1, <2>2, <2>3, <2>4, PartsTyped DEF Sets, NextSets, KeepsRows
    <2>6. QED
      BY <2>2, <2>4, <2>5
  <1>3. ASSUME NEW s \in Subscriptions, NEW signal, PrinterSignalled(s, signal)
        PROVE  Typed' /\ KeepsRows /\ UNCHANGED printers
    <2>1. Delivered(s, signal) /\ signal.kind = "PrinterState" /\ UNCHANGED stale
      BY <1>3 DEF PrinterSignalled
    <2>2. signal.printer \in Printer
      <3> DEFINE S == JobSignal \union PrinterSignal
      <3>1. bus[s] \in Seq(S)
        BY DEF Typed, TypeOK, Subscriptions
      <3>2. bus[s] # <<>> /\ signal = Head(bus[s])
        BY <2>1 DEF Delivered
      <3> HIDE DEF S
      <3>3. signal \in S
        BY <3>1, <3>2
      <3>4. QED
        BY <2>1, <3>3 DEF S, JobSignal, PrinterSignal
    <2>3. pending' \subseteq Printer
      BY <1>1, <1>3, <2>2 DEF PrinterSignalled, Limiter!Keep,
                              Limiter!KeepAndHandOn, Sets
    <2>4. NextLoadsTyped /\ KeepsRows
      <3>1. CASE UNCHANGED <<active, loads, rows>>
        BY <1>1, <3>1 DEF LoadsTyped, NextLoadsTyped, OneLoad, KeepsRows
      <3>2. CASE \E b \in SUBSET Printer : ForceJobRefresh(b)
        BY <3>2, RefreshTypes
      <3>3. QED
        BY <1>3, <3>1, <3>2 DEF PrinterSignalled
    <2>5. Typed'
      BY <1>1, <2>1, <2>3, <2>4, SignalTypes, PartsTyped
      DEF Sets, NextSets, KeepsRows
    <2>6. QED
      BY <2>1, <2>4, <2>5, SignalTypes
  <1>4. QED
    BY <1>2, <1>3

LEMMA PrinterListedTypes ==
    ASSUME Typed, NEW p \in Printer, PrinterListed(p)
    PROVE  Typed' /\ KeepsRows
  <1> DEFINE S == {rows[i].job : i \in {k \in DOMAIN rows :
                     /\ PrinterOf[rows[k].job] = p
                     /\ RowOf(rows[k].job).printer = "null"}}
  <1>1. S \in SUBSET Jobs
    BY RowsOfJobs
  <1>2. JobsAdded(rows, S, {p}) /\ printers' = printers \union {p}
        /\ UNCHANGED <<phase, server, bus, pending, stale, missed>>
    BY DEF PrinterListed
  <1> HIDE DEF S
  <1>3. NextLoadsTyped /\ KeepsRows
    BY <1>1, <1>2, JobsAddedTypes
  <1>4. Sets /\ phase \in Phase
    BY TypedParts
  <1>5. Typed'
    BY <1>2, <1>3, <1>4, PartsTyped DEF Sets, NextSets, KeepsRows
  <1>6. QED
    BY <1>3, <1>5

LEMMA PrinterUnlistedTypes ==
    ASSUME Typed, NEW p \in Printer, PrinterUnlisted(p)
    PROVE  Typed' /\ KeepsRows
  <1> DEFINE row(i) == IF PrinterOf[rows[i].job] = p /\ rows[i].printer = "listed"
                       THEN [rows[i] EXCEPT !.printer = "gone"] ELSE rows[i]
  <1>1. rows \in Seq(Row) /\ LoadsTyped /\ Sets /\ phase \in Phase
    BY TypedParts
  <1>2. /\ rows' = [i \in DOMAIN rows |-> row(i)]
        /\ printers' = printers \ {p}
        /\ UNCHANGED <<phase, server, bus, pending, active, loads, stale, missed>>
    BY DEF PrinterUnlisted
  <1>3. DOMAIN rows = 1..Len(rows) /\ Len(rows) \in Nat
        /\ \A i \in DOMAIN rows : rows[i] \in Row
    BY <1>1
  <1>4. \A i \in DOMAIN rows : /\ row(i) \in Row /\ row(i).job = rows[i].job
                               /\ rows[i].printer # "null" => row(i).printer # "null"
    BY <1>3 DEF Row
  <1> HIDE DEF row
  <1>5. KeepsRows
    <2>1. rows' \in Seq(Row)
      BY <1>2, <1>3, <1>4
    <2>2. QED
      BY <1>2, <1>4, <2>1 DEF KeepsRows
  <1>6. NextLoadsTyped
    BY <1>1, <1>2 DEF LoadsTyped, NextLoadsTyped, OneLoad
  <1>7. Typed'
    BY <1>1, <1>2, <1>5, <1>6, PartsTyped DEF Sets, NextSets, KeepsRows
  <1>8. QED
    BY <1>5, <1>7

LEMMA ListJobsTypes ==
    ASSUME Typed, ListJobs
    PROVE  /\ Typed'
           /\ \A i \in DOMAIN rows' : StateOf(rows'[i].job) \in Open
           /\ \A i, k \in DOMAIN rows' : rows'[i].job = rows'[k].job => i = k
  <1> DEFINE open == {j \in Jobs : StateOf(j) \in Open}
             row(order, i) ==
               NewRow(order[i], [state |-> StateOf(order[i]), pages |-> 0])
  <1>1. PICK order \in SetToSeqs(open) :
          rows' = [i \in DOMAIN order |-> row(order, i)]
    BY DEF ListJobs
  <1>2. Cardinality(open) \in Nat
    <2>1. IsFiniteSet(Jobs)
      BY JobAssumption DEF Typed, TypeOK, Jobs
    <2>2. QED
      BY <2>1, FS_Subset, FS_CardinalityType
  <1>3. /\ order \in [1..Cardinality(open) -> open]
        /\ \A i, k \in 1..Cardinality(open) : i # k => order[i] # order[k]
    BY <1>1 DEF SetToSeqs
  <1>4. \A i \in DOMAIN order :
          /\ order[i] \in Jobs /\ StateOf(order[i]) \in Open
          /\ row(order, i) \in Row /\ row(order, i).job = order[i]
    BY <1>3 DEF NewRow, Row, Said
  <1> HIDE DEF row
  <1>5. DOMAIN order = 1..Cardinality(open)
    BY <1>3
  <1> HIDE DEF open
  <1>6. rows' \in Seq(Row)
    BY <1>1, <1>2, <1>4, <1>5
  <1>7. /\ DOMAIN rows' = DOMAIN order
        /\ \A i \in DOMAIN order : rows'[i].job = order[i]
    BY <1>1, <1>4
  <1>8. LoadsTyped /\ Sets
    BY TypedParts
  <1>9. /\ phase' = "listed" /\ printers' \in SUBSET Printer
        /\ UNCHANGED <<server, bus, pending, active, loads, stale, missed>>
    BY DEF ListJobs
  <1>10. NextLoadsTyped
    BY <1>8, <1>9 DEF LoadsTyped, NextLoadsTyped, OneLoad
  <1>11. Typed'
    BY <1>6, <1>8, <1>9, <1>10, PartsTyped DEF Sets, NextSets, Phase
  <1>12. QED
    BY <1>3, <1>4, <1>5, <1>7, <1>11

LEMMA SubscribeTypes ==
    ASSUME Typed, Subscribe
    PROVE  Typed' /\ KeepsRows
  <1> DEFINE S == {rows[i].job : i \in DOMAIN rows}
  <1>1. S \in SUBSET Jobs
    BY RowsOfJobs
  <1>2. /\ JobsAdded(rows, S, printers) /\ phase' \in {"running", "deaf"}
        /\ UNCHANGED <<server, bus, pending, printers, stale, missed>>
    BY DEF Subscribe
  <1> HIDE DEF S
  <1>3. NextLoadsTyped /\ KeepsRows
    BY <1>1, <1>2, JobsAddedTypes
  <1>4. Sets
    BY TypedParts
  <1>5. Typed'
    BY <1>2, <1>3, <1>4, PartsTyped DEF Sets, NextSets, KeepsRows, Phase
  <1>6. QED
    BY <1>3, <1>5

LEMMA DeliverTypes ==
    ASSUME Typed, NEW s \in Subscriptions, Deliver(s)
    PROVE  Typed'
  <1> DEFINE signal == Head(bus[s])
  <1>1. JobCreated(s, signal) \/ JobState(s, signal) \/ JobCompleted(s, signal)
          \/ PrinterSignalled(s, signal)
    BY DEF Deliver
  <1> HIDE DEF signal
  <1>2. QED
    BY <1>1, CreatedTypes, StateTypes, CompletedTypes, LimiterTypes

LEMMA TypedStep ==
    ASSUME Typed, [Next]_vars
    PROVE  Typed'
  <1>1. CASE UNCHANGED vars
    <2>1. Sets' /\ rows' \in Seq(Row) /\ LoadsTyped' /\ UNCHANGED <<server, bus>>
      BY <1>1, TypedParts DEF vars, Sets, LoadsTyped, OneLoad, Load, Row, Jobs
    <2>2. QED
      BY <1>1 DEF vars, Typed, TypeOK, OneLoad, Load, Row, JobSignal, Jobs
  <1>2. CASE ListJobs \/ Subscribe
    BY <1>2, ListJobsTypes, SubscribeTypes
  <1>3. CASE \E j \in Jobs : Server(j)
    BY <1>3, ServerTypes
  <1>4. CASE \E l \in loads : LoadStep(l)
    BY <1>4, LoadTypes
  <1>5. CASE \E s \in Subscriptions : Deliver(s)
    BY <1>5, DeliverTypes
  <1>6. CASE LimiterEmits
    BY <1>6, LimiterTypes
  <1>7. CASE \E p \in Printer : PrinterListed(p) \/ PrinterUnlisted(p)
    BY <1>7, PrinterListedTypes, PrinterUnlistedTypes
  <1>8. QED
    BY <1>1, <1>2, <1>3, <1>4, <1>5, <1>6, <1>7 DEF Next

LEMMA TypedInit == Init => Typed
  <1>1. SUFFICES ASSUME Init PROVE Typed
    OBVIOUS
  <1>2. PICK w \in Worlds :
          /\ server = [j \in w.jobs |-> [report |-> Unread, changes |-> 0]]
          /\ bus = [s \in w.subscriptions |-> <<>>]
    BY <1>1 DEF Init
  <1>3. Unread \in Report
    BY DEF Unread, Report, State
  <1>4. server \in [w.jobs -> [report : Report, changes : Nat]]
    BY <1>2, <1>3
  <1>5. bus \in [w.subscriptions -> Seq(JobSignal \union PrinterSignal)]
    BY <1>2
  <1>6. QED
    BY <1>1, <1>4, <1>5 DEF Init, Typed, TypeOK, OneLoad, Phase

LEMMA TypedInvariant == Spec => []Typed
  <1>1. Typed /\ [Next]_vars => Typed'
    BY TypedStep
  <1>2. QED
    BY <1>1, TypedInit, PTL DEF Spec

\* JobModel, the signals of every subscription and the loads always are of
\* their types, whichever signals come in which order.
THEOREM JobTypes == Spec => []TypeOK
  <1>1. Typed => TypeOK
    BY DEF Typed
  <1>2. QED
    BY <1>1, TypedInvariant, PTL

\* m_activeJobRequests, jobmodel.cpp and backend_cups.cpp: for any jobs,
\* printers, subscriptions and changes there is one load at work, or result
\* of one on its way, for each active request, and none without a request.
THEOREM JobLoadsAreOne == Spec => []OneLoad
  <1>1. Typed => OneLoad
    BY DEF Typed
  <1>2. QED
    BY <1>1, TypedInvariant, PTL

-----------------------------------------------------------------------------
(* The own subscription alone. *)

Creation(j, i) == bus[Own][i].kind = "Created" /\ bus[Own][i].job = j

\* CUPS has not created the job yet, or has and the signal is on its way.
Unseen == {j \in Jobs : \/ StateOf(j) = "unknown"
                        \/ \E i \in DOMAIN bus[Own] : Creation(j, i)}

\* A job's creation is signalled once, and after it.
CreatedOnce ==
    /\ \A j \in Jobs : \A i, k \in DOMAIN bus[Own] :
         Creation(j, i) => StateOf(j) # "unknown" /\ (Creation(j, k) => i = k)
    /\ phase \in {"new", "listed"} => bus[Own] = <<>>

OneRow == \A i, k \in DOMAIN rows : rows[i].job = rows[k].job => i = k

\* Nothing is known of a job before its creation is signalled, or listed.
SeenOnly ==
    /\ \A i \in DOMAIN rows : rows[i].job \notin Unseen
    /\ \A l \in loads : l.job \notin Unseen

\* A job that is loaded has a printer, while it has a row.
LoadsFindPrinters ==
    \A l \in loads : \A i \in DOMAIN rows :
        rows[i].job = l.job => rows[i].printer # "null"

RowsInv ==
    /\ OneRow
    /\ SeenOnly
    /\ LoadsFindPrinters
    /\ JobsHavePrinters
    /\ phase = "new" => rows = <<>>
    /\ phase \in {"new", "listed"} => loads = {}
    /\ phase # "crashed"

AloneInv == Subscriptions = {Own} => CreatedOnce /\ RowsInv

\* What a step does to the signals: it leaves them, delivers one, or CUPS
\* sends one.
LEMMA BusStep ==
    ASSUME [Next]_vars
    PROVE  \/ /\ UNCHANGED <<server, bus>>
              /\ phase' \in {"new", "listed"} => phase \in {"new", "listed"}
           \/ \E s \in Subscriptions : \E signal : Delivered(s, signal)
           \/ \E j \in Jobs : Server(j)
  <1>1. CASE UNCHANGED vars
    BY <1>1 DEF vars
  <1>2. CASE ListJobs \/ Subscribe
    BY <1>2 DEF ListJobs, Subscribe
  <1>3. CASE \E l \in loads : LoadStep(l)
    BY <1>3 DEF LoadStep, LoaderReads, UpdateJob, OnJobLoaded
  <1>4. ASSUME NEW s \in Subscriptions, Deliver(s)
        PROVE  \E signal : Delivered(s, signal)
    BY <1>4 DEF Deliver, JobCreated, JobState, JobCompleted, PrinterSignalled
  <1>5. CASE LimiterEmits
    BY <1>5 DEF LimiterEmits
  <1>6. CASE \E p \in Printer : PrinterListed(p) \/ PrinterUnlisted(p)
    BY <1>6 DEF PrinterListed, PrinterUnlisted
  <1>7. QED
    BY <1>1, <1>2, <1>3, <1>4, <1>5, <1>6 DEF Next

\* Taking the first signal off, or putting one at the end.
LEMMA BusTail ==
    ASSUME Typed, Subscriptions = {Own}, NEW s \in Subscriptions, NEW signal,
           Delivered(s, signal)
    PROVE  /\ signal = bus[Own][1] /\ 1 \in DOMAIN bus[Own]
           /\ \A i \in DOMAIN bus'[Own] : /\ i + 1 \in DOMAIN bus[Own]
                                          /\ i + 1 # 1
                                          /\ bus'[Own][i] = bus[Own][i + 1]
           /\ Up /\ UNCHANGED <<phase, server>>
  <1> DEFINE S == JobSignal \union PrinterSignal
             q == bus[Own]
  <1>1. q \in Seq(S) /\ bus'[Own] = Tail(q)
    <2>1. bus \in [Subscriptions -> Seq(S)]
      BY DEF Typed, TypeOK, Subscriptions
    <2> HIDE DEF S
    <2>2. QED
      BY <2>1, SignalTypes
  <1>2. q # <<>> /\ signal = Head(q)
    BY SignalTypes
  <1> HIDE DEF S, q
  <1>3. /\ signal = q[1] /\ 1 \in DOMAIN q
        /\ \A i \in DOMAIN Tail(q) : /\ i + 1 \in DOMAIN q /\ i + 1 # 1
                                     /\ Tail(q)[i] = q[i + 1]
    BY <1>1, <1>2
  <1>4. QED
    BY <1>1, <1>3 DEF q, Delivered

LEMMA BusAppend ==
    ASSUME Typed, Subscriptions = {Own}, NEW signal, Announce(signal)
    PROVE  \/ bus'[Own] = bus[Own]
           \/ LET n == Len(bus[Own]) + 1 IN
              /\ phase = "running"
              /\ DOMAIN bus'[Own] = 1..n /\ DOMAIN bus[Own] = 1..(n - 1)
              /\ n \in Nat
              /\ \A i \in 1..(n - 1) : bus'[Own][i] = bus[Own][i]
              /\ bus'[Own][n] = signal
  <1> DEFINE S == JobSignal \union PrinterSignal
             q == bus[Own]
  <1>1. q \in Seq(S)
    BY DEF Typed, TypeOK, Subscriptions
  <1>2. bus'[Own] = IF phase = "running" THEN Append(q, signal) ELSE q
    BY DEF Announce
  <1> HIDE DEF S, q
  <1>3. QED
    BY <1>1, <1>2 DEF q

\* CUPS gives a job a state; a job whose creation is signalled had none.
LEMMA ServerSays ==
    ASSUME Typed, NEW j \in Jobs, Server(j)
    PROVE  \E signal :
             /\ Announce(signal) /\ UNCHANGED phase
             /\ StateOf(j)' # "unknown"
             /\ \A k \in Jobs \ {j} : StateOf(k)' = StateOf(k)
             /\ signal.kind = "Created" => StateOf(j) = "unknown" /\ signal.job = j
  <1>1. server \in [Jobs -> [report : Report, changes : Nat]]
    BY DEF Typed, TypeOK, Jobs
  <1>2. ASSUME NEW report, Change(j, report)
        PROVE  /\ StateOf(j)' = report.state
               /\ \A k \in Jobs \ {j} : StateOf(k)' = StateOf(k)
    BY <1>1, <1>2 DEF Change, StateOf
  <1>3. ASSUME NEW kind \in {"Created", "State", "Completed"},
               NEW to \in Open \union {"done"}, ChangeState(j, kind, to),
               kind = "Created" => StateOf(j) = "unknown"
        PROVE  \E signal :
                 /\ Announce(signal) /\ UNCHANGED phase
                 /\ StateOf(j)' # "unknown"
                 /\ \A k \in Jobs \ {j} : StateOf(k)' = StateOf(k)
                 /\ signal.kind = "Created" => StateOf(j) = "unknown" /\ signal.job = j
    <2> DEFINE report == [state |-> to, pages |-> server[j].report.pages]
               signal == [kind |-> kind, job |-> j, report |-> report]
    <2>1. Change(j, report) /\ Announce(signal) /\ UNCHANGED phase
      BY <1>3 DEF ChangeState
    <2>2. report.state = to /\ to # "unknown"
      BY DEF Open
    <2>3. signal.kind = kind /\ signal.job = j
      OBVIOUS
    <2> HIDE DEF report, signal
    <2>4. QED
      BY <1>2, <1>3, <2>1, <2>2, <2>3
  <1>4. CASE ServerCreates(j)
    BY <1>3, <1>4 DEF ServerCreates, Open
  <1>5. CASE ServerMoves(j) \/ ServerCompletes(j)
    BY <1>3, <1>5 DEF ServerMoves, ServerCompletes, Open
  <1>6. CASE ServerPrintsPage(j)
    <2> DEFINE report == [server[j].report EXCEPT !.pages = @ + 1]
               signal == [kind |-> "PrinterState", printer |-> PrinterOf[j]]
    <2>1. Change(j, report) /\ Announce(signal) /\ UNCHANGED phase
          /\ StateOf(j) = "processing"
      BY <1>6 DEF ServerPrintsPage
    <2>2. report.state = StateOf(j)
      BY <1>1 DEF Report, StateOf
    <2>3. signal.kind # "Created"
      OBVIOUS
    <2> HIDE DEF report, signal
    <2>4. QED
      BY <1>2, <2>1, <2>2, <2>3
  <1>7. QED
    BY <1>4, <1>5, <1>6 DEF Server

LEMMA SignalsStep ==
    ASSUME Typed, Subscriptions = {Own}, CreatedOnce, [Next]_vars
    PROVE  /\ CreatedOnce'
           /\ Unseen' \subseteq Unseen
           /\ Jobs' = Jobs /\ Subscriptions' = Subscriptions
  <1>0. Jobs' = Jobs /\ Subscriptions' = Subscriptions
    <2>1. CASE UNCHANGED <<server, bus>>
      BY <2>1 DEF Jobs, Subscriptions
    <2>2. CASE \E s \in Subscriptions : \E signal : Delivered(s, signal)
      BY <2>2 DEF Delivered, Jobs, Subscriptions
    <2>3. CASE \E j \in Jobs : Server(j)
      BY <2>3 DEF Server, ServerCreates, ServerMoves, ServerCompletes,
                  ServerPrintsPage, ChangeState, Change, Announce, Jobs,
                  Subscriptions
    <2>4. QED
      BY <2>1, <2>2, <2>3, BusStep
  <1>1. CASE /\ UNCHANGED <<server, bus>>
             /\ phase' \in {"new", "listed"} => phase \in {"new", "listed"}
    BY <1>0, <1>1 DEF CreatedOnce, Unseen, Creation, StateOf
  <1>2. ASSUME NEW s \in Subscriptions, NEW signal, Delivered(s, signal)
        PROVE  CreatedOnce' /\ Unseen' \subseteq Unseen
    <2>1. /\ \A i \in DOMAIN bus'[Own] : /\ i + 1 \in DOMAIN bus[Own]
                                         /\ bus'[Own][i] = bus[Own][i + 1]
          /\ Up /\ UNCHANGED <<phase, server>>
      BY <1>2, BusTail
    <2>2. \A j, i : i \in DOMAIN bus'[Own] /\ Creation(j, i)'
            => i + 1 \in DOMAIN bus[Own] /\ Creation(j, i + 1)
      BY <2>1 DEF Creation
    <2>3. DOMAIN bus'[Own] \subseteq Int
      <3>1. bus'[Own] \in Seq(JobSignal' \union PrinterSignal')
        BY <1>0, TypedStep DEF Typed, TypeOK, Subscriptions
      <3>2. QED
        BY <3>1
    <2>4. CreatedOnce'
      BY <1>0, <2>1, <2>2, <2>3 DEF CreatedOnce, StateOf, Up
    <2>5. QED
      BY <1>0, <2>1, <2>2, <2>4 DEF Unseen, StateOf
  <1>3. ASSUME NEW j \in Jobs, Server(j)
        PROVE  CreatedOnce' /\ Unseen' \subseteq Unseen
    <2>1. PICK signal :
            /\ Announce(signal) /\ UNCHANGED phase
            /\ StateOf(j)' # "unknown"
            /\ \A k \in Jobs \ {j} : StateOf(k)' = StateOf(k)
            /\ signal.kind = "Created" => StateOf(j) = "unknown" /\ signal.job = j
      BY <1>3, ServerSays
    <2>2. CASE bus'[Own] = bus[Own]
      BY <1>0, <2>1, <2>2 DEF CreatedOnce, Unseen, Creation
    <2>3. CASE bus'[Own] # bus[Own]
      <3> DEFINE n == Len(bus[Own]) + 1
      <3>1. /\ phase = "running"
            /\ DOMAIN bus'[Own] = 1..n /\ DOMAIN bus[Own] = 1..(n - 1)
            /\ n \in Nat
            /\ \A i \in 1..(n - 1) : bus'[Own][i] = bus[Own][i]
            /\ bus'[Own][n] = signal
        BY <2>1, <2>3, BusAppend
      <3> HIDE DEF n
      <3>2. \A k : \A i \in DOMAIN bus'[Own] :
              Creation(k, i)' => \/ i \in DOMAIN bus[Own] /\ Creation(k, i)
                                 \/ i = n /\ k = j /\ StateOf(j) = "unknown"
        BY <2>1, <3>1 DEF Creation
      <3>3. CreatedOnce'
        BY <1>0, <2>1, <3>1, <3>2 DEF CreatedOnce
      <3>4. QED
        BY <1>0, <2>1, <3>2, <3>3 DEF Unseen
    <2>4. QED
      BY <2>2, <2>3
  <1>4. QED
    BY <1>0, <1>1, <1>2, <1>3, BusStep

\* A job with a row, of which each finds a printer after the step.
Served(j) ==
    /\ \E i \in DOMAIN rows : rows[i].job = j
    /\ \A i \in DOMAIN rows : rows[i].job = j => rows'[i].printer # "null"

\* What is loaded after a step was loaded before, or is of such a job.
LoadsServed ==
    \A l \in loads' : (\E m \in loads : m.job = l.job) \/ Served(l.job)

\* A job there is a row of finds a printer by jobAdded.
LEMMA AddedServed ==
    ASSUME Typed, OneRow, NEW S, S \subseteq {rows[i].job : i \in DOMAIN rows},
           NEW listed, JobsAdded(rows, S, listed)
    PROVE  /\ LoadsServed
           /\ \A i \in DOMAIN rows :
                rows[i].job \in S /\ PrinterOf[rows[i].job] \in listed
                  => rows'[i].printer # "null"
  <1>1. S \in SUBSET Jobs
    BY RowsOfJobs
  <1>2. rows \in Seq(Row) /\ LoadsTyped
    BY TypedParts
  <1>3. \A i \in DOMAIN rows : FirstOf(rows, rows[i].job) = i
    BY <1>2, FirstIsOnly DEF OneRow
  <1>4. /\ \A i \in DOMAIN rows :
             rows[i].job \in S /\ PrinterOf[rows[i].job] \in listed
               => rows'[i].printer # "null"
        /\ Request({j \in S : PrinterOf[j] \in listed})
    BY <1>1, <1>2, <1>3, JobsAddedKeeps
  <1> DEFINE T == {j \in S : PrinterOf[j] \in listed}
  <1>5. \A j \in T : Served(j)
    BY <1>4 DEF Served
  <1>6. T \in SUBSET Jobs /\ Request(T)
    BY <1>1, <1>4
  <1> HIDE DEF T
  <1>7. \A l \in loads' : l \in loads \/ l.job \in T
    BY <1>2, <1>6, RequestKeeps DEF LoadsTyped
  <1>8. LoadsServed
    BY <1>5, <1>7 DEF LoadsServed
  <1>9. QED
    BY <1>4, <1>8

\* Steps that keep the rows keep what is said of rows and loads.
LEMMA RowsKept ==
    ASSUME Typed, OneRow, SeenOnly, LoadsFindPrinters, Unseen' \subseteq Unseen,
           KeepsRows, LoadsServed
    PROVE  OneRow' /\ SeenOnly' /\ LoadsFindPrinters'
  <1>1. OneRow'
    BY DEF OneRow, KeepsRows
  <1>2. \A l \in loads' : \/ \E m \in loads : m.job = l.job
                          \/ Served(l.job)
    BY DEF LoadsServed
  <1>3. SeenOnly'
    <2>1. \A i \in DOMAIN rows' : rows'[i].job \notin Unseen'
      BY DEF SeenOnly, KeepsRows
    <2>2. ASSUME NEW l \in loads' PROVE l.job \notin Unseen'
      BY <1>2 DEF SeenOnly, Served
    <2>3. QED
      BY <2>1, <2>2 DEF SeenOnly
  <1>4. LoadsFindPrinters'
    <2>1. ASSUME NEW l \in loads', NEW i \in DOMAIN rows', rows'[i].job = l.job
          PROVE  rows'[i].printer # "null"
      <3>1. i \in DOMAIN rows /\ rows[i].job = l.job
        BY <2>1 DEF KeepsRows
      <3>2. CASE \E m \in loads : m.job = l.job
        BY <3>1, <3>2 DEF LoadsFindPrinters, KeepsRows
      <3>3. CASE Served(l.job)
        BY <3>1, <3>3 DEF Served
      <3>4. QED
        BY <1>2, <3>2, <3>3
    <2>2. QED
      BY <2>1 DEF LoadsFindPrinters
  <1>5. QED
    BY <1>1, <1>3, <1>4

\* Rows that keep their printers keep JobsHavePrinters where no printer is
\* listed that was not.
LEMMA PrintersKept ==
    ASSUME JobsHavePrinters, KeepsRows, printers' \subseteq printers,
           phase' \in {"running", "deaf"} => phase' = phase
    PROVE  JobsHavePrinters'
  BY DEF JobsHavePrinters, KeepsRows

LEMMA LoadKeepsAlone ==
    ASSUME Typed, RowsInv, Unseen' \subseteq Unseen,
           NEW l \in loads, LoadStep(l)
    PROVE  RowsInv'
  <1>1. KeepsRows
    BY LoadTypes
  <1>2. \A m \in loads' : \E k \in loads : k.job = m.job
    <2>1. l \in Load
      BY TypedParts DEF LoadsTyped
    <2>2. CASE LoaderReads(l)
      <3>1. PICK report : loads' = (loads \ {l}) \union
                 {[l EXCEPT !.stage = "queued", !.report = report]}
        BY <2>2 DEF LoaderReads
      <3>2. [l EXCEPT !.stage = "queued", !.report = report].job = l.job
        BY <2>1 DEF Load
      <3>3. QED
        BY <3>1, <3>2
    <2>3. CASE UpdateJob(l)
      <3>1. loads' = (loads \ {l}) \union {[l EXCEPT !.stage = "delivered"]}
        BY <2>3 DEF UpdateJob
      <3>2. [l EXCEPT !.stage = "delivered"].job = l.job
        BY <2>1 DEF Load
      <3>3. QED
        BY <3>1, <3>2
    <2>4. CASE OnJobLoaded(l)
      BY <2>4 DEF OnJobLoaded
    <2>5. QED
      BY <2>2, <2>3, <2>4 DEF LoadStep
  <1>3. LoadsServed
    BY <1>2 DEF LoadsServed
  <1>4. UNCHANGED <<phase, printers>>
    <2>1. CASE UpdateJob(l)
      <3>1. HasRow(l.job) => RowOf(l.job).printer # "null"
        <4>1. SUFFICES ASSUME HasRow(l.job)
                       PROVE  RowOf(l.job).printer # "null"
          OBVIOUS
        <4>2. FirstOf(rows, l.job) \in DOMAIN rows /\ RowOf(l.job).job = l.job
          BY <4>1, RowOfJob
        <4>3. QED
          BY <4>2 DEF RowsInv, LoadsFindPrinters, RowOf
      <3>2. QED
        BY <2>1, <3>1 DEF UpdateJob
    <2>2. CASE LoaderReads(l) \/ OnJobLoaded(l)
      BY <2>2 DEF LoaderReads, OnJobLoaded
    <2>3. QED
      BY <2>1, <2>2 DEF LoadStep
  <1>5. OneRow' /\ SeenOnly' /\ LoadsFindPrinters' /\ JobsHavePrinters'
    BY <1>1, <1>3, <1>4, RowsKept, PrintersKept DEF RowsInv
  <1>6. phase \notin {"new", "listed"}
    BY DEF RowsInv
  <1>7. QED
    BY <1>4, <1>5, <1>6 DEF RowsInv

\* A step that lists no printer, on rows that stay, and one at start-up that
\* starts no load.
LEMMA StepKeepsAlone ==
    ASSUME Typed, RowsInv, Unseen' \subseteq Unseen, KeepsRows, LoadsServed,
           UNCHANGED phase, printers' \subseteq printers,
           Up \/ UNCHANGED <<rows, loads>>
    PROVE  RowsInv'
  <1>1. OneRow' /\ SeenOnly' /\ LoadsFindPrinters' /\ JobsHavePrinters'
    BY RowsKept, PrintersKept DEF RowsInv
  <1>2. QED
    BY <1>1 DEF RowsInv, Up

LEMMA ServerKeepsAlone ==
    ASSUME Typed, RowsInv, Unseen' \subseteq Unseen, NEW j \in Jobs, Server(j)
    PROVE  RowsInv'
  <1>1. UNCHANGED <<phase, printers, rows, loads>>
    BY DEF Server, ServerCreates, ServerMoves, ServerCompletes,
           ServerPrintsPage, ChangeState
  <1>2. KeepsRows /\ LoadsServed
    BY <1>1, TypedParts DEF KeepsRows, LoadsServed
  <1>3. QED
    BY <1>1, <1>2, StepKeepsAlone

LEMMA StateKeepsAlone ==
    ASSUME Typed, RowsInv, Unseen' \subseteq Unseen,
           NEW s \in Subscriptions, NEW signal, JobState(s, signal)
    PROVE  RowsInv'
  <1>1. /\ KeepsRows /\ UNCHANGED printers
        /\ \A m \in loads' : \E l \in loads : m.job = l.job
    BY StateTypes
  <1>2. LoadsServed
    BY <1>1 DEF LoadsServed
  <1>3. Up /\ UNCHANGED phase
    BY DEF JobState, Delivered
  <1>4. QED
    BY <1>1, <1>2, <1>3, StepKeepsAlone

LEMMA RefreshServed ==
    ASSUME Typed, OneRow, NEW b, ForceJobRefresh(b)
    PROVE  LoadsServed
  <1> DEFINE S == {rows[i].job : i \in {k \in DOMAIN rows :
                      /\ PrinterOf[rows[k].job] \in b
                      /\ rows[k].report.state \in {"pending", "processing"}}}
  <1>1. S \subseteq {rows[i].job : i \in DOMAIN rows}
    OBVIOUS
  <1>2. JobsAdded(rows, S, printers)
    BY DEF ForceJobRefresh
  <1> HIDE DEF S
  <1>3. QED
    BY <1>1, <1>2, AddedServed

LEMMA LimiterKeepsAlone ==
    ASSUME Typed, RowsInv, Unseen' \subseteq Unseen,
           LimiterEmits \/ (\E s \in Subscriptions : \E signal :
                              PrinterSignalled(s, signal))
    PROVE  RowsInv'
  <1>1. KeepsRows /\ UNCHANGED printers
    BY LimiterTypes
  <1>2. Up /\ UNCHANGED phase
    BY DEF LimiterEmits, PrinterSignalled, Delivered
  <1>3. UNCHANGED loads \/ \E b \in SUBSET Printer : ForceJobRefresh(b)
    BY DEF LimiterEmits, PrinterSignalled
  <1>4. LoadsServed
    <2>1. CASE UNCHANGED loads
      BY <2>1 DEF LoadsServed
    <2>2. CASE \E b \in SUBSET Printer : ForceJobRefresh(b)
      BY <2>2, RefreshServed DEF RowsInv
    <2>3. QED
      BY <1>3, <2>1, <2>2
  <1>5. QED
    BY <1>1, <1>2, <1>4, StepKeepsAlone

LEMMA PrinterUnlistedKeepsAlone ==
    ASSUME Typed, RowsInv, Unseen' \subseteq Unseen, NEW p, p \in Printer,
           PrinterUnlisted(p)
    PROVE  RowsInv'
  <1>1. KeepsRows
    BY PrinterUnlistedTypes
  <1>2. /\ Up /\ UNCHANGED <<phase, loads>> /\ printers' \subseteq printers
        /\ LoadsServed
    BY DEF PrinterUnlisted, LoadsServed
  <1>3. QED
    BY <1>1, <1>2, StepKeepsAlone

\* The jobs of the new row's printer get it: the one row of each is the one
\* that is asked whether it has one.
LEMMA PrinterListedKeepsAlone ==
    ASSUME Typed, RowsInv, Unseen' \subseteq Unseen, NEW p, p \in Printer,
           PrinterListed(p)
    PROVE  RowsInv'
  <1> DEFINE S == {rows[i].job : i \in {k \in DOMAIN rows :
                     /\ PrinterOf[rows[k].job] = p
                     /\ RowOf(rows[k].job).printer = "null"}}
  <1>1. /\ S \subseteq {rows[i].job : i \in DOMAIN rows}
        /\ \A i \in DOMAIN rows :
             /\ PrinterOf[rows[i].job] = p
             /\ RowOf(rows[i].job).printer = "null"
             => rows[i].job \in S
    OBVIOUS
  <1>2. /\ JobsAdded(rows, S, {p}) /\ printers' = printers \union {p}
        /\ Up /\ UNCHANGED phase
    BY DEF PrinterListed
  <1> HIDE DEF S
  <1>3. /\ LoadsServed
        /\ \A i \in DOMAIN rows :
             rows[i].job \in S /\ PrinterOf[rows[i].job] \in {p}
               => rows'[i].printer # "null"
    BY <1>1, <1>2, AddedServed DEF RowsInv
  <1>4. KeepsRows
    BY PrinterListedTypes
  <1>5. OneRow' /\ SeenOnly' /\ LoadsFindPrinters'
    BY <1>3, <1>4, RowsKept DEF RowsInv
  <1>6. \A i \in DOMAIN rows : RowOf(rows[i].job) = rows[i]
    <2>1. rows \in Seq(Row)
      BY TypedParts
    <2>2. QED
      BY <2>1, FirstIsOnly DEF RowsInv, OneRow, RowOf
  <1>7. JobsHavePrinters'
    <2>1. SUFFICES ASSUME NEW i \in DOMAIN rows',
                          PrinterOf[rows'[i].job] \in printers'
                   PROVE  rows'[i].printer # "null"
      BY DEF JobsHavePrinters
    <2>2. /\ i \in DOMAIN rows /\ PrinterOf[rows[i].job] \in printers \union {p}
          /\ rows[i].printer # "null" => rows'[i].printer # "null"
      BY <1>2, <1>4, <2>1 DEF KeepsRows
    <2>3. CASE PrinterOf[rows[i].job] = p
      BY <1>1, <1>3, <1>6, <2>2, <2>3
    <2>4. CASE PrinterOf[rows[i].job] \in printers
      BY <1>2, <2>2, <2>4 DEF RowsInv, JobsHavePrinters, Up
    <2>5. QED
      BY <2>2, <2>3, <2>4
  <1>8. QED
    BY <1>2, <1>5, <1>7 DEF RowsInv, Up

LEMMA SubscribeKeepsAlone ==
    ASSUME Typed, RowsInv, Unseen' \subseteq Unseen, Subscribe
    PROVE  RowsInv'
  <1> DEFINE S == {rows[i].job : i \in DOMAIN rows}
  <1>1. /\ JobsAdded(rows, S, printers) /\ phase' \in {"running", "deaf"}
        /\ UNCHANGED printers
    BY DEF Subscribe
  <1>2. S \subseteq {rows[i].job : i \in DOMAIN rows}
        /\ \A i \in DOMAIN rows : rows[i].job \in S
    OBVIOUS
  <1> HIDE DEF S
  <1>3. /\ LoadsServed
        /\ \A i \in DOMAIN rows :
             rows[i].job \in S /\ PrinterOf[rows[i].job] \in printers
               => rows'[i].printer # "null"
    BY <1>1, <1>2, AddedServed DEF RowsInv
  <1>4. KeepsRows
    BY SubscribeTypes
  <1>5. OneRow' /\ SeenOnly' /\ LoadsFindPrinters'
    BY <1>3, <1>4, RowsKept DEF RowsInv
  <1>6. JobsHavePrinters'
    BY <1>1, <1>2, <1>3, <1>4 DEF JobsHavePrinters, KeepsRows
  <1>7. QED
    BY <1>1, <1>5, <1>6 DEF RowsInv

\* The listing has each open job once, and a job with a state whose creation
\* nothing is going to signal is seen.
LEMMA ListJobsKeepsAlone ==
    ASSUME Typed, RowsInv, CreatedOnce, Subscriptions = {Own}, ListJobs
    PROVE  RowsInv'
  <1>1. /\ \A i \in DOMAIN rows' : StateOf(rows'[i].job) \in Open
        /\ \A i, k \in DOMAIN rows' : rows'[i].job = rows'[k].job => i = k
    BY ListJobsTypes
  <1>2. /\ phase = "new" /\ phase' = "listed" /\ loads = {}
        /\ UNCHANGED <<server, bus, loads>>
    BY DEF ListJobs, RowsInv
  <1>3. bus[Own] = <<>> /\ bus' = bus
    BY <1>2 DEF CreatedOnce
  <1>4. \A j \in Unseen' : StateOf(j) = "unknown"
    <2>1. DOMAIN bus'[Own] = {}
      BY <1>3
    <2>2. QED
      BY <1>2, <2>1 DEF Unseen, StateOf, Jobs
  <1>5. SeenOnly'
    BY <1>1, <1>2, <1>4 DEF SeenOnly, Open
  <1>6. QED
    BY <1>1, <1>2, <1>5 DEF RowsInv, OneRow, LoadsFindPrinters, JobsHavePrinters

\* The one signal of a creation is delivered to a list that has no row of the
\* job, when no load of it can be under way.
LEMMA CreatedKeepsAlone ==
    ASSUME Typed, RowsInv, CreatedOnce, Subscriptions = {Own},
           Unseen' \subseteq Unseen,
           NEW s \in Subscriptions, NEW signal, JobCreated(s, signal)
    PROVE  RowsInv'
  <1> DEFINE j == signal.job
             n == Len(rows) + 1
  <1>1. /\ AddsRow(j) /\ UNCHANGED printers
        /\ \A l \in loads' : l \in loads \/ (l.job = j /\ PrinterOf[l.job] \in printers)
    BY CreatedTypes
  <1>2. /\ signal = bus[Own][1] /\ 1 \in DOMAIN bus[Own]
        /\ \A i \in DOMAIN bus'[Own] : /\ i + 1 \in DOMAIN bus[Own]
                                       /\ i + 1 # 1
                                       /\ bus'[Own][i] = bus[Own][i + 1]
        /\ Up /\ UNCHANGED <<phase, server>>
        /\ signal.kind = "Created"
    BY BusTail DEF JobCreated
  <1>3. j \in Jobs
    BY SignalTypes DEF JobCreated, JobSignal
  <1> HIDE DEF j
  <1>4. Creation(j, 1)
    BY <1>2 DEF Creation, j
  <1>5. j \in Unseen /\ StateOf(j) # "unknown"
    BY <1>2, <1>3, <1>4 DEF Unseen, CreatedOnce
  <1>6. j \notin Unseen'
    <2>1. \A i \in DOMAIN bus'[Own] : ~Creation(j, i)'
      <3>1. SUFFICES ASSUME NEW i \in DOMAIN bus'[Own], Creation(j, i)'
                     PROVE  FALSE
        OBVIOUS
      <3>2. i + 1 \in DOMAIN bus[Own] /\ i + 1 # 1 /\ Creation(j, i + 1)
        BY <1>2, <3>1 DEF Creation
      <3>3. QED
        BY <1>2, <1>3, <1>4, <3>2 DEF CreatedOnce
    <2>2. StateOf(j)' # "unknown"
      BY <1>2, <1>5 DEF StateOf
    <2>3. QED
      BY <2>1, <2>2 DEF Unseen
  <1>7. ~HasRow(j) /\ \A l \in loads : l.job # j
    BY <1>5 DEF RowsInv, SeenOnly, HasRow
  <1>8. /\ DOMAIN rows' = 1..n /\ DOMAIN rows = 1..(n - 1) /\ n \in Nat
        /\ \A i \in 1..(n - 1) :
             /\ rows'[i].job = rows[i].job /\ rows[i].job # j
             /\ rows[i].printer # "null" => rows'[i].printer # "null"
        /\ rows'[n].job = j
        /\ PrinterOf[j] \in printers => rows'[n].printer # "null"
    <2>1. rows \in Seq(Row)
      BY TypedParts
    <2>2. DOMAIN rows = 1..Len(rows) /\ Len(rows) \in Nat
      BY <2>1
    <2>3. QED
      BY <1>1, <1>7, <2>2 DEF AddsRow, HasRow
  <1> HIDE DEF n
  <1>9. OneRow'
    BY <1>8 DEF RowsInv, OneRow
  <1>10. SeenOnly'
    <2>1. ASSUME NEW i \in DOMAIN rows' PROVE rows'[i].job \notin Unseen'
      <3>1. CASE i = n
        BY <1>6, <1>8, <3>1
      <3>2. CASE i # n
        BY <1>8, <3>2 DEF RowsInv, SeenOnly
      <3>3. QED
        BY <3>1, <3>2
    <2>2. \A l \in loads' : l.job \notin Unseen'
      BY <1>1, <1>6 DEF RowsInv, SeenOnly
    <2>3. QED
      BY <2>1, <2>2 DEF SeenOnly
  <1>11. LoadsFindPrinters'
    <2>1. SUFFICES ASSUME NEW l \in loads', NEW i \in DOMAIN rows',
                          rows'[i].job = l.job
                   PROVE  rows'[i].printer # "null"
      BY DEF LoadsFindPrinters
    <2>2. CASE i = n
      BY <1>1, <1>7, <1>8, <2>1, <2>2
    <2>3. CASE i # n
      <3>1. i \in DOMAIN rows /\ rows[i].job = l.job /\ l.job # j
        BY <1>8, <2>1, <2>3
      <3>2. l \in loads
        BY <1>1, <3>1
      <3>3. QED
        BY <1>8, <3>1, <3>2 DEF RowsInv, LoadsFindPrinters
    <2>4. QED
      BY <2>2, <2>3
  <1>12. JobsHavePrinters'
    <2>1. SUFFICES ASSUME NEW i \in DOMAIN rows',
                          PrinterOf[rows'[i].job] \in printers
                   PROVE  rows'[i].printer # "null"
      BY <1>1 DEF JobsHavePrinters
    <2>2. CASE i = n
      BY <1>8, <2>1, <2>2
    <2>3. CASE i # n
      BY <1>2, <1>8, <2>1, <2>3 DEF RowsInv, JobsHavePrinters, Up
    <2>4. QED
      BY <2>2, <2>3
  <1>13. QED
    BY <1>2, <1>9, <1>10, <1>11, <1>12 DEF RowsInv, Up

\* Each row left is one there was.
LEMMA CompletedKeepsAlone ==
    ASSUME Typed, RowsInv, Unseen' \subseteq Unseen,
           NEW s \in Subscriptions, NEW signal, JobCompleted(s, signal)
    PROVE  RowsInv'
  <1> DEFINE k == FirstOf(rows, signal.job)
             was(i) == IF i < k THEN i ELSE i + 1
  <1>1. /\ KeepsRows \/ RemovesRow(signal.job)
        /\ UNCHANGED <<printers, loads>>
    BY CompletedTypes
  <1>2. Up /\ UNCHANGED phase
    BY DEF JobCompleted, Delivered
  <1>3. CASE KeepsRows
    <2>1. LoadsServed
      BY <1>1 DEF LoadsServed
    <2>2. QED
      BY <1>1, <1>2, <1>3, <2>1, StepKeepsAlone
  <1>4. CASE RemovesRow(signal.job)
    <2>1. rows \in Seq(Row) /\ k \in 1..Len(rows) /\ rows' = RemoveAt(rows, k)
      <3>1. rows \in Seq(Row)
        BY TypedParts
      <3>2. QED
        BY <1>4, <3>1, RowOfJob DEF RemovesRow
    <2> HIDE DEF k
    <2>2. /\ rows' \in Seq(Row) /\ Len(rows') = Len(rows) - 1
          /\ \A i \in 1..(Len(rows) - 1) :
               rows'[i] = IF i < k THEN rows[i] ELSE rows[i + 1]
      BY <2>1, RemoveAtProps
    <2>3. DOMAIN rows' = 1..(Len(rows) - 1) /\ DOMAIN rows = 1..Len(rows)
          /\ Len(rows) \in Nat /\ k \in Nat
      BY <2>1, <2>2
    <2>4. /\ \A i \in DOMAIN rows' : was(i) \in DOMAIN rows /\ rows'[i] = rows[was(i)]
          /\ \A i, m \in DOMAIN rows' : was(i) = was(m) => i = m
      BY <2>2, <2>3
    <2> HIDE DEF was
    <2>5. OneRow'
      BY <2>4 DEF RowsInv, OneRow
    <2>6. SeenOnly' /\ LoadsFindPrinters'
      BY <1>1, <2>4 DEF RowsInv, SeenOnly, LoadsFindPrinters
    <2>7. JobsHavePrinters'
      BY <1>1, <1>2, <2>4 DEF RowsInv, JobsHavePrinters
    <2>8. QED
      BY <1>2, <2>5, <2>6, <2>7 DEF RowsInv, Up
  <1>5. QED
    BY <1>1, <1>3, <1>4

LEMMA RowsStep ==
    ASSUME Typed, RowsInv, CreatedOnce, Subscriptions = {Own},
           Unseen' \subseteq Unseen, [Next]_vars
    PROVE  RowsInv'
  <1>1. CASE UNCHANGED vars
    <2>1. KeepsRows /\ LoadsServed
      BY <1>1, TypedParts DEF vars, KeepsRows, LoadsServed
    <2>2. UNCHANGED <<phase, printers, rows, loads>>
      BY <1>1 DEF vars
    <2>3. QED
      BY <2>1, <2>2, StepKeepsAlone
  <1>2. CASE ListJobs \/ Subscribe
    BY <1>2, ListJobsKeepsAlone, SubscribeKeepsAlone
  <1>3. CASE \E j \in Jobs : Server(j)
    BY <1>3, ServerKeepsAlone
  <1>4. CASE \E l \in loads : LoadStep(l)
    BY <1>4, LoadKeepsAlone
  <1>5. ASSUME NEW s \in Subscriptions, Deliver(s)
        PROVE  RowsInv'
    <2> DEFINE signal == Head(bus[s])
    <2>1. JobCreated(s, signal) \/ JobState(s, signal) \/ JobCompleted(s, signal)
            \/ PrinterSignalled(s, signal)
      BY <1>5 DEF Deliver
    <2> HIDE DEF signal
    <2>2. QED
      BY <2>1, CreatedKeepsAlone, StateKeepsAlone, CompletedKeepsAlone,
         LimiterKeepsAlone
  <1>6. CASE LimiterEmits
    BY <1>6, LimiterKeepsAlone
  <1>7. CASE \E p \in Printer : PrinterListed(p) \/ PrinterUnlisted(p)
    BY <1>7, PrinterListedKeepsAlone, PrinterUnlistedKeepsAlone
  <1>8. QED
    BY <1>1, <1>2, <1>3, <1>4, <1>5, <1>6, <1>7 DEF Next

LEMMA AloneStep ==
    ASSUME Typed, AloneInv, [Next]_vars
    PROVE  AloneInv'
  <1>1. Subscriptions' = Subscriptions
    <2>1. CASE UNCHANGED <<server, bus>>
      BY <2>1 DEF Subscriptions
    <2>2. CASE \E s \in Subscriptions : \E signal : Delivered(s, signal)
      BY <2>2 DEF Delivered, Subscriptions
    <2>3. CASE \E j \in Jobs : Server(j)
      BY <2>3 DEF Server, ServerCreates, ServerMoves, ServerCompletes,
                  ServerPrintsPage, ChangeState, Announce, Subscriptions
    <2>4. QED
      BY <2>1, <2>2, <2>3, BusStep
  <1>2. CASE Subscriptions # {Own}
    BY <1>1, <1>2 DEF AloneInv
  <1>3. CASE Subscriptions = {Own}
    <2>1. CreatedOnce /\ RowsInv
      BY <1>3 DEF AloneInv
    <2>2. CreatedOnce' /\ Unseen' \subseteq Unseen
      BY <1>3, <2>1, SignalsStep
    <2>3. RowsInv'
      BY <1>3, <2>1, <2>2, RowsStep
    <2>4. QED
      BY <2>2, <2>3 DEF AloneInv
  <1>4. QED
    BY <1>2, <1>3

LEMMA AloneInit == Init => AloneInv
  <1>1. SUFFICES ASSUME Init, Subscriptions = {Own}
                 PROVE  CreatedOnce /\ RowsInv
    BY DEF AloneInv
  <1>2. phase = "new" /\ rows = <<>> /\ loads = {}
    BY <1>1 DEF Init
  <1>3. bus[Own] = <<>>
    BY <1>1 DEF Init, Subscriptions
  <1>4. DOMAIN bus[Own] = {} /\ DOMAIN rows = {}
    BY <1>2, <1>3
  <1>5. CreatedOnce
    BY <1>3, <1>4 DEF CreatedOnce
  <1>6. RowsInv
    BY <1>2, <1>4 DEF RowsInv, OneRow, SeenOnly, LoadsFindPrinters,
                      JobsHavePrinters
  <1>7. QED
    BY <1>5, <1>6

LEMMA AloneInvariant == Spec => []AloneInv
  <1>1. Typed /\ AloneInv /\ [Next]_vars => AloneInv'
    BY AloneStep
  <1>2. QED
    BY <1>1, AloneInit, TypedInvariant, PTL DEF Spec

\* Printers::jobAdded and printerAdded, and JobModel::updateJob: with no
\* subscription but the own, for any jobs, printers and changes, each job of
\* a listed printer has it, and no load is applied to a job without one.
THEOREM JobsFindPrinters == Spec => []FoundAlone
  <1>1. AloneInv => FoundAlone
    BY DEF AloneInv, RowsInv, FoundAlone
  <1>2. QED
    BY <1>1, AloneInvariant, PTL

-----------------------------------------------------------------------------
(* Any subscriptions: the signals of a job that each of them still has.    *)

Of(signal, j) == signal.kind # "PrinterState" /\ signal.job = j
Creates(signal, j) == signal.kind = "Created" /\ signal.job = j
Completes(signal, j) == signal.kind = "Completed" /\ signal.job = j
Moves(signal, j) == signal.kind \in {"State", "Completed"} /\ signal.job = j

CreatedOn(j) ==
    {s \in Subscriptions : \E i \in DOMAIN bus[s] : Creates(bus[s][i], j)}
CompletedOn(j) ==
    {s \in Subscriptions : \E i \in DOMAIN bus[s] : Completes(bus[s][i], j)}
Moving(j) ==
    \E s \in Subscriptions : \E i \in DOMAIN bus[s] : Moves(bus[s][i], j)

\* A job is created first and completed last, each of it once, and the last of
\* its signals says what CUPS says.
Feed(s, j) ==
    \A i \in DOMAIN bus[s] : Of(bus[s][i], j) =>
        /\ StateOf(j) # "unknown"
        /\ Creates(bus[s][i], j)
             => \A k \in DOMAIN bus[s] : Of(bus[s][k], j) => i <= k
        /\ Completes(bus[s][i], j)
             => /\ StateOf(j) = "done"
                /\ \A k \in DOMAIN bus[s] : Of(bus[s][k], j) => k <= i
        /\ \/ bus[s][i].report.state = StateOf(j)
           \/ \E k \in DOMAIN bus[s] : k > i /\ Moves(bus[s][k], j)
        /\ Creates(bus[s][i], j) /\ StateOf(j) = "done"
             => \E k \in DOMAIN bus[s] : Completes(bus[s][k], j)

\* The own subscription has signals only once it is made.
FeedInv ==
    /\ \A s \in Subscriptions, j \in Jobs : Feed(s, j)
    /\ phase \notin {"running", "crashed"} => bus[Own] = <<>>

\* The subscriptions that are sent what CUPS changes.
Hears(s) == s # Own \/ phase = "running"

LEMMA FeedDomains ==
    ASSUME Typed, NEW s \in Subscriptions
    PROVE  /\ DOMAIN bus[s] = 1..Len(bus[s]) /\ Len(bus[s]) \in Nat
           /\ \A i \in DOMAIN bus[s] :
                bus[s][i].kind # "PrinterState" => bus[s][i] \in JobSignal
           /\ bus \in [Subscriptions -> Seq(JobSignal \union PrinterSignal)]
  <1> DEFINE S == JobSignal \union PrinterSignal
             q == bus[s]
  <1>1. bus \in [Subscriptions -> Seq(S)]
    BY DEF Typed, TypeOK, Subscriptions
  <1>2. \A x \in S : x.kind # "PrinterState" => x \in JobSignal
    BY DEF PrinterSignal
  <1> HIDE DEF S
  <1>3. q \in Seq(S)
    BY <1>1
  <1> HIDE DEF q
  <1>4. DOMAIN q = 1..Len(q) /\ Len(q) \in Nat /\ \A i \in DOMAIN q : q[i] \in S
    BY <1>3
  <1>5. QED
    BY <1>1, <1>2, <1>4 DEF q, S

\* A delivery takes the first signal of one subscription.
LEMMA AnyBusTail ==
    ASSUME Typed, NEW s \in Subscriptions, NEW signal, Delivered(s, signal)
    PROVE  /\ signal = bus[s][1] /\ 1 \in DOMAIN bus[s]
           /\ DOMAIN bus[s] \subseteq Nat /\ DOMAIN bus'[s] \subseteq Nat
           /\ \A i \in DOMAIN bus'[s] : /\ i + 1 \in DOMAIN bus[s] /\ i + 1 # 1
                                        /\ bus'[s][i] = bus[s][i + 1]
           /\ \A i \in DOMAIN bus[s] :
                i # 1 => i - 1 \in DOMAIN bus'[s] /\ bus'[s][i - 1] = bus[s][i]
           /\ \A t \in Subscriptions \ {s} : bus'[t] = bus[t]
           /\ Subscriptions' = Subscriptions /\ Jobs' = Jobs
           /\ Up /\ UNCHANGED <<phase, server, printers, missed>>
  <1> DEFINE S == JobSignal \union PrinterSignal
             q == bus[s]
  <1>1. bus \in [Subscriptions -> Seq(S)]
    BY FeedDomains
  <1>2. q # <<>> /\ signal = Head(q) /\ bus' = [bus EXCEPT ![s] = Tail(q)]
    BY SignalTypes
  <1>3. q \in Seq(S)
    BY <1>1
  <1> HIDE DEF S
  <1>4. /\ bus'[s] = Tail(q) /\ \A t \in Subscriptions \ {s} : bus'[t] = bus[t]
        /\ Subscriptions' = Subscriptions
    BY <1>1, <1>2 DEF Subscriptions
  <1> HIDE DEF q
  <1>5. /\ signal = q[1] /\ 1 \in DOMAIN q
        /\ DOMAIN q \subseteq Nat /\ DOMAIN Tail(q) \subseteq Nat
        /\ \A i \in DOMAIN Tail(q) : /\ i + 1 \in DOMAIN q /\ i + 1 # 1
                                     /\ Tail(q)[i] = q[i + 1]
        /\ \A i \in DOMAIN q :
             i # 1 => i - 1 \in DOMAIN Tail(q) /\ Tail(q)[i - 1] = q[i]
    BY <1>2, <1>3
  <1>6. QED
    BY <1>4, <1>5 DEF q, Delivered, Jobs

\* A signal is put at the end of each subscription that hears of it.
LEMMA AnyBusAppend ==
    ASSUME Typed, NEW signal, Announce(signal)
    PROVE  /\ Subscriptions' = Subscriptions
           /\ \A s \in Subscriptions : ~Hears(s) => bus'[s] = bus[s]
           /\ \A s \in Subscriptions : Hears(s) => \E n \in Nat :
                /\ DOMAIN bus'[s] = 1..n + 1 /\ DOMAIN bus[s] = 1..n
                /\ \A i \in 1..n : bus'[s][i] = bus[s][i]
                /\ bus'[s][n + 1] = signal
  <1> DEFINE S == JobSignal \union PrinterSignal
  <1>1. bus \in [Subscriptions -> Seq(S)]
    BY DEF Typed, TypeOK, Subscriptions
  <1>2. /\ Subscriptions' = Subscriptions
        /\ \A s \in Subscriptions :
             bus'[s] = IF Hears(s) THEN Append(bus[s], signal) ELSE bus[s]
    BY DEF Announce, Hears, Subscriptions
  <1> HIDE DEF S
  <1>3. ASSUME NEW s \in Subscriptions, Hears(s)
        PROVE  \E n \in Nat :
                 /\ DOMAIN bus'[s] = 1..n + 1 /\ DOMAIN bus[s] = 1..n
                 /\ \A i \in 1..n : bus'[s][i] = bus[s][i]
                 /\ bus'[s][n + 1] = signal
    <2> DEFINE q == bus[s]
    <2>1. q \in Seq(S) /\ bus'[s] = Append(q, signal)
      BY <1>1, <1>2, <1>3
    <2> HIDE DEF q
    <2>2. /\ Len(q) \in Nat
          /\ DOMAIN Append(q, signal) = 1..Len(q) + 1 /\ DOMAIN q = 1..Len(q)
          /\ \A i \in 1..Len(q) : Append(q, signal)[i] = q[i]
          /\ Append(q, signal)[Len(q) + 1] = signal
      BY <2>1
    <2>3. QED
      BY <2>1, <2>2 DEF q
  <1>4. QED
    BY <1>2, <1>3

\* CUPS changes the state of a job and signals it, or prints a page.
Says(signal, j) ==
    /\ signal.job = j /\ signal.report.state = StateOf(j)'
    /\ \/ /\ signal.kind = "Created"
          /\ StateOf(j) = "unknown" /\ StateOf(j)' \in Open
       \/ /\ signal.kind = "State"
          /\ StateOf(j) \in Open /\ StateOf(j)' \in Open
       \/ /\ signal.kind = "Completed"
          /\ StateOf(j) \in Open /\ StateOf(j)' = "done"

Changes(j, signal) ==
    /\ Announce(signal)
    /\ \/ Says(signal, j)
       \/ signal.kind = "PrinterState" /\ StateOf(j)' = StateOf(j)
    /\ \A k \in Jobs \ {j} : StateOf(k)' = StateOf(k)
    /\ missed' = IF phase = "listed" THEN missed \union {j} ELSE missed
    /\ phase # "crashed" /\ Jobs' = Jobs
    /\ UNCHANGED <<phase, printers, active, loads, rows, stale>>

LEMMA ServerChanges ==
    ASSUME Typed, NEW j \in Jobs, Server(j)
    PROVE  \E signal : Changes(j, signal)
  <1>1. server \in [Jobs -> [report : Report, changes : Nat]]
    BY DEF Typed, TypeOK, Jobs
  <1>2. ASSUME NEW report, Change(j, report)
        PROVE  /\ StateOf(j)' = report.state
               /\ \A k \in Jobs \ {j} : StateOf(k)' = StateOf(k)
               /\ missed' = IF phase = "listed" THEN missed \union {j} ELSE missed
               /\ phase # "crashed" /\ Jobs' = Jobs
    BY <1>1, <1>2 DEF Change, StateOf, Jobs
  <1>3. ASSUME NEW kind \in {"Created", "State", "Completed"},
               NEW to \in Open \union {"done"}, ChangeState(j, kind, to),
               \/ kind = "Created" /\ StateOf(j) = "unknown" /\ to \in Open
               \/ kind = "State" /\ StateOf(j) \in Open /\ to \in Open
               \/ kind = "Completed" /\ StateOf(j) \in Open /\ to = "done"
        PROVE  \E signal : Changes(j, signal)
    <2> DEFINE report == [state |-> to, pages |-> server[j].report.pages]
               signal == [kind |-> kind, job |-> j, report |-> report]
    <2>1. Change(j, report) /\ Announce(signal)
          /\ UNCHANGED <<phase, pending, printers, active, loads, rows, stale>>
      BY <1>3 DEF ChangeState
    <2>2. report.state = to /\ signal.kind = kind /\ signal.job = j
          /\ signal.report = report
      OBVIOUS
    <2> HIDE DEF report, signal
    <2>3. Says(signal, j)
      BY <1>2, <1>3, <2>1, <2>2 DEF Says
    <2>4. Changes(j, signal)
      BY <1>2, <2>1, <2>3 DEF Changes
    <2>5. QED
      BY <2>4
  <1>4. CASE ServerCreates(j)
    <2>1. PICK to \in {"pending", "held"} : ChangeState(j, "Created", to)
      BY <1>4 DEF ServerCreates
    <2>2. to \in Open /\ StateOf(j) = "unknown"
      BY <1>4 DEF ServerCreates, Open
    <2>3. QED
      BY <1>3, <2>1, <2>2
  <1>5. CASE ServerMoves(j)
    BY <1>3, <1>5 DEF ServerMoves
  <1>6. CASE ServerCompletes(j)
    BY <1>3, <1>6 DEF ServerCompletes
  <1>7. CASE ServerPrintsPage(j)
    <2> DEFINE report == [server[j].report EXCEPT !.pages = @ + 1]
               signal == [kind |-> "PrinterState", printer |-> PrinterOf[j]]
    <2>1. Change(j, report) /\ Announce(signal)
          /\ UNCHANGED <<phase, pending, printers, active, loads, rows, stale>>
      BY <1>7 DEF ServerPrintsPage
    <2>2. report.state = StateOf(j)
      BY <1>1 DEF Report, StateOf
    <2>3. signal.kind = "PrinterState"
      OBVIOUS
    <2> HIDE DEF report, signal
    <2>4. Changes(j, signal)
      BY <1>2, <2>1, <2>2, <2>3 DEF Changes
    <2>5. QED
      BY <2>4
  <1>8. QED
    BY <1>4, <1>5, <1>6, <1>7 DEF Server

\* What a subscription still has of a job stays in order while its signals
\* are delivered, and when CUPS adds one.
LEMMA FeedDelivered ==
    ASSUME Typed, NEW s \in Subscriptions, NEW signal, Delivered(s, signal),
           NEW t \in Subscriptions, NEW j \in Jobs, Feed(t, j)
    PROVE  Feed(t, j)'
  <1>1. StateOf(j)' = StateOf(j)
    BY AnyBusTail DEF StateOf
  <1>2. CASE t # s
    <2>1. bus'[t] = bus[t]
      BY <1>2, AnyBusTail
    <2>2. QED
      BY <1>1, <2>1 DEF Feed, Of, Creates, Completes, Moves
  <1>3. CASE t = s
    <2>1. /\ DOMAIN bus[s] \subseteq Nat /\ DOMAIN bus'[s] \subseteq Nat
          /\ \A i \in DOMAIN bus'[s] : /\ i + 1 \in DOMAIN bus[s] /\ i + 1 # 1
                                       /\ bus'[s][i] = bus[s][i + 1]
          /\ \A i \in DOMAIN bus[s] :
               i # 1 => i - 1 \in DOMAIN bus'[s] /\ bus'[s][i - 1] = bus[s][i]
          /\ 1 \in DOMAIN bus[s]
      BY AnyBusTail
    <2>2. SUFFICES ASSUME NEW i \in DOMAIN bus'[s], Of(bus'[s][i], j)
                   PROVE  /\ StateOf(j) # "unknown"
                          /\ Creates(bus'[s][i], j)
                               => \A k \in DOMAIN bus'[s] : Of(bus'[s][k], j) => i <= k
                          /\ Completes(bus'[s][i], j)
                               => /\ StateOf(j) = "done"
                                  /\ \A k \in DOMAIN bus'[s] : Of(bus'[s][k], j) => k <= i
                          /\ \/ bus'[s][i].report.state = StateOf(j)
                             \/ \E k \in DOMAIN bus'[s] : k > i /\ Moves(bus'[s][k], j)
                          /\ Creates(bus'[s][i], j) /\ StateOf(j) = "done"
                               => \E k \in DOMAIN bus'[s] : Completes(bus'[s][k], j)
      BY <1>1, <1>3 DEF Feed, Of, Creates, Completes, Moves
    <2>3. i \in Nat /\ i + 1 \in DOMAIN bus[s] /\ bus'[s][i] = bus[s][i + 1]
          /\ Of(bus[s][i + 1], j)
      BY <2>1, <2>2
    <2>4. /\ StateOf(j) # "unknown"
          /\ Creates(bus[s][i + 1], j)
               => \A k \in DOMAIN bus[s] : Of(bus[s][k], j) => i + 1 <= k
          /\ Completes(bus[s][i + 1], j)
               => /\ StateOf(j) = "done"
                  /\ \A k \in DOMAIN bus[s] : Of(bus[s][k], j) => k <= i + 1
          /\ \/ bus[s][i + 1].report.state = StateOf(j)
             \/ \E k \in DOMAIN bus[s] : k > i + 1 /\ Moves(bus[s][k], j)
          /\ Creates(bus[s][i + 1], j) /\ StateOf(j) = "done"
               => \E k \in DOMAIN bus[s] : Completes(bus[s][k], j)
      BY <1>3, <2>3 DEF Feed
    <2>5. \A k \in DOMAIN bus'[s] : /\ k \in Nat /\ k + 1 \in DOMAIN bus[s]
                                    /\ bus'[s][k] = bus[s][k + 1]
      BY <2>1
    <2>6. Creates(bus'[s][i], j)
            => \A k \in DOMAIN bus'[s] : Of(bus'[s][k], j) => i <= k
      BY <2>3, <2>4, <2>5
    <2>7. Completes(bus'[s][i], j)
            => /\ StateOf(j) = "done"
               /\ \A k \in DOMAIN bus'[s] : Of(bus'[s][k], j) => k <= i
      BY <2>3, <2>4, <2>5
    <2>8. \/ bus'[s][i].report.state = StateOf(j)
          \/ \E k \in DOMAIN bus'[s] : k > i /\ Moves(bus'[s][k], j)
      <3>1. ASSUME NEW k \in DOMAIN bus[s], k > i + 1, Moves(bus[s][k], j)
            PROVE  \E m \in DOMAIN bus'[s] : m > i /\ Moves(bus'[s][m], j)
        <4>1. k \in Nat /\ k # 1 /\ k - 1 > i
          BY <2>1, <2>3, <3>1
        <4>2. k - 1 \in DOMAIN bus'[s] /\ Moves(bus'[s][k - 1], j)
          BY <2>1, <3>1, <4>1
        <4>3. QED
          BY <4>1, <4>2
      <3>2. QED
        BY <2>3, <2>4, <3>1
    <2>9. Creates(bus'[s][i], j) /\ StateOf(j) = "done"
            => \E k \in DOMAIN bus'[s] : Completes(bus'[s][k], j)
      <3>1. SUFFICES ASSUME Creates(bus[s][i + 1], j), StateOf(j) = "done"
                     PROVE  \E k \in DOMAIN bus'[s] : Completes(bus'[s][k], j)
        BY <2>3
      <3>2. PICK k \in DOMAIN bus[s] : Completes(bus[s][k], j)
        BY <2>4, <3>1
      <3>3. k >= i + 1
        BY <2>4, <3>1, <3>2 DEF Completes, Of
      <3>4. k \in Nat /\ k # 1
        BY <2>1, <2>3, <3>3
      <3>5. QED
        BY <2>1, <3>2, <3>4
    <2>10. QED
      BY <2>4, <2>6, <2>7, <2>8, <2>9
  <1>4. QED
    BY <1>2, <1>3

LEMMA FeedAnnounced ==
    ASSUME Typed, FeedInv, NEW j \in Jobs, NEW signal, Changes(j, signal),
           NEW s \in Subscriptions, NEW k \in Jobs
    PROVE  Feed(s, k)'
  <1>1. Feed(s, k)
    BY DEF FeedInv
  <1>2. CASE ~Hears(s)
    <2>1. bus[s] = <<>> /\ bus'[s] = bus[s]
      BY <1>2, AnyBusAppend DEF Changes, FeedInv, Hears
    <2>2. DOMAIN bus'[s] = {}
      BY <2>1
    <2>3. QED
      BY <2>2 DEF Feed
  <1>3. CASE Hears(s)
    <2>1. PICK n \in Nat :
            /\ DOMAIN bus'[s] = 1..n + 1 /\ DOMAIN bus[s] = 1..n
            /\ \A i \in 1..n : bus'[s][i] = bus[s][i]
            /\ bus'[s][n + 1] = signal
      BY <1>3, AnyBusAppend DEF Changes
    <2>2. CASE k # j \/ signal.kind = "PrinterState"
      <3>1. StateOf(k)' = StateOf(k) /\ ~Of(signal, k)
        BY <2>2 DEF Changes, Says, Of
      <3>2. \A i \in 1..n + 1 : Of(bus'[s][i], k)
              => i \in 1..n /\ bus'[s][i] = bus[s][i]
        BY <2>1, <3>1
      <3>3. SUFFICES ASSUME NEW i \in 1..n, Of(bus[s][i], k),
                            bus'[s][i] = bus[s][i]
                     PROVE  /\ StateOf(k) # "unknown"
                            /\ Creates(bus[s][i], k)
                                 => \A m \in 1..n + 1 : Of(bus'[s][m], k) => i <= m
                            /\ Completes(bus[s][i], k)
                                 => /\ StateOf(k) = "done"
                                    /\ \A m \in 1..n + 1 : Of(bus'[s][m], k) => m <= i
                            /\ \/ bus[s][i].report.state = StateOf(k)
                               \/ \E m \in 1..n + 1 : m > i /\ Moves(bus'[s][m], k)
                            /\ Creates(bus[s][i], k) /\ StateOf(k) = "done"
                                 => \E m \in 1..n + 1 : Completes(bus'[s][m], k)
        BY <2>1, <3>1, <3>2 DEF Feed, Of, Creates, Completes, Moves
      <3>4. /\ StateOf(k) # "unknown"
            /\ Creates(bus[s][i], k)
                 => \A m \in 1..n : Of(bus[s][m], k) => i <= m
            /\ Completes(bus[s][i], k)
                 => /\ StateOf(k) = "done"
                    /\ \A m \in 1..n : Of(bus[s][m], k) => m <= i
            /\ \/ bus[s][i].report.state = StateOf(k)
               \/ \E m \in 1..n : m > i /\ Moves(bus[s][m], k)
            /\ Creates(bus[s][i], k) /\ StateOf(k) = "done"
                 => \E m \in 1..n : Completes(bus[s][m], k)
        BY <1>1, <2>1, <3>3 DEF Feed
      <3>5. \A m \in 1..n : m \in 1..n + 1 /\ bus'[s][m] = bus[s][m]
        BY <2>1
      <3>6. QED
        BY <3>2, <3>4, <3>5
    <2>3. CASE k = j /\ Says(signal, j)
      <3> DEFINE new == StateOf(j)'
      <3>1. /\ signal.job = j /\ signal.report.state = new /\ new # "unknown"
            /\ Of(signal, j)
            /\ Creates(signal, j) => StateOf(j) = "unknown" /\ new # "done"
            /\ ~Creates(signal, j) => Moves(signal, j) /\ StateOf(j) # "unknown"
            /\ new = "done" => Completes(signal, j)
            /\ Completes(signal, j) => new = "done"
            /\ StateOf(j) # "done"
        BY <2>3 DEF Says, Of, Creates, Completes, Moves, Open
      <3> HIDE DEF new
      <3>2. \A i \in 1..n : Of(bus[s][i], j) =>
              /\ StateOf(j) # "unknown"
              /\ Creates(bus[s][i], j)
                   => \A m \in 1..n : Of(bus[s][m], j) => i <= m
              /\ ~Completes(bus[s][i], j)
        BY <1>1, <2>1, <2>3, <3>1 DEF Feed
      <3>3. SUFFICES ASSUME NEW i \in 1..n + 1, Of(bus'[s][i], j)
                     PROVE  /\ new # "unknown"
                            /\ Creates(bus'[s][i], j)
                                 => \A m \in 1..n + 1 : Of(bus'[s][m], j) => i <= m
                            /\ Completes(bus'[s][i], j)
                                 => /\ new = "done"
                                    /\ \A m \in 1..n + 1 : Of(bus'[s][m], j) => m <= i
                            /\ \/ bus'[s][i].report.state = new
                               \/ \E m \in 1..n + 1 : m > i /\ Moves(bus'[s][m], j)
                            /\ Creates(bus'[s][i], j) /\ new = "done"
                                 => \E m \in 1..n + 1 : Completes(bus'[s][m], j)
        BY <2>1, <2>3 DEF Feed, Of, Creates, Completes, Moves, new
      <3>4. CASE i = n + 1
        <4>1. bus'[s][i] = signal
          BY <2>1, <3>4
        <4>2. Creates(signal, j)
                => \A m \in 1..n + 1 : Of(bus'[s][m], j) => i <= m
          BY <2>1, <3>1, <3>2, <3>4
        <4>3. QED
          BY <3>1, <3>4, <4>1, <4>2
      <3>5. CASE i # n + 1
        <4>1. i \in 1..n /\ bus'[s][i] = bus[s][i] /\ StateOf(j) # "unknown"
              /\ ~Completes(bus[s][i], j)
          BY <2>1, <3>2, <3>3, <3>5
        <4>2. Moves(signal, j) /\ n + 1 \in 1..n + 1 /\ n + 1 > i
          BY <3>1, <4>1
        <4>3. Creates(bus'[s][i], j)
                => \A m \in 1..n + 1 : Of(bus'[s][m], j) => i <= m
          BY <2>1, <3>2, <3>3, <4>1
        <4>4. QED
          BY <2>1, <3>1, <4>1, <4>2, <4>3
      <3>6. QED
        BY <3>4, <3>5
    <2>4. QED
      BY <2>2, <2>3 DEF Changes
  <1>4. QED
    BY <1>2, <1>3

LEMMA FeedStep ==
    ASSUME Typed, FeedInv, [Next]_vars
    PROVE  FeedInv'
  <1>1. CASE UNCHANGED <<server, bus>>
    <2>1. phase' \notin {"running", "crashed"}
            => phase \notin {"running", "crashed"}
      BY DEF Next, ListJobs, Subscribe, LimiterEmits, PrinterListed,
             PrinterUnlisted, LoadStep, LoaderReads, UpdateJob, OnJobLoaded,
             Deliver, JobCreated, JobState, JobCompleted, PrinterSignalled,
             Delivered, Server, ServerCreates, ServerMoves, ServerCompletes,
             ServerPrintsPage, ChangeState, vars
    <2>2. QED
      BY <1>1, <2>1 DEF FeedInv, Feed, Subscriptions, Jobs, StateOf, Of, Creates,
                        Completes, Moves
  <1>2. ASSUME NEW s \in Subscriptions, NEW signal, Delivered(s, signal)
        PROVE  FeedInv'
    <2>1. /\ Subscriptions' = Subscriptions /\ Jobs' = Jobs /\ phase' = phase
          /\ 1 \in DOMAIN bus[s] /\ \A t \in Subscriptions \ {s} : bus'[t] = bus[t]
      BY <1>2, AnyBusTail
    <2>2. phase \notin {"running", "crashed"} => bus'[Own] = <<>>
      <3>1. SUFFICES ASSUME phase \notin {"running", "crashed"}
                     PROVE  bus'[Own] = <<>>
        OBVIOUS
      <3>2. bus[Own] = <<>> /\ DOMAIN <<>> = {}
        BY <3>1 DEF FeedInv
      <3>3. Own \in Subscriptions
        BY JobAssumption DEF Typed, TypeOK, Subscriptions
      <3>4. QED
        BY <2>1, <3>2, <3>3
    <2>3. \A t \in Subscriptions, j \in Jobs : Feed(t, j)'
      BY <1>2, FeedDelivered DEF FeedInv
    <2>4. QED
      BY <2>1, <2>2, <2>3 DEF FeedInv
  <1>3. ASSUME NEW j \in Jobs, Server(j)
        PROVE  FeedInv'
    <2>1. PICK signal : Changes(j, signal)
      BY <1>3, ServerChanges
    <2>2. /\ Subscriptions' = Subscriptions /\ Jobs' = Jobs /\ phase' = phase
          /\ phase # "running" => bus'[Own] = bus[Own]
      <3>1. Own \in Subscriptions
        BY JobAssumption DEF Typed, TypeOK, Subscriptions
      <3>2. QED
        BY <2>1, <3>1, AnyBusAppend DEF Changes, Hears
    <2>3. \A t \in Subscriptions, k \in Jobs : Feed(t, k)'
      BY <2>1, FeedAnnounced
    <2>4. QED
      BY <2>2, <2>3 DEF FeedInv
  <1>4. QED
    BY <1>1, <1>2, <1>3, BusStep

\* What that makes of the subscriptions that still have a job's signals.
LEMMA SetsDelivered ==
    ASSUME Typed, NEW s \in Subscriptions, NEW signal, Delivered(s, signal),
           NEW j \in Jobs, Feed(s, j)
    PROVE  /\ CreatedOn(j)' \subseteq CreatedOn(j)
           /\ ~Creates(signal, j) => CreatedOn(j)' = CreatedOn(j)
           /\ Creates(signal, j) => /\ s \in CreatedOn(j)
                                    /\ CreatedOn(j)' = CreatedOn(j) \ {s}
           /\ CompletedOn(j) \ {s} \subseteq CompletedOn(j)'
           /\ ~Completes(signal, j) => CompletedOn(j)' = CompletedOn(j)
           /\ Completes(signal, j) => s \notin CreatedOn(j) /\ StateOf(j) = "done"
           /\ ~Moves(signal, j) => (Moving(j)' <=> Moving(j))
           /\ Of(signal, j) => signal.report.state = StateOf(j) \/ Moving(j)'
  <1>1. /\ signal = bus[s][1] /\ 1 \in DOMAIN bus[s]
        /\ DOMAIN bus[s] \subseteq Nat /\ DOMAIN bus'[s] \subseteq Nat
        /\ \A i \in DOMAIN bus'[s] : /\ i + 1 \in DOMAIN bus[s] /\ i + 1 # 1
                                     /\ bus'[s][i] = bus[s][i + 1]
        /\ \A i \in DOMAIN bus[s] :
             i # 1 => i - 1 \in DOMAIN bus'[s] /\ bus'[s][i - 1] = bus[s][i]
        /\ \A t \in Subscriptions \ {s} : bus'[t] = bus[t]
        /\ Subscriptions' = Subscriptions
    BY AnyBusTail
  <1>2. \A i \in DOMAIN bus[s] : i >= 1
    BY FeedDomains
  <1>3. /\ CreatedOn(j)' =
             {t \in Subscriptions : \E i \in DOMAIN bus'[t] : Creates(bus'[t][i], j)}
        /\ CompletedOn(j)' =
             {t \in Subscriptions : \E i \in DOMAIN bus'[t] : Completes(bus'[t][i], j)}
        /\ Moving(j)' <=>
             \E t \in Subscriptions : \E i \in DOMAIN bus'[t] : Moves(bus'[t][i], j)
    BY <1>1 DEF CreatedOn, CompletedOn, Moving, Creates, Completes, Moves
  <1>4. CreatedOn(j)' \subseteq CreatedOn(j)
    BY <1>1, <1>3 DEF CreatedOn
  <1>5. ASSUME ~Creates(signal, j) PROVE CreatedOn(j) \subseteq CreatedOn(j)'
    <2>1. SUFFICES ASSUME NEW t \in Subscriptions,
                          NEW i \in DOMAIN bus[t], Creates(bus[t][i], j)
                   PROVE  \E k \in DOMAIN bus'[t] : Creates(bus'[t][k], j)
      BY <1>3 DEF CreatedOn
    <2>2. QED
      BY <1>1, <1>5, <2>1
  <1>6. ASSUME Creates(signal, j)
        PROVE  s \in CreatedOn(j) /\ CreatedOn(j)' = CreatedOn(j) \ {s}
    <2>1. s \in CreatedOn(j)
      BY <1>1, <1>6 DEF CreatedOn
    <2>2. \A i \in DOMAIN bus[s] : Creates(bus[s][i], j) => i = 1
      BY <1>1, <1>2, <1>6 DEF Feed, Of, Creates
    <2>3. s \notin CreatedOn(j)'
      BY <1>1, <1>3, <2>2
    <2>4. CreatedOn(j) \ {s} \subseteq CreatedOn(j)'
      BY <1>1, <1>3 DEF CreatedOn
    <2>5. QED
      BY <1>4, <2>1, <2>3, <2>4
  <1>7. CompletedOn(j) \ {s} \subseteq CompletedOn(j)'
    BY <1>1, <1>3 DEF CompletedOn
  <1>8. ASSUME ~Completes(signal, j) PROVE CompletedOn(j)' = CompletedOn(j)
    <2>1. CompletedOn(j)' \subseteq CompletedOn(j)
      BY <1>1, <1>3 DEF CompletedOn
    <2>2. s \in CompletedOn(j) => s \in CompletedOn(j)'
      <3>1. SUFFICES ASSUME NEW i \in DOMAIN bus[s], Completes(bus[s][i], j)
                     PROVE  \E k \in DOMAIN bus'[s] : Completes(bus'[s][k], j)
        BY <1>3 DEF CompletedOn
      <3>2. QED
        BY <1>1, <1>8, <3>1
    <2>3. QED
      BY <1>7, <2>1, <2>2
  <1>9. ASSUME Completes(signal, j)
        PROVE  s \notin CreatedOn(j) /\ StateOf(j) = "done"
    <2>1. Of(bus[s][1], j) /\ Completes(bus[s][1], j)
      BY <1>1, <1>9 DEF Completes, Of
    <2>2. StateOf(j) = "done" /\ \A k \in DOMAIN bus[s] : Of(bus[s][k], j) => k <= 1
      BY <1>1, <2>1 DEF Feed
    <2>3. \A k \in DOMAIN bus[s] : Creates(bus[s][k], j) => k = 1
      BY <1>2, <1>1, <2>2 DEF Creates, Of
    <2>4. s \notin CreatedOn(j)
      BY <2>1, <2>3 DEF CreatedOn, Creates, Completes
    <2>5. QED
      BY <2>2, <2>4
  <1>10. ASSUME ~Moves(signal, j) PROVE Moving(j)' <=> Moving(j)
    <2>1. ASSUME NEW t \in Subscriptions, NEW i \in DOMAIN bus[t],
                 Moves(bus[t][i], j)
          PROVE  \E k \in DOMAIN bus'[t] : Moves(bus'[t][k], j)
      BY <1>1, <1>10, <2>1
    <2>2. ASSUME NEW t \in Subscriptions, NEW i \in DOMAIN bus'[t],
                 Moves(bus'[t][i], j)
          PROVE  \E k \in DOMAIN bus[t] : Moves(bus[t][k], j)
      BY <1>1, <2>2
    <2>3. QED
      BY <1>3, <2>1, <2>2 DEF Moving
  <1>11. ASSUME Of(signal, j)
         PROVE  signal.report.state = StateOf(j) \/ Moving(j)'
    <2>1. \/ signal.report.state = StateOf(j)
          \/ \E k \in DOMAIN bus[s] : k > 1 /\ Moves(bus[s][k], j)
      BY <1>1, <1>11 DEF Feed
    <2>2. ASSUME NEW k \in DOMAIN bus[s], k > 1, Moves(bus[s][k], j)
          PROVE  Moving(j)'
      <3>1. k - 1 \in DOMAIN bus'[s] /\ bus'[s][k - 1] = bus[s][k]
        BY <1>1, <2>2
      <3>2. QED
        BY <1>3, <2>2, <3>1
    <2>3. QED
      BY <2>1, <2>2
  <1>12. QED
    BY <1>4, <1>5, <1>6, <1>7, <1>8, <1>9, <1>10, <1>11

LEMMA SetsAnnounced ==
    ASSUME Typed, NEW j \in Jobs, NEW signal, Changes(j, signal), NEW k \in Jobs
    PROVE  /\ CreatedOn(k)' = CreatedOn(k) \union
                {s \in Subscriptions : Hears(s) /\ Creates(signal, k)}
           /\ CompletedOn(k)' = CompletedOn(k) \union
                {s \in Subscriptions : Hears(s) /\ Completes(signal, k)}
           /\ Moving(k)' <=> \/ Moving(k)
                             \/ \E s \in Subscriptions : Hears(s) /\ Moves(signal, k)
           /\ Subscriptions' = Subscriptions
  <1>1. Subscriptions' = Subscriptions
    BY AnyBusAppend DEF Changes
  <1>2. ASSUME NEW s \in Subscriptions
        PROVE  /\ (\E i \in DOMAIN bus'[s] : Creates(bus'[s][i], k))
                    <=> \/ \E i \in DOMAIN bus[s] : Creates(bus[s][i], k)
                        \/ Hears(s) /\ Creates(signal, k)
               /\ (\E i \in DOMAIN bus'[s] : Completes(bus'[s][i], k))
                    <=> \/ \E i \in DOMAIN bus[s] : Completes(bus[s][i], k)
                        \/ Hears(s) /\ Completes(signal, k)
               /\ (\E i \in DOMAIN bus'[s] : Moves(bus'[s][i], k))
                    <=> \/ \E i \in DOMAIN bus[s] : Moves(bus[s][i], k)
                        \/ Hears(s) /\ Moves(signal, k)
    <2>1. CASE ~Hears(s)
      BY <2>1, AnyBusAppend DEF Changes
    <2>2. CASE Hears(s)
      <3>1. PICK n \in Nat :
              /\ DOMAIN bus'[s] = 1..n + 1 /\ DOMAIN bus[s] = 1..n
              /\ \A i \in 1..n : bus'[s][i] = bus[s][i]
              /\ bus'[s][n + 1] = signal
        BY <2>2, AnyBusAppend DEF Changes
      <3>2. /\ n + 1 \in 1..n + 1 /\ 1..n \subseteq 1..n + 1
            /\ \A i \in 1..n + 1 : i \in 1..n \/ i = n + 1
        OBVIOUS
      <3>3. QED
        BY <2>2, <3>1, <3>2
    <2>3. QED
      BY <2>1, <2>2
  <1>3. /\ CreatedOn(k)' =
             {s \in Subscriptions : \E i \in DOMAIN bus'[s] : Creates(bus'[s][i], k)}
        /\ CompletedOn(k)' =
             {s \in Subscriptions : \E i \in DOMAIN bus'[s] : Completes(bus'[s][i], k)}
        /\ Moving(k)' <=>
             \E s \in Subscriptions : \E i \in DOMAIN bus'[s] : Moves(bus'[s][i], k)
    BY <1>1 DEF CreatedOn, CompletedOn, Moving, Creates, Completes, Moves
  <1>4. /\ CreatedOn(k)' = CreatedOn(k) \union
             {s \in Subscriptions : Hears(s) /\ Creates(signal, k)}
        /\ CompletedOn(k)' = CompletedOn(k) \union
             {s \in Subscriptions : Hears(s) /\ Completes(signal, k)}
    BY <1>2, <1>3 DEF CreatedOn, CompletedOn
  <1>5. Moving(k)' <=> \/ Moving(k)
                       \/ \E s \in Subscriptions : Hears(s) /\ Moves(signal, k)
    BY <1>2, <1>3 DEF Moving
  <1>6. QED
    BY <1>1, <1>4, <1>5

-----------------------------------------------------------------------------
(* Any subscriptions: the rows of a job.                                   *)

\* Where a job has its rows.
At(seq, j) == {i \in DOMAIN seq : seq[i].job = j}
RowsOf(j) == At(rows, j)

LEMMA AtFinite ==
    ASSUME NEW S, NEW seq \in Seq(S), NEW j
    PROVE  /\ At(seq, j) \subseteq 1..Len(seq) /\ IsFiniteSet(At(seq, j))
           /\ Cardinality(At(seq, j)) \in Nat
           /\ Cardinality(At(seq, j)) = 0 <=> \A i \in DOMAIN seq : seq[i].job # j
  <1>1. At(seq, j) \subseteq 1..Len(seq) /\ Len(seq) \in Nat
    BY DEF At
  <1>2. IsFiniteSet(At(seq, j))
    <2>1. IsFiniteSet(1..Len(seq))
      BY <1>1, FS_Interval
    <2>2. QED
      BY <1>1, <2>1, FS_Subset
  <1>3. Cardinality(At(seq, j)) \in Nat
    BY <1>2, FS_CardinalityType
  <1>4. Cardinality(At(seq, j)) = 0 <=> At(seq, j) = {}
    BY <1>2, FS_EmptySet
  <1>5. QED
    BY <1>1, <1>2, <1>3, <1>4 DEF At

\* getJob finds the first row of the job.
LEMMA FirstIsFirst ==
    ASSUME NEW S, NEW seq \in Seq(S), NEW j,
           NEW i \in DOMAIN seq, seq[i].job = j
    PROVE  FirstOf(seq, j) <= i
  <1> DEFINE I == {k \in 1..Len(seq) : seq[k].job = j}
  <1>1. /\ I \subseteq 1..Len(seq) /\ i \in I
        /\ DOMAIN seq = 1..Len(seq) /\ Len(seq) \in Nat
    OBVIOUS
  <1>2. \A k \in I : Min(I) <= k
    BY <1>1, LeastOf
  <1>3. FirstOf(seq, j) = Min(I)
    BY <1>1 DEF FirstOf, SelectInSeq
  <1>4. QED
    BY <1>1, <1>2, <1>3

LEMMA FirstIs ==
    ASSUME NEW S, NEW seq \in Seq(S), NEW j, NEW i \in DOMAIN seq,
           seq[i].job = j, \A k \in DOMAIN seq : k < i => seq[k].job # j
    PROVE  FirstOf(seq, j) = i
  <1>1. FirstOf(seq, j) \in DOMAIN seq /\ seq[FirstOf(seq, j)].job = j
    BY FirstIsOne
  <1>2. FirstOf(seq, j) <= i
    BY FirstIsFirst
  <1>3. ~(FirstOf(seq, j) < i) /\ DOMAIN seq \subseteq Nat
    BY <1>1
  <1>4. QED
    BY <1>1, <1>2, <1>3

\* A list with a job's rows at the same places, and more behind, has the same
\* first row of it.
LEMMA SameFirst ==
    ASSUME NEW S, NEW seq \in Seq(S), NEW T, NEW more \in Seq(T), NEW j,
           NEW i \in DOMAIN seq, seq[i].job = j,
           Len(seq) <= Len(more), \A k \in DOMAIN seq : more[k].job = seq[k].job
    PROVE  /\ FirstOf(more, j) = FirstOf(seq, j)
           /\ FirstOf(seq, j) \in DOMAIN seq /\ seq[FirstOf(seq, j)].job = j
  <1> DEFINE f == FirstOf(seq, j)
  <1>1. f \in DOMAIN seq /\ seq[f].job = j
        /\ \A k \in DOMAIN seq : seq[k].job = j => f <= k
    BY FirstIsOne, FirstIsFirst
  <1>2. /\ DOMAIN seq = 1..Len(seq) /\ DOMAIN more = 1..Len(more)
        /\ Len(seq) \in Nat /\ Len(more) \in Nat
    OBVIOUS
  <1> HIDE DEF f
  <1>3. f \in DOMAIN more /\ more[f].job = j
        /\ \A k \in DOMAIN more : k < f => more[k].job # j
    BY <1>1, <1>2
  <1>4. FirstOf(more, j) = f
    BY <1>3, FirstIs
  <1>5. QED
    BY <1>1, <1>4 DEF f

\* Removing a row leaves a job as many rows, or one less if it was one of its
\* rows, and another job the first row it had.
LEMMA AtRemoved ==
    ASSUME NEW S, NEW seq \in Seq(S), NEW k \in 1..Len(seq), NEW j
    PROVE  LET q == RemoveAt(seq, k) IN
           /\ Cardinality(At(q, j)) <= Cardinality(At(seq, j))
           /\ seq[k].job = j => Cardinality(At(q, j)) <= Cardinality(At(seq, j)) - 1
           /\ seq[k].job # j /\ At(seq, j) # {} =>
                /\ At(q, j) # {}
                /\ q[FirstOf(q, j)] = seq[FirstOf(seq, j)]
  <1> DEFINE q == RemoveAt(seq, k)
             was(i) == IF i < k THEN i ELSE i + 1
  <1>1. /\ q \in Seq(S) /\ Len(q) = Len(seq) - 1
        /\ \A i \in 1..(Len(seq) - 1) :
             q[i] = IF i < k THEN seq[i] ELSE seq[i + 1]
    BY RemoveAtProps
  <1> HIDE DEF q
  <1>2. /\ DOMAIN q = 1..(Len(seq) - 1) /\ DOMAIN seq = 1..Len(seq)
        /\ Len(seq) \in Nat /\ k \in Nat
    BY <1>1
  <1>3. /\ \A i \in DOMAIN q : /\ was(i) \in DOMAIN seq /\ was(i) # k
                               /\ q[i] = seq[was(i)]
        /\ \A i, m \in DOMAIN q : was(i) = was(m) => i = m
        /\ \A i, m \in DOMAIN q : i < m => was(i) < was(m)
        /\ \A m \in DOMAIN seq \ {k} : \E i \in DOMAIN q : was(i) = m
    <2>1. \A m \in DOMAIN seq \ {k} : \E i \in DOMAIN q : was(i) = m
      <3>1. SUFFICES ASSUME NEW m \in DOMAIN seq \ {k}
                     PROVE  \E i \in DOMAIN q : was(i) = m
        OBVIOUS
      <3>2. CASE m < k
        BY <1>2, <3>2
      <3>3. CASE m > k
        <4>1. m - 1 \in DOMAIN q /\ was(m - 1) = m
          BY <1>2, <3>3
        <4>2. QED
          BY <4>1
      <3>4. QED
        BY <1>2, <3>2, <3>3
    <2>2. QED
      BY <1>1, <1>2, <2>1
  <1> HIDE DEF was
  <1> DEFINE A == At(seq, j) \ {k}
             f == [i \in At(q, j) |-> was(i)]
  <1>4. IsFiniteSet(At(seq, j)) /\ Cardinality(At(seq, j)) \in Nat
    BY AtFinite
  <1>5. IsFiniteSet(A) /\ Cardinality(A) = IF k \in At(seq, j)
                            THEN Cardinality(At(seq, j)) - 1
                            ELSE Cardinality(At(seq, j))
    BY <1>4, FS_RemoveElement
  <1>6. f \in Injection(At(q, j), A)
    <2>1. f \in [At(q, j) -> A]
      BY <1>3 DEF At
    <2>2. IsInjective(f)
      BY <1>3 DEF At, IsInjective
    <2>3. QED
      BY <2>1, <2>2 DEF Injection
  <1>7. Cardinality(At(q, j)) <= Cardinality(A) /\ IsFiniteSet(At(q, j))
    BY <1>5, <1>6, FS_Injection
  <1>8. Cardinality(At(q, j)) \in Nat
    BY <1>7, FS_CardinalityType
  <1>9. seq[k].job = j <=> k \in At(seq, j)
    BY <1>2 DEF At
  <1>10. ASSUME seq[k].job # j, At(seq, j) # {}
         PROVE  At(q, j) # {} /\ q[FirstOf(q, j)] = seq[FirstOf(seq, j)]
    <2> DEFINE g == FirstOf(seq, j)
    <2>1. /\ g \in DOMAIN seq /\ seq[g].job = j
          /\ \A m \in DOMAIN seq : seq[m].job = j => g <= m
      BY <1>10, FirstIsOne, FirstIsFirst DEF At
    <2> HIDE DEF g
    <2>2. PICK i \in DOMAIN q : was(i) = g
      BY <1>3, <1>10, <2>1
    <2>3. q[i].job = j /\ q[i] = seq[g]
      BY <1>3, <2>1, <2>2
    <2>4. ASSUME NEW m \in DOMAIN q, m < i PROVE q[m].job # j
      <3>1. was(m) < g /\ was(m) \in DOMAIN seq /\ q[m] = seq[was(m)]
        BY <1>3, <2>2, <2>4
      <3>2. QED
        BY <1>2, <2>1, <3>1
    <2>5. FirstOf(q, j) = i
      BY <1>1, <2>3, <2>4, FirstIs
    <2>6. QED
      BY <2>3, <2>5 DEF At, g
  <1>11. /\ Cardinality(At(q, j)) <= Cardinality(At(seq, j))
         /\ seq[k].job = j => Cardinality(At(q, j)) <= Cardinality(At(seq, j)) - 1
    <2>1. Cardinality(A) \in Nat
      BY <1>5, FS_CardinalityType
    <2> HIDE DEF A, f
    <2>2. QED
      BY <1>4, <1>5, <1>7, <1>8, <1>9, <2>1
  <1>12. QED
    BY <1>10, <1>11 DEF q

-----------------------------------------------------------------------------
(* Any subscriptions: how often a job can be listed, and for how long.     *)

\* The own subscription is made, or will be, and the process is up.
Hearing == phase \in {"new", "listed", "running"}

\* A job has a row, or will have one, for each subscription at most; when CUPS
\* is done with it, for each that still has to say so.  A job that is open is
\* listed, or the own subscription says so.
Count(j) ==
    /\ Cardinality(RowsOf(j)) + Cardinality(CreatedOn(j))
         <= Cardinality(Subscriptions)
    /\ Hearing /\ j \notin missed /\ StateOf(j) = "done"
         => Cardinality(RowsOf(j)) + Cardinality(CreatedOn(j))
              <= Cardinality(CompletedOn(j))
    /\ phase \in {"listed", "running"} /\ j \notin missed /\ StateOf(j) \in Open
         => HasRow(j) \/ Own \in CreatedOn(j)

Early ==
    /\ \A i \in DOMAIN rows : StateOf(rows[i].job) # "unknown"
    /\ phase = "new" => rows = <<>>
    /\ phase \in {"new", "listed"} => loads = {}

CountInv == Early /\ \A j \in Jobs : Count(j)

LEMMA Numbers ==
    ASSUME Typed, NEW j
    PROVE  /\ Cardinality(RowsOf(j)) \in Nat
           /\ Cardinality(RowsOf(j)) = 0 <=> ~HasRow(j)
           /\ IsFiniteSet(Subscriptions) /\ Cardinality(Subscriptions) \in Nat
           /\ Own \in Subscriptions
           /\ \A S \in SUBSET Subscriptions :
                IsFiniteSet(S) /\ Cardinality(S) \in Nat
                /\ Cardinality(S) <= Cardinality(Subscriptions)
           /\ CreatedOn(j) \subseteq Subscriptions
           /\ CompletedOn(j) \subseteq Subscriptions
  <1>1. /\ Cardinality(RowsOf(j)) \in Nat
        /\ Cardinality(RowsOf(j)) = 0 <=> ~HasRow(j)
    <2>1. rows \in Seq(Row)
      BY TypedParts
    <2>2. QED
      BY <2>1, AtFinite DEF RowsOf, HasRow
  <1>2. IsFiniteSet(Subscriptions) /\ Own \in Subscriptions
    BY JobAssumption DEF Typed, TypeOK, Subscriptions
  <1>3. ASSUME NEW S \in SUBSET Subscriptions
        PROVE  /\ IsFiniteSet(S) /\ Cardinality(S) \in Nat
               /\ Cardinality(S) <= Cardinality(Subscriptions)
    BY <1>2, FS_Subset, FS_CardinalityType
  <1>4. Cardinality(Subscriptions) \in Nat
    BY <1>2, FS_CardinalityType
  <1>5. QED
    BY <1>1, <1>2, <1>3, <1>4 DEF CreatedOn, CompletedOn

LEMMA SmallerSets ==
    ASSUME NEW S, IsFiniteSet(S), NEW T, T \subseteq S
    PROVE  /\ Cardinality(T) \in Nat /\ Cardinality(S) \in Nat
           /\ Cardinality(T) <= Cardinality(S)
  BY FS_Subset, FS_CardinalityType

\* A step that gives a job no row that no subscription owed, takes no signal of
\* its completion and leaves its state keeps its count.
LEMMA CountFollows ==
    ASSUME Typed, NEW j \in Jobs, Count(j), Subscriptions' = Subscriptions,
           StateOf(j)' = StateOf(j), j \in missed => j \in missed',
           \/ phase' = phase
           \/ phase = "listed" /\ phase' = "running"
           \/ phase' \notin {"new", "listed", "running"},
           Cardinality(RowsOf(j)') \in Nat,
           Cardinality(RowsOf(j)') <= Cardinality(RowsOf(j)),
           HasRow(j) => HasRow(j)',
           CreatedOn(j)' \subseteq CreatedOn(j),
           Own \in CreatedOn(j) => Own \in CreatedOn(j)' \/ HasRow(j)',
           CompletedOn(j) \subseteq CompletedOn(j)',
           CompletedOn(j)' \subseteq Subscriptions
    PROVE  Count(j)'
  <1> DEFINE R == Cardinality(RowsOf(j))
             C == Cardinality(CreatedOn(j))
             K == Cardinality(CompletedOn(j))
             N == Cardinality(Subscriptions)
             Rn == Cardinality(RowsOf(j)')
             Cn == Cardinality(CreatedOn(j)')
             Kn == Cardinality(CompletedOn(j)')
  <1>1. /\ R \in Nat /\ C \in Nat /\ K \in Nat /\ N \in Nat
        /\ IsFiniteSet(CreatedOn(j)) /\ IsFiniteSet(CompletedOn(j)')
    BY Numbers
  <1>2. Cn \in Nat /\ Cn <= C /\ Kn \in Nat /\ K <= Kn
    BY <1>1, SmallerSets
  <1>3. Rn \in Nat /\ Rn <= R
    OBVIOUS
  <1>4. /\ R + C <= N
        /\ Hearing /\ j \notin missed /\ StateOf(j) = "done" => R + C <= K
        /\ phase \in {"listed", "running"} /\ j \notin missed /\ StateOf(j) \in Open
             => HasRow(j) \/ Own \in CreatedOn(j)
    BY DEF Count
  <1> HIDE DEF R, C, K, N, Rn, Cn, Kn
  <1>5. Rn + Cn <= N /\ (R + C <= K => Rn + Cn <= Kn)
    BY <1>1, <1>2, <1>3, <1>4
  <1>6. Hearing' => Hearing
    BY DEF Hearing
  <1>7. Cardinality(RowsOf(j)') + Cardinality(CreatedOn(j)')
          <= Cardinality(Subscriptions')
    BY <1>5 DEF Rn, Cn, N
  <1>8. Hearing' /\ j \notin missed' /\ StateOf(j)' = "done"
          => Cardinality(RowsOf(j)') + Cardinality(CreatedOn(j)')
               <= Cardinality(CompletedOn(j)')
    BY <1>4, <1>5, <1>6 DEF Rn, Cn, Kn
  <1>9. phase' \in {"listed", "running"} /\ j \notin missed' /\ StateOf(j)' \in Open
          => HasRow(j)' \/ Own \in CreatedOn(j)'
    BY <1>4
  <1>10. QED
    BY <1>7, <1>8, <1>9 DEF Count

\* Rows that stay have the same places.
LEMMA KeptPlaces ==
    ASSUME Typed, KeepsRows, NEW j
    PROVE  RowsOf(j)' = RowsOf(j) /\ (HasRow(j)' <=> HasRow(j))
  BY DEF KeepsRows, RowsOf, At, HasRow

\* A step that keeps the rows and leaves CUPS and the signals alone, or takes
\* one that is not of a job's creation or completion.
LEMMA CountKept ==
    ASSUME Typed, FeedInv, CountInv, KeepsRows, UNCHANGED <<server, missed>>,
           \/ phase' = phase
           \/ phase = "listed" /\ phase' \in {"running", "deaf"}
           \/ phase' = "crashed",
           phase' \in {"new", "listed"} => UNCHANGED loads,
           \/ UNCHANGED bus
           \/ \E s \in Subscriptions : \E signal :
                Delivered(s, signal) /\ signal.kind \in {"State", "PrinterState"}
    PROVE  CountInv'
  <1>1. Jobs' = Jobs /\ \A j \in Jobs : StateOf(j)' = StateOf(j)
    BY DEF Jobs, StateOf
  <1>2. ASSUME NEW j \in Jobs
        PROVE  /\ Subscriptions' = Subscriptions
               /\ CreatedOn(j)' = CreatedOn(j) /\ CompletedOn(j)' = CompletedOn(j)
    <2>1. CASE UNCHANGED bus
      BY <2>1 DEF CreatedOn, CompletedOn, Subscriptions, Creates, Completes
    <2>2. ASSUME NEW s \in Subscriptions, NEW signal, Delivered(s, signal),
                 signal.kind \in {"State", "PrinterState"}
          PROVE  /\ Subscriptions' = Subscriptions
                 /\ CreatedOn(j)' = CreatedOn(j) /\ CompletedOn(j)' = CompletedOn(j)
      <3>1. Feed(s, j) /\ ~Creates(signal, j)
        BY <2>2 DEF FeedInv, Creates
      <3>2. signal.kind = "PrinterState" => ~Completes(signal, j)
        BY DEF Completes
      <3>3. signal.kind = "State" => ~Completes(signal, j)
        BY DEF Completes
      <3>4. QED
        BY <2>2, <3>1, <3>2, <3>3, SetsDelivered, AnyBusTail
    <2>3. QED
      BY <2>1, <2>2
  <1>3. ASSUME NEW j \in Jobs
        PROVE  Count(j)'
    <2>1. RowsOf(j)' = RowsOf(j) /\ (HasRow(j)' <=> HasRow(j))
      BY KeptPlaces
    <2>2. /\ Cardinality(RowsOf(j)) \in Nat /\ CompletedOn(j) \subseteq Subscriptions
      BY Numbers
    <2>3. Count(j)
      BY DEF CountInv
    <2>4. QED
      BY <1>1, <1>2, <2>1, <2>2, <2>3, CountFollows
  <1>4. Early'
    <2>1. ASSUME NEW i \in DOMAIN rows'
          PROVE  server'[rows'[i].job].report.state # "unknown"
      <3>1. i \in DOMAIN rows /\ rows'[i].job = rows[i].job
        BY DEF KeepsRows
      <3>2. PICK j \in Jobs : j = rows[i].job
        BY <3>1, RowsOfJobs
      <3>3. StateOf(j) # "unknown"
        BY <3>1, <3>2 DEF CountInv, Early
      <3>4. QED
        BY <3>1, <3>2, <3>3 DEF StateOf
    <2>2. phase' = "new" => rows' = <<>>
      <3>1. SUFFICES ASSUME phase' = "new" PROVE rows' = <<>>
        OBVIOUS
      <3>2. rows = <<>>
        BY <3>1 DEF CountInv, Early
      <3>3. DOMAIN rows' = {} /\ rows' \in Seq(Row)
        BY <3>2 DEF KeepsRows
      <3>4. QED
        BY <3>3
    <2>3. phase' \in {"new", "listed"} => loads' = {}
      BY DEF CountInv, Early
    <2>4. QED
      BY <2>1, <2>2, <2>3 DEF Early, StateOf
  <1>5. QED
    BY <1>1, <1>3, <1>4 DEF CountInv

\* What CUPS changes keeps the counts: a creation comes before any row, and
\* every subscription that was sent it is sent the completion.
LEMMA CountServer ==
    ASSUME Typed, FeedInv, CountInv, NEW j \in Jobs, NEW signal,
           Changes(j, signal)
    PROVE  CountInv'
  <1>1. /\ UNCHANGED <<phase, printers, active, loads, rows, stale>>
        /\ Jobs' = Jobs /\ Subscriptions' = Subscriptions
        /\ missed' = IF phase = "listed" THEN missed \union {j} ELSE missed
    BY SetsAnnounced DEF Changes
  <1>2. \A k \in Jobs : RowsOf(k)' = RowsOf(k) /\ (HasRow(k)' <=> HasRow(k))
    BY <1>1 DEF RowsOf, At, HasRow
  <1>3. ASSUME NEW k \in Jobs, k # j \/ signal.kind = "PrinterState"
        PROVE  Count(k)' /\ StateOf(k)' = StateOf(k)
    <2>1. StateOf(k)' = StateOf(k) /\ ~Creates(signal, k) /\ ~Completes(signal, k)
      BY <1>3 DEF Changes, Says, Creates, Completes
    <2>2. CreatedOn(k)' = CreatedOn(k) /\ CompletedOn(k)' = CompletedOn(k)
      <3>1. /\ CreatedOn(k)' = CreatedOn(k) \union
                 {s \in Subscriptions : Hears(s) /\ Creates(signal, k)}
            /\ CompletedOn(k)' = CompletedOn(k) \union
                 {s \in Subscriptions : Hears(s) /\ Completes(signal, k)}
        BY SetsAnnounced
      <3>2. QED
        BY <2>1, <3>1
    <2>3. Cardinality(RowsOf(k)) \in Nat /\ CompletedOn(k) \subseteq Subscriptions
      BY Numbers
    <2>4. Count(k) /\ (k \in missed => k \in missed')
      BY <1>1 DEF CountInv
    <2>5. /\ Cardinality(RowsOf(k)') \in Nat
          /\ Cardinality(RowsOf(k)') <= Cardinality(RowsOf(k))
      BY <1>2, <2>3
    <2>6. QED
      BY <1>1, <1>2, <2>1, <2>2, <2>3, <2>4, <2>5, CountFollows
  <1>4. ASSUME Says(signal, j)
        PROVE  Count(j)' /\ StateOf(j)' # "unknown"
    <2> DEFINE C == CreatedOn(j)
               K == CompletedOn(j)
               Cn == CreatedOn(j)'
               Kn == CompletedOn(j)'
               R == Cardinality(RowsOf(j))
               N == Cardinality(Subscriptions)
    <2>1. /\ R \in Nat /\ N \in Nat /\ Own \in Subscriptions
          /\ R = 0 <=> ~HasRow(j)
          /\ C \subseteq Subscriptions /\ K \subseteq Subscriptions
      BY Numbers
    <2>2. /\ Cn = C \union {s \in Subscriptions : Hears(s) /\ Creates(signal, j)}
          /\ Kn = K \union {s \in Subscriptions : Hears(s) /\ Completes(signal, j)}
      BY SetsAnnounced
    <2>3. \A S \in SUBSET Subscriptions :
            IsFiniteSet(S) /\ Cardinality(S) \in Nat /\ Cardinality(S) <= N
      BY Numbers
    <2>4. Count(j) /\ Early
      BY DEF CountInv
    <2>5. StateOf(j)' # "unknown"
      BY <1>4 DEF Says, Open
    <2>6. SUFFICES
            /\ R + Cardinality(Cn) <= N
            /\ Hearing /\ j \notin missed' /\ StateOf(j)' = "done"
                 => R + Cardinality(Cn) <= Cardinality(Kn)
            /\ phase \in {"listed", "running"} /\ j \notin missed'
                 /\ StateOf(j)' \in Open => HasRow(j) \/ Own \in Cn
      BY <1>1, <1>2, <2>5 DEF Count, Hearing
    <2>7. /\ R + Cardinality(C) <= N
          /\ phase \in {"listed", "running"} /\ j \notin missed
               /\ StateOf(j) \in Open => HasRow(j) \/ Own \in C
      BY <2>4 DEF Count
    <2> HIDE DEF C, K, Cn, Kn, R, N
    <2>8. CASE signal.kind = "Created"
      <3>1. StateOf(j) = "unknown" /\ StateOf(j)' \in Open /\ Creates(signal, j)
        BY <1>4, <2>8 DEF Says, Creates
      <3>2. R = 0
        BY <2>1, <2>4, <3>1 DEF Early, HasRow
      <3>3. R + Cardinality(Cn) <= N
        BY <2>1, <2>2, <2>3, <3>2
      <3>4. phase = "running" => Own \in Cn
        BY <2>1, <2>2, <3>1 DEF Hears
      <3>5. phase = "listed" => j \in missed'
        BY <1>1
      <3>6. QED
        BY <3>1, <3>3, <3>4, <3>5 DEF Open
    <2>9. CASE signal.kind = "State"
      <3>1. StateOf(j) \in Open /\ StateOf(j)' \in Open
            /\ ~Creates(signal, j)
        BY <1>4, <2>9 DEF Says, Creates
      <3>2. Cn = C
        BY <2>2, <3>1
      <3>3. j \notin missed' => j \notin missed
        BY <1>1
      <3>4. QED
        BY <2>7, <3>1, <3>2, <3>3 DEF Open
    <2>10. CASE signal.kind = "Completed"
      <3>1. StateOf(j)' = "done" /\ ~Creates(signal, j) /\ Completes(signal, j)
        BY <1>4, <2>10 DEF Says, Creates, Completes
      <3>2. Cn = C /\ Kn = K \union {s \in Subscriptions : Hears(s)}
        BY <2>2, <3>1
      <3>3. ASSUME phase = "running"
            PROVE  R + Cardinality(Cn) <= Cardinality(Kn)
        <4>1. Kn = Subscriptions
          BY <2>1, <3>2, <3>3 DEF Hears
        <4>2. QED
          BY <2>7, <3>2, <4>1 DEF N
      <3>4. ASSUME phase = "new"
            PROVE  R + Cardinality(Cn) <= Cardinality(Kn)
        <4>1. R = 0
          <5>1. rows = <<>>
            BY <2>4, <3>4 DEF Early
          <5>2. QED
            BY <2>1, <5>1 DEF HasRow
        <4>2. Own \notin C
          <5>1. bus[Own] = <<>>
            BY <3>4 DEF FeedInv
          <5>2. QED
            BY <5>1 DEF C, CreatedOn
        <4>3. C \subseteq Kn
          BY <2>1, <3>2, <4>2 DEF Hears
        <4>4. IsFiniteSet(Kn)
          BY <2>1, <2>3, <3>2
        <4>5. Cardinality(C) \in Nat /\ Cardinality(C) <= Cardinality(Kn)
              /\ Cardinality(Kn) \in Nat
          BY <4>3, <4>4, SmallerSets
        <4>6. QED
          BY <3>2, <4>1, <4>5
      <3>5. phase = "listed" => j \in missed'
        BY <1>1
      <3>6. QED
        BY <2>7, <3>1, <3>2, <3>3, <3>4, <3>5 DEF Hearing, Open
    <2>11. QED
      BY <1>4, <2>8, <2>9, <2>10 DEF Says
  <1>5. \A k \in Jobs : Count(k)'
    BY <1>3, <1>4 DEF Changes
  <1>6. Early'
    <2>1. ASSUME NEW i \in DOMAIN rows
          PROVE  server'[rows[i].job].report.state # "unknown"
      <3>1. PICK k \in Jobs : k = rows[i].job
        BY RowsOfJobs
      <3>2. StateOf(k) # "unknown"
        BY <3>1 DEF CountInv, Early
      <3>3. StateOf(k)' # "unknown"
        BY <1>3, <1>4, <3>2 DEF Changes
      <3>4. QED
        BY <3>1, <3>3 DEF StateOf
    <2>2. QED
      BY <1>1, <2>1 DEF Early, CountInv, StateOf
  <1>7. QED
    BY <1>1, <1>5, <1>6 DEF CountInv

\* The row a creation adds is owed by its subscription no more.
LEMMA CountCreated ==
    ASSUME Typed, FeedInv, CountInv, NEW s \in Subscriptions, NEW signal,
           JobCreated(s, signal)
    PROVE  CountInv'
  <1> DEFINE j == signal.job
             n == Len(rows) + 1
  <1>1. /\ Delivered(s, signal) /\ signal.kind = "Created" /\ signal \in JobSignal
        /\ AddsRow(j)
    BY SignalTypes, CreatedTypes DEF JobCreated
  <1>2. j \in Jobs
    BY <1>1 DEF JobSignal
  <1>3. /\ Subscriptions' = Subscriptions /\ Jobs' = Jobs
        /\ Up /\ UNCHANGED <<phase, server, missed>>
        /\ signal = bus[s][1] /\ 1 \in DOMAIN bus[s]
    BY <1>1, AnyBusTail
  <1>4. \A k \in Jobs : StateOf(k)' = StateOf(k)
    BY <1>3 DEF StateOf
  <1>5. /\ DOMAIN rows = 1..Len(rows) /\ Len(rows) \in Nat
        /\ DOMAIN rows' = 1..n /\ rows'[n].job = j
        /\ \A i \in DOMAIN rows : rows'[i].job = rows[i].job
    <2>1. rows \in Seq(Row)
      BY TypedParts
    <2>2. QED
      BY <1>1, <2>1 DEF AddsRow
  <1>6. StateOf(j) # "unknown"
    <2>1. Feed(s, j)
      BY <1>2 DEF FeedInv
    <2>2. QED
      BY <1>1, <1>3, <2>1 DEF Feed, Of
  <1>7. ASSUME NEW k \in Jobs, k # j
        PROVE  Count(k)'
    <2>1. ~Creates(signal, k) /\ ~Completes(signal, k) /\ Feed(s, k)
      BY <1>7 DEF Creates, Completes, FeedInv
    <2>2. CreatedOn(k)' = CreatedOn(k) /\ CompletedOn(k)' = CompletedOn(k)
      BY <1>1, <2>1, SetsDelivered
    <2>3. RowsOf(k)' = RowsOf(k) /\ (HasRow(k)' <=> HasRow(k))
      BY <1>5, <1>7 DEF RowsOf, At, HasRow
    <2>4. Cardinality(RowsOf(k)) \in Nat /\ CompletedOn(k) \subseteq Subscriptions
      BY Numbers
    <2>5. Count(k)
      BY DEF CountInv
    <2>6. /\ Cardinality(RowsOf(k)') \in Nat
          /\ Cardinality(RowsOf(k)') <= Cardinality(RowsOf(k))
      BY <2>3, <2>4
    <2>7. QED
      BY <1>3, <1>4, <2>2, <2>3, <2>4, <2>5, <2>6, CountFollows
  <1>8. Count(j)'
    <2> DEFINE C == CreatedOn(j)
               K == CompletedOn(j)
               R == Cardinality(RowsOf(j))
               N == Cardinality(Subscriptions)
    <2>1. Creates(signal, j) /\ ~Completes(signal, j) /\ Feed(s, j)
      BY <1>1, <1>2 DEF Creates, Completes, FeedInv
    <2>2. s \in C /\ CreatedOn(j)' = C \ {s} /\ CompletedOn(j)' = K
      BY <1>1, <1>2, <2>1, SetsDelivered
    <2>3. R \in Nat /\ N \in Nat /\ C \subseteq Subscriptions
          /\ Cardinality(C) \in Nat /\ IsFiniteSet(C)
      BY Numbers
    <2>4. Cardinality(CreatedOn(j)') = Cardinality(C) - 1
      BY <2>2, <2>3, FS_RemoveElement
    <2>5. RowsOf(j)' = RowsOf(j) \union {n} /\ n \notin RowsOf(j) /\ HasRow(j)'
      BY <1>5 DEF RowsOf, At, HasRow
    <2>6. IsFiniteSet(RowsOf(j))
      <3>1. rows \in Seq(Row)
        BY TypedParts
      <3>2. QED
        BY <3>1, AtFinite DEF RowsOf
    <2>7. Cardinality(RowsOf(j)') = R + 1
      BY <2>5, <2>6, FS_AddElement
    <2>8. /\ R + Cardinality(C) <= N
          /\ Hearing /\ j \notin missed /\ StateOf(j) = "done"
               => R + Cardinality(C) <= Cardinality(K)
      BY <1>2 DEF CountInv, Count
    <2> HIDE DEF C, K, R, N
    <2>9. (R + 1) + (Cardinality(C) - 1) = R + Cardinality(C)
      BY <2>3
    <2>10. /\ (R + 1) + (Cardinality(C) - 1) <= N
           /\ Hearing' /\ j \notin missed' /\ StateOf(j)' = "done"
                => (R + 1) + (Cardinality(C) - 1) <= Cardinality(K)
      BY <1>2, <1>3, <1>4, <2>8, <2>9 DEF Hearing
    <2>11. /\ Cardinality(RowsOf(j)') + Cardinality(CreatedOn(j)')
                <= Cardinality(Subscriptions')
           /\ Hearing' /\ j \notin missed' /\ StateOf(j)' = "done"
                => Cardinality(RowsOf(j)') + Cardinality(CreatedOn(j)')
                     <= Cardinality(CompletedOn(j)')
      BY <1>3, <2>2, <2>4, <2>7, <2>10 DEF N
    <2>12. QED
      BY <2>5, <2>11 DEF Count
  <1>9. Early'
    <2>1. ASSUME NEW i \in DOMAIN rows'
          PROVE  server'[rows'[i].job].report.state # "unknown"
      <3>1. CASE i = n
        BY <1>2, <1>4, <1>5, <1>6, <3>1 DEF StateOf
      <3>2. CASE i # n
        <4>1. i \in DOMAIN rows /\ rows'[i].job = rows[i].job
          BY <1>5, <3>2
        <4>2. StateOf(rows[i].job) # "unknown"
          BY <4>1 DEF CountInv, Early
        <4>3. QED
          BY <1>3, <4>1, <4>2 DEF StateOf
      <3>3. QED
        BY <3>1, <3>2
    <2>2. phase' \notin {"new", "listed"}
      BY <1>3 DEF Up
    <2>3. QED
      BY <2>1, <2>2 DEF Early, StateOf
  <1>10. QED
    BY <1>3, <1>7, <1>8, <1>9 DEF CountInv

\* A completion takes a row away, or finds that none is left and none owed but
\* by subscriptions that have a completion as well.
LEMMA CountCompleted ==
    ASSUME Typed, FeedInv, CountInv, NEW s \in Subscriptions, NEW signal,
           JobCompleted(s, signal)
    PROVE  CountInv'
  <1> DEFINE j == signal.job
             at == FirstOf(rows, j)
  <1>1. /\ Delivered(s, signal) /\ signal.kind = "Completed" /\ signal \in JobSignal
        /\ \/ HasRow(j) /\ rows' = RemoveAt(rows, at)
           \/ ~HasRow(j) /\ UNCHANGED rows
    BY SignalTypes DEF JobCompleted
  <1>2. j \in Jobs
    BY <1>1 DEF JobSignal
  <1>3. /\ Subscriptions' = Subscriptions /\ Jobs' = Jobs
        /\ Up /\ UNCHANGED <<phase, server, missed>>
    BY <1>1, AnyBusTail
  <1>4. \A k \in Jobs : StateOf(k)' = StateOf(k)
    BY <1>3 DEF StateOf
  <1>5. rows \in Seq(Row)
    BY TypedParts
  <1>6. HasRow(j) => at \in 1..Len(rows) /\ rows[at].job = j
    BY <1>5, RowOfJob DEF RowOf
  <1> HIDE DEF at
  <1>7. ASSUME NEW k \in Jobs
        PROVE  /\ Cardinality(RowsOf(k)') \in Nat
               /\ Cardinality(RowsOf(k)') <= Cardinality(RowsOf(k))
               /\ k = j /\ HasRow(j)
                    => Cardinality(RowsOf(k)') <= Cardinality(RowsOf(k)) - 1
               /\ k # j /\ HasRow(k) => HasRow(k)'
    <2>1. Cardinality(RowsOf(k)) \in Nat
      BY Numbers
    <2>2. CASE ~HasRow(j)
      BY <1>1, <2>1, <2>2 DEF RowsOf, At, HasRow
    <2>3. CASE HasRow(j)
      <3>1. rows' = RemoveAt(rows, at) /\ at \in 1..Len(rows) /\ rows[at].job = j
        BY <1>1, <1>6, <2>3
      <3> DEFINE q == RemoveAt(rows, at)
      <3>2. /\ Cardinality(At(q, k)) <= Cardinality(At(rows, k))
            /\ rows[at].job = k
                 => Cardinality(At(q, k)) <= Cardinality(At(rows, k)) - 1
            /\ rows[at].job # k /\ At(rows, k) # {} => At(q, k) # {}
        BY <1>5, <3>1, AtRemoved
      <3>3. Cardinality(At(q, k)) \in Nat
        <4>1. q \in Seq(Row)
          BY <1>5, <3>1, RemoveAtProps
        <4>2. QED
          BY <4>1, AtFinite
      <3>4. RowsOf(k)' = At(q, k) /\ RowsOf(k) = At(rows, k)
        BY <3>1 DEF RowsOf, At
      <3>5. (HasRow(k) <=> At(rows, k) # {}) /\ (HasRow(k)' <=> At(q, k) # {})
        BY <3>1 DEF HasRow, At
      <3> HIDE DEF q
      <3>6. QED
        BY <3>1, <3>2, <3>3, <3>4, <3>5
    <2>4. QED
      BY <2>2, <2>3
  <1>8. ASSUME NEW k \in Jobs, k # j
        PROVE  Count(k)'
    <2>1. ~Creates(signal, k) /\ ~Completes(signal, k) /\ Feed(s, k)
      BY <1>8 DEF Creates, Completes, FeedInv
    <2>2. CreatedOn(k)' = CreatedOn(k) /\ CompletedOn(k)' = CompletedOn(k)
      BY <1>1, <2>1, SetsDelivered
    <2>3. CompletedOn(k) \subseteq Subscriptions
      BY Numbers
    <2>4. Count(k)
      BY DEF CountInv
    <2>5. QED
      BY <1>3, <1>4, <1>7, <1>8, <2>2, <2>3, <2>4, CountFollows
  <1>9. Count(j)'
    <2> DEFINE C == CreatedOn(j)
               K == CompletedOn(j)
               Kn == CompletedOn(j)'
               R == Cardinality(RowsOf(j))
               Rn == Cardinality(RowsOf(j)')
               N == Cardinality(Subscriptions)
    <2>1. ~Creates(signal, j) /\ Completes(signal, j) /\ Feed(s, j)
      BY <1>1, <1>2 DEF Creates, Completes, FeedInv
    <2>2. /\ CreatedOn(j)' = C /\ K \ {s} \subseteq Kn
          /\ s \notin C /\ StateOf(j) = "done"
      BY <1>1, <1>2, <2>1, SetsDelivered
    <2>3. /\ R \in Nat /\ N \in Nat /\ C \subseteq Subscriptions
          /\ K \subseteq Subscriptions
          /\ Cardinality(C) \in Nat /\ Cardinality(K) \in Nat /\ IsFiniteSet(K)
          /\ R = 0 <=> ~HasRow(j)
      BY Numbers
    <2>4. Rn \in Nat /\ Rn <= R /\ (HasRow(j) => Rn <= R - 1)
      BY <1>2, <1>7
    <2>5. Kn \subseteq Subscriptions
      BY <1>3 DEF CompletedOn
    <2>6. IsFiniteSet(Kn) /\ Cardinality(Kn) \in Nat
      BY <2>5, Numbers
    <2>7. /\ R + Cardinality(C) <= N
          /\ Hearing /\ j \notin missed /\ StateOf(j) = "done"
               => R + Cardinality(C) <= Cardinality(K)
      BY <1>2 DEF CountInv, Count
    <2>8. Cardinality(K \ {s}) <= Cardinality(Kn)
          /\ Cardinality(K) - 1 <= Cardinality(K \ {s})
      <3>1. /\ IsFiniteSet(K \ {s})
            /\ Cardinality(K \ {s}) =
                 IF s \in K THEN Cardinality(K) - 1 ELSE Cardinality(K)
        BY <2>3, FS_RemoveElement
      <3>2. Cardinality(K \ {s}) <= Cardinality(Kn)
        BY <2>2, <2>6, SmallerSets
      <3> HIDE DEF K, Kn
      <3>3. QED
        BY <2>3, <3>1, <3>2
    <2>9. C \subseteq Kn
      <3>1. SUFFICES ASSUME NEW t \in C PROVE t \in Kn
        OBVIOUS
      <3>2. PICK i \in DOMAIN bus[t] : Creates(bus[t][i], j)
        BY DEF C, CreatedOn
      <3>3. t \in Subscriptions /\ Of(bus[t][i], j)
        BY <3>2 DEF C, CreatedOn, Creates, Of
      <3>4. Feed(t, j)
        BY <1>2, <3>3 DEF FeedInv
      <3>5. \E m \in DOMAIN bus[t] : Completes(bus[t][m], j)
        BY <2>2, <3>2, <3>3, <3>4 DEF Feed
      <3>6. t \in K
        BY <3>3, <3>5 DEF K, CompletedOn
      <3>7. QED
        BY <2>2, <3>6
    <2>10. Cardinality(C) <= Cardinality(Kn)
      BY <2>6, <2>9, SmallerSets
    <2> HIDE DEF C, K, Kn, R, Rn, N
    <2>11. Rn + Cardinality(C) <= N
      BY <2>3, <2>4, <2>7
    <2>12. Hearing /\ j \notin missed => Rn + Cardinality(C) <= Cardinality(Kn)
      <3>1. CASE HasRow(j)
        <4>1. Cardinality(K \ {s}) \in Nat
          BY <2>3, FS_RemoveElement, FS_CardinalityType
        <4>2. QED
          BY <2>2, <2>3, <2>4, <2>6, <2>7, <2>8, <3>1, <4>1
      <3>2. CASE ~HasRow(j)
        BY <2>3, <2>4, <2>6, <2>10, <3>2
      <3>3. QED
        BY <3>1, <3>2
    <2>13. /\ Cardinality(RowsOf(j)') + Cardinality(CreatedOn(j)')
                <= Cardinality(Subscriptions')
           /\ Hearing' /\ j \notin missed' /\ StateOf(j)' = "done"
                => Cardinality(RowsOf(j)') + Cardinality(CreatedOn(j)')
                     <= Cardinality(CompletedOn(j)')
      BY <1>3, <2>2, <2>11, <2>12 DEF Hearing, N, Rn, Kn
    <2>14. StateOf(j)' \notin Open
      BY <1>2, <1>4, <2>2 DEF Open
    <2>15. QED
      BY <2>13, <2>14 DEF Count
  <1>10. Early'
    <2>1. \A i \in DOMAIN rows' : \E k \in DOMAIN rows : rows'[i] = rows[k]
      <3>1. CASE UNCHANGED rows
        BY <3>1
      <3>2. CASE HasRow(j) /\ rows' = RemoveAt(rows, at)
        <4>1. /\ Len(rows) \in Nat /\ DOMAIN rows = 1..Len(rows)
              /\ DOMAIN rows' = 1..(Len(rows) - 1)
              /\ \A i \in 1..(Len(rows) - 1) :
                   rows'[i] = IF i < at THEN rows[i] ELSE rows[i + 1]
          <5>1. at \in 1..Len(rows) /\ Len(rows) \in Nat
                /\ DOMAIN rows = 1..Len(rows)
            BY <1>5, <1>6, <3>2
          <5> DEFINE q == RemoveAt(rows, at)
          <5>2. /\ q \in Seq(Row) /\ Len(q) = Len(rows) - 1
                /\ \A i \in 1..(Len(rows) - 1) :
                     q[i] = IF i < at THEN rows[i] ELSE rows[i + 1]
            BY <1>5, <5>1, RemoveAtProps
          <5>3. rows' = q
            BY <3>2
          <5> HIDE DEF q
          <5>4. DOMAIN q = 1..(Len(rows) - 1)
            BY <5>2
          <5>5. QED
            BY <5>1, <5>2, <5>3, <5>4
        <4>2. QED
          BY <4>1
      <3>3. QED
        BY <1>1, <3>1, <3>2
    <2>2. ASSUME NEW i \in DOMAIN rows'
          PROVE  server'[rows'[i].job].report.state # "unknown"
      <3>1. PICK k \in DOMAIN rows : rows'[i] = rows[k]
        BY <2>1
      <3>2. StateOf(rows[k].job) # "unknown"
        BY DEF CountInv, Early
      <3>3. QED
        BY <1>3, <3>1, <3>2 DEF StateOf
    <2>3. phase' \notin {"new", "listed"}
      BY <1>3 DEF Up
    <2>4. QED
      BY <2>2, <2>3 DEF Early, StateOf
  <1>11. QED
    BY <1>3, <1>8, <1>9, <1>10 DEF CountInv

\* The listing has a row for every open job.
LEMMA ListsOpen ==
    ASSUME Typed, ListJobs, NEW j \in Jobs, StateOf(j) \in Open
    PROVE  \E i \in DOMAIN rows' : rows'[i].job = j
  <1> DEFINE open == {k \in Jobs : StateOf(k) \in Open}
             n == Cardinality(open)
  <1>1. PICK order \in SetToSeqs(open) :
          rows' = [i \in DOMAIN order |->
                     NewRow(order[i], [state |-> StateOf(order[i]), pages |-> 0])]
    BY DEF ListJobs
  <1>2. IsFiniteSet(open) /\ n \in Nat
    <2>1. IsFiniteSet(Jobs)
      BY JobAssumption DEF Typed, TypeOK, Jobs
    <2>2. QED
      BY <2>1, FS_Subset, FS_CardinalityType
  <1>3. /\ order \in [1..n -> open]
        /\ \A i, k \in 1..n : i # k => order[i] # order[k]
    BY <1>1 DEF SetToSeqs
  <1>4. j \in open
    OBVIOUS
  <1> HIDE DEF open, n
  <1>5. order \in Injection(1..n, open)
    BY <1>3 DEF Injection, IsInjective
  <1>6. Cardinality(1..n) = n
    <2>1. Cardinality(1..n) = IF 1 > n THEN 0 ELSE n - 1 + 1
      BY <1>2, FS_Interval
    <2>2. QED
      BY <1>2, <2>1
  <1>7. order \in Surjection(1..n, open)
    BY <1>2, <1>5, <1>6, FS_Injection DEF n
  <1>8. PICK i \in 1..n : order[i] = j
    BY <1>4, <1>7 DEF Surjection
  <1>9. i \in DOMAIN order
    BY <1>3
  <1>10. i \in DOMAIN rows' /\ rows'[i].job = j
    BY <1>1, <1>8, <1>9 DEF NewRow
  <1>11. QED
    BY <1>10

\* The listing comes before the own subscription, so it owes no row yet.
LEMMA CountListJobs ==
    ASSUME Typed, FeedInv, CountInv, ListJobs
    PROVE  CountInv'
  <1>1. /\ phase = "new" /\ phase' = "listed"
        /\ UNCHANGED <<server, bus, loads, missed>>
    BY DEF ListJobs
  <1>2. /\ Jobs' = Jobs /\ Subscriptions' = Subscriptions
        /\ \A j \in Jobs : /\ StateOf(j)' = StateOf(j)
                           /\ CreatedOn(j)' = CreatedOn(j)
                           /\ CompletedOn(j)' = CompletedOn(j)
    BY <1>1 DEF Jobs, Subscriptions, StateOf, CreatedOn, CompletedOn, Creates,
                Completes
  <1>3. /\ Typed'
        /\ \A i \in DOMAIN rows' : StateOf(rows'[i].job) \in Open
        /\ \A i, k \in DOMAIN rows' : rows'[i].job = rows'[k].job => i = k
    BY ListJobsTypes
  <1>4. rows' \in Seq(Row')
    BY <1>3 DEF Typed, TypeOK
  <1>5. ASSUME NEW j \in Jobs
        PROVE  Count(j)'
    <2> DEFINE C == CreatedOn(j)
               K == CompletedOn(j)
               R == Cardinality(RowsOf(j))
               Rn == Cardinality(RowsOf(j)')
               N == Cardinality(Subscriptions)
    <2>1. /\ R \in Nat /\ N \in Nat /\ Own \in Subscriptions
          /\ IsFiniteSet(Subscriptions)
          /\ Cardinality(C) \in Nat /\ Cardinality(K) \in Nat
          /\ C \subseteq Subscriptions
      BY Numbers
    <2>2. RowsOf(j)' = At(rows', j) /\ (HasRow(j)' <=> At(rows', j) # {})
      BY DEF RowsOf, At, HasRow
    <2>3. Rn \in Nat /\ IsFiniteSet(At(rows', j))
          /\ (Rn = 0 <=> \A i \in DOMAIN rows' : rows'[i].job # j)
      BY <1>4, <2>2, AtFinite
    <2>4. Rn <= 1
      <3>1. CASE At(rows', j) = {}
        BY <2>2, <2>3, <3>1 DEF At
      <3>2. CASE At(rows', j) # {}
        <4>1. PICK i : i \in At(rows', j)
          BY <3>2
        <4>2. At(rows', j) = {i}
          BY <1>3, <4>1 DEF At
        <4>3. Cardinality({i}) = 1
          BY FS_Singleton
        <4>4. QED
          BY <2>2, <4>2, <4>3
      <3>3. QED
        BY <3>1, <3>2
    <2>5. Cardinality(C) <= N - 1
      <3>1. bus[Own] = <<>>
        BY <1>1 DEF FeedInv
      <3>2. C \subseteq Subscriptions \ {Own}
        BY <2>1, <3>1 DEF CreatedOn
      <3>3. IsFiniteSet(Subscriptions \ {Own})
            /\ Cardinality(Subscriptions \ {Own}) = N - 1
        BY <2>1, FS_RemoveElement
      <3> HIDE DEF C, N
      <3>4. QED
        BY <3>2, <3>3, SmallerSets
    <2>6. StateOf(j) = "done" => Rn = 0
      BY <1>3, <2>3 DEF Open
    <2>7. Hearing /\ j \notin missed /\ StateOf(j) = "done"
            => R + Cardinality(C) <= Cardinality(K)
      BY DEF CountInv, Count
    <2>8. StateOf(j) \in Open => HasRow(j)'
      BY ListsOpen, <2>2 DEF At
    <2> HIDE DEF C, K, R, Rn, N
    <2>9. /\ Rn + Cardinality(C) <= N
          /\ j \notin missed /\ StateOf(j) = "done"
               => Rn + Cardinality(C) <= Cardinality(K)
      BY <1>1, <2>1, <2>3, <2>4, <2>5, <2>6, <2>7 DEF Hearing
    <2>10. /\ Cardinality(RowsOf(j)') + Cardinality(CreatedOn(j)')
                <= Cardinality(Subscriptions')
           /\ Hearing' /\ j \notin missed' /\ StateOf(j)' = "done"
                => Cardinality(RowsOf(j)') + Cardinality(CreatedOn(j)')
                     <= Cardinality(CompletedOn(j)')
      BY <1>1, <1>2, <2>9 DEF C, K, N, Rn
    <2>11. QED
      BY <1>2, <2>8, <2>10 DEF Count
  <1>6. Early'
    <2>1. ASSUME NEW i \in DOMAIN rows'
          PROVE  server'[rows'[i].job].report.state # "unknown"
      BY <1>1, <1>3 DEF StateOf, Open
    <2>2. phase' # "new" /\ loads' = {}
      BY <1>1 DEF CountInv, Early
    <2>3. QED
      BY <2>1, <2>2 DEF Early, StateOf
  <1>7. QED
    BY <1>2, <1>5, <1>6 DEF CountInv

LEMMA CountStep ==
    ASSUME Typed, FeedInv, CountInv, [Next]_vars
    PROVE  CountInv'
  <1>1. CASE UNCHANGED vars
    <2>1. UNCHANGED <<phase, server, bus, loads, rows, missed>>
      BY <1>1 DEF vars
    <2>2. KeepsRows
      BY <2>1, TypedParts DEF KeepsRows
    <2>3. QED
      BY <2>1, <2>2, CountKept
  <1>2. CASE ListJobs
    BY <1>2, CountListJobs
  <1>3. CASE Subscribe
    BY <1>3, SubscribeTypes, CountKept DEF Subscribe
  <1>4. ASSUME NEW j \in Jobs, Server(j)
        PROVE  CountInv'
    BY <1>4, ServerChanges, CountServer
  <1>5. ASSUME NEW l \in loads, LoadStep(l)
        PROVE  CountInv'
    <2>1. loads # {}
      OBVIOUS
    <2>2. phase \notin {"new", "listed"}
      BY <2>1 DEF CountInv, Early
    <2>3. /\ UNCHANGED <<server, bus, missed>>
          /\ phase' = phase \/ phase' = "crashed"
      BY <1>5 DEF LoadStep, LoaderReads, UpdateJob, OnJobLoaded
    <2>4. KeepsRows
      BY <1>5, LoadTypes
    <2>5. phase' \notin {"new", "listed"}
      BY <2>2, <2>3
    <2>6. QED
      BY <2>3, <2>4, <2>5, CountKept
  <1>6. ASSUME NEW s \in Subscriptions, NEW signal,
               JobState(s, signal) \/ PrinterSignalled(s, signal)
        PROVE  CountInv'
    <2>1. KeepsRows
      BY <1>6, StateTypes, LimiterTypes
    <2>2. Delivered(s, signal) /\ signal.kind \in {"State", "PrinterState"}
      BY <1>6 DEF JobState, PrinterSignalled
    <2>3. /\ phase' = phase /\ phase \notin {"new", "listed"}
          /\ UNCHANGED <<server, missed>>
      BY <2>2 DEF Delivered, Up
    <2>4. QED
      BY <2>1, <2>2, <2>3, CountKept
  <1>7. ASSUME NEW s \in Subscriptions, Deliver(s)
        PROVE  CountInv'
    <2> DEFINE signal == Head(bus[s])
    <2>1. JobCreated(s, signal) \/ JobState(s, signal) \/ JobCompleted(s, signal)
            \/ PrinterSignalled(s, signal)
      BY <1>7 DEF Deliver
    <2>2. PICK x : x = signal
      OBVIOUS
    <2> HIDE DEF signal
    <2>3. QED
      BY <1>6, <2>1, <2>2, CountCreated, CountCompleted
  <1>8. CASE LimiterEmits
    <2>1. KeepsRows
      BY <1>8, LimiterTypes
    <2>2. /\ phase' = phase /\ phase \notin {"new", "listed"}
          /\ UNCHANGED <<server, bus, missed>>
      BY <1>8 DEF LimiterEmits, Up
    <2>3. QED
      BY <2>1, <2>2, CountKept
  <1>9. ASSUME NEW p \in Printer, PrinterListed(p) \/ PrinterUnlisted(p)
        PROVE  CountInv'
    <2>1. KeepsRows
      BY <1>9, PrinterListedTypes, PrinterUnlistedTypes
    <2>2. /\ phase' = phase /\ phase \notin {"new", "listed"}
          /\ UNCHANGED <<server, bus, missed>>
      BY <1>9 DEF PrinterListed, PrinterUnlisted, Up
    <2>3. QED
      BY <2>1, <2>2, CountKept
  <1>10. QED
    BY <1>1, <1>2, <1>3, <1>4, <1>5, <1>7, <1>8, <1>9 DEF Next

LEMMA CountInit == Init => FeedInv /\ CountInv
  <1>1. SUFFICES ASSUME Init PROVE FeedInv /\ CountInv
    OBVIOUS
  <1>2. PICK w \in Worlds :
          /\ server = [j \in w.jobs |-> [report |-> Unread, changes |-> 0]]
          /\ bus = [s \in w.subscriptions |-> <<>>]
    BY <1>1 DEF Init
  <1>3. /\ \A s \in Subscriptions : bus[s] = <<>>
        /\ \A j \in Jobs : StateOf(j) = "unknown"
        /\ Own \in Subscriptions
    BY <1>2, JobAssumption DEF Subscriptions, Jobs, StateOf, Unread
  <1>4. \A s \in Subscriptions : DOMAIN bus[s] = {}
    BY <1>3
  <1>5. FeedInv
    BY <1>3, <1>4 DEF FeedInv, Feed
  <1>6. phase = "new" /\ rows = <<>> /\ loads = {} /\ DOMAIN rows = {}
    BY <1>1 DEF Init
  <1>7. ASSUME NEW j \in Jobs PROVE Count(j)
    <2>1. CreatedOn(j) = {} /\ RowsOf(j) = {}
      BY <1>4, <1>6 DEF CreatedOn, RowsOf, At
    <2>2. Cardinality({}) = 0
      BY FS_EmptySet
    <2>3. Cardinality(Subscriptions) \in Nat
      BY <1>1, TypedInit, Numbers
    <2>4. QED
      BY <1>3, <1>6, <2>1, <2>2, <2>3 DEF Count
  <1>8. QED
    BY <1>5, <1>6, <1>7 DEF CountInv, Early

LEMMA CountInvariant == Spec => [](Typed /\ FeedInv /\ CountInv)
  <1>1. FeedInv /\ CountInv /\ Typed /\ [Next]_vars => FeedInv' /\ CountInv'
    BY FeedStep, CountStep
  <1>2. QED
    BY <1>1, CountInit, TypedInvariant, PTL DEF Spec

\* jobCreated, jobmodel.cpp, which looks for no row: for any jobs, printers,
\* subscriptions and changes, a job has at most one row for each subscription.
THEOREM JobsListedOnce == Spec => []ListedOnce
  <1>1. Typed /\ CountInv => ListedOnce
    <2>1. SUFFICES ASSUME Typed, CountInv, NEW j \in Jobs
                   PROVE  Cardinality(RowsOf(j)) <= Cardinality(Subscriptions)
      BY DEF ListedOnce, RowsOf, At
    <2>2. Cardinality(RowsOf(j)) + Cardinality(CreatedOn(j))
            <= Cardinality(Subscriptions)
      BY <2>1 DEF CountInv, Count
    <2>3. /\ Cardinality(RowsOf(j)) \in Nat /\ Cardinality(CreatedOn(j)) \in Nat
          /\ Cardinality(Subscriptions) \in Nat
      BY <2>1, Numbers
    <2>4. QED
      BY <2>2, <2>3
  <1>2. QED
    BY <1>1, CountInvariant, PTL

\* jobCreated and jobCompleted, jobmodel.cpp, and the listing at start-up: for
\* any subscriptions, a job no signal of which is on its way has a row just
\* when it is open.
THEOREM ListedWhileJobOpen == Spec => []ListedWhileOpen
  <1>1. Typed /\ CountInv => ListedWhileOpen
    <2>1. SUFFICES ASSUME Typed, CountInv, NEW j \in Jobs \ missed,
                          phase = "running", ~Announced(j)
                   PROVE  HasRow(j) <=> StateOf(j) \in Open
      BY DEF ListedWhileOpen
    <2>2. Count(j)
      BY <2>1 DEF CountInv
    <2>3. CreatedOn(j) = {} /\ CompletedOn(j) = {}
      BY <2>1 DEF Announced, CreatedOn, CompletedOn, Creates, Completes
    <2>4. Cardinality({}) = 0
      BY FS_EmptySet
    <2>5. Cardinality(RowsOf(j)) \in Nat /\ (Cardinality(RowsOf(j)) = 0 <=> ~HasRow(j))
      BY <2>1, Numbers
    <2>6. StateOf(j) \in State
      BY <2>1 DEF Typed, TypeOK, StateOf, Jobs, Report
    <2>7. StateOf(j) = "unknown" => ~HasRow(j)
      BY <2>1 DEF CountInv, Early, HasRow
    <2>8. StateOf(j) = "done" => ~HasRow(j)
      BY <2>1, <2>2, <2>3, <2>4, <2>5 DEF Count, Hearing
    <2>9. StateOf(j) \in Open => HasRow(j)
      BY <2>1, <2>2, <2>3 DEF Count
    <2>10. QED
      BY <2>6, <2>7, <2>8, <2>9 DEF State
  <1>2. QED
    BY <1>1, CountInvariant, PTL

-----------------------------------------------------------------------------
(* Any subscriptions: the state a job's row shows.                         *)

\* What CUPS says of the job, or a signal that changes it is on its way, or
\* CUPS is done with it.
Right(j, state) ==
    state = StateOf(j) \/ Moving(j) \/ StateOf(j) = "done"

Shown(j) == Hearing /\ HasRow(j) => Right(j, RowOf(j).report.state)

\* A load that no signal has overtaken read what CUPS says.
Fresh(l) ==
    phase = "running" /\ l.stage = "queued" /\ ~l.overtaken
        /\ l.report.state # "unknown" => Right(l.job, l.report.state)

StateInv ==
    /\ \A j \in Jobs \ (stale \union missed) : Shown(j)
    /\ \A l \in loads : Fresh(l)

\* Rows stay where they are and go on saying what they say.
KeepsReports ==
    /\ rows' \in Seq(Row)
    /\ DOMAIN rows' = DOMAIN rows
    /\ \A i \in DOMAIN rows :
         rows'[i].job = rows[i].job /\ rows'[i].report = rows[i].report

\* Rows that stay, and more behind them, have the same first row of a job.
LEMMA FirstKept ==
    ASSUME Typed, NEW j, HasRow(j), rows' \in Seq(Row), Len(rows) <= Len(rows'),
           \A k \in DOMAIN rows : rows'[k].job = rows[k].job
    PROVE  /\ FirstOf(rows, j) \in DOMAIN rows
           /\ RowOf(j)' = rows'[FirstOf(rows, j)]
  <1> DEFINE more == rows'
  <1>1. rows \in Seq(Row) /\ more \in Seq(Row) /\ Len(rows) <= Len(more)
        /\ \A k \in DOMAIN rows : more[k].job = rows[k].job
    BY TypedParts
  <1>2. PICK i \in DOMAIN rows : rows[i].job = j
    BY DEF HasRow
  <1> HIDE DEF more
  <1>3. /\ FirstOf(more, j) = FirstOf(rows, j)
        /\ FirstOf(rows, j) \in DOMAIN rows
    BY <1>1, <1>2, SameFirst
  <1>4. RowOf(j)' = more[FirstOf(more, j)]
    BY DEF RowOf, more
  <1>5. QED
    BY <1>3, <1>4 DEF more

LEMMA KeptReports ==
    ASSUME Typed, KeepsReports, NEW j
    PROVE  /\ HasRow(j)' <=> HasRow(j)
           /\ HasRow(j) => RowOf(j)'.report = RowOf(j).report
  <1>1. HasRow(j)' <=> HasRow(j)
    BY DEF HasRow, KeepsReports
  <1>2. ASSUME HasRow(j) PROVE RowOf(j)'.report = RowOf(j).report
    <2>1. rows \in Seq(Row) /\ rows' \in Seq(Row) /\ DOMAIN rows' = DOMAIN rows
          /\ \A k \in DOMAIN rows : rows'[k].job = rows[k].job
      BY TypedParts DEF KeepsReports
    <2>2. Len(rows) <= Len(rows')
      BY <2>1
    <2>3. /\ RowOf(j)' = rows'[FirstOf(rows, j)]
          /\ FirstOf(rows, j) \in DOMAIN rows
      BY <1>2, <2>1, <2>2, FirstKept
    <2>4. QED
      BY <2>3 DEF RowOf, KeepsReports
  <1>3. QED
    BY <1>1, <1>2

\* A step that has the first row of one job say something else leaves what the
\* other jobs' first rows say.
LEMMA OtherReports ==
    ASSUME Typed, NEW j, HasRow(j), KeepsRows,
           \A i \in DOMAIN rows : i # FirstOf(rows, j) => rows'[i] = rows[i],
           NEW k, k # j
    PROVE  /\ HasRow(k)' <=> HasRow(k)
           /\ HasRow(k) => RowOf(k)'.report = RowOf(k).report
  <1>1. rows \in Seq(Row) /\ rows' \in Seq(Row) /\ DOMAIN rows' = DOMAIN rows
        /\ \A i \in DOMAIN rows : rows'[i].job = rows[i].job
    BY TypedParts DEF KeepsRows
  <1>2. HasRow(k)' <=> HasRow(k)
    BY <1>1 DEF HasRow
  <1>3. ASSUME HasRow(k) PROVE RowOf(k)'.report = RowOf(k).report
    <2>1. Len(rows) <= Len(rows')
      BY <1>1
    <2>2. /\ RowOf(k)' = rows'[FirstOf(rows, k)]
          /\ FirstOf(rows, k) \in DOMAIN rows
      BY <1>1, <1>3, <2>1, FirstKept
    <2>3. RowOf(k).job = k /\ RowOf(j).job = j
      BY <1>3, RowOfJob
    <2>4. FirstOf(rows, k) # FirstOf(rows, j)
      BY <2>3 DEF RowOf
    <2>5. QED
      BY <2>2, <2>4 DEF RowOf
  <1>4. QED
    BY <1>2, <1>3

\* A request adds loads that have not read anything yet.
LEMMA RequestStarts ==
    ASSUME NEW S, Request(S)
    PROVE  \A l \in loads' : l \in loads \/ l.stage = "started"
  BY DEF Request

LEMMA JobsAddedReports ==
    ASSUME NEW seq \in Seq(Row), NEW S, NEW listed, JobsAdded(seq, S, listed)
    PROVE  /\ DOMAIN rows' = DOMAIN seq
           /\ \A i \in DOMAIN seq : rows'[i].report = seq[i].report
           /\ \A l \in loads' : l \in loads \/ l.stage = "started"
  <1> DEFINE added == {j \in S : PrinterOf[j] \in listed}
             row(i) == IF seq[i].job \in added /\ i = FirstOf(seq, seq[i].job)
                       THEN [seq[i] EXCEPT !.printer = "listed"] ELSE seq[i]
  <1>1. rows' = [i \in DOMAIN seq |-> row(i)] /\ Request(added)
    BY DEF JobsAdded
  <1>2. \A i \in DOMAIN seq : seq[i] \in Row
    OBVIOUS
  <1>3. \A i \in DOMAIN seq : row(i).report = seq[i].report
    BY <1>2 DEF Row
  <1> HIDE DEF row, added
  <1>4. QED
    BY <1>1, <1>3, RequestStarts

LEMMA AddedKeepsReports ==
    ASSUME Typed, KeepsRows, NEW S, NEW listed, JobsAdded(rows, S, listed)
    PROVE  /\ KeepsReports
           /\ \A l \in loads' : l \in loads \/ l.stage = "started"
  <1>1. rows \in Seq(Row)
    BY TypedParts
  <1>2. QED
    BY <1>1, JobsAddedReports DEF KeepsRows, KeepsReports

\* What is right stays so while CUPS changes nothing and its signals of the
\* job's state are left.
LEMMA StaysRight ==
    ASSUME NEW j, NEW state, StateOf(j)' = StateOf(j), Moving(j) => Moving(j)',
           Right(j, state)
    PROVE  Right(j, state)'
  BY DEF Right

\* A job whose row says what it said is shown as rightly as before.
LEMMA ShownKept ==
    ASSUME NEW j, StateOf(j)' = StateOf(j), Moving(j) => Moving(j)',
           Hearing' => Hearing, Shown(j),
           HasRow(j)' => HasRow(j) /\ RowOf(j)'.report = RowOf(j).report
    PROVE  Shown(j)'
  <1>1. SUFFICES ASSUME Hearing', HasRow(j)'
                 PROVE  Right(j, RowOf(j).report.state)'
    BY DEF Shown
  <1>2. PICK state : state = RowOf(j).report.state
    OBVIOUS
  <1>3. Right(j, state)'
    BY <1>1, <1>2, StaysRight DEF Shown
  <1>4. RowOf(j)'.report.state = state
    BY <1>1, <1>2
  <1>5. QED
    BY <1>3, <1>4 DEF Right

LEMMA FreshKept ==
    ASSUME Typed, NEW l \in loads, Fresh(l), UNCHANGED server,
           \A j \in Jobs : Moving(j) => Moving(j)',
           phase' = "running" => phase = "running"
    PROVE  Fresh(l)'
  <1>1. l.job \in Jobs /\ StateOf(l.job)' = StateOf(l.job)
    BY TypedParts DEF LoadsTyped, Load, StateOf
  <1>2. QED
    BY <1>1, StaysRight DEF Fresh

\* A step that leaves the rows' reports alone and reads nothing.
LEMMA StateKept ==
    ASSUME Typed, StateInv, KeepsReports, UNCHANGED <<server, missed, stale>>,
           Hearing' => Hearing,
           \A j \in Jobs : Moving(j) => Moving(j)',
           \A l \in loads' : phase' = "running" /\ l.stage = "queued"
                                => l \in loads /\ phase = "running"
    PROVE  StateInv'
  <1>1. Jobs' = Jobs /\ \A j \in Jobs : StateOf(j)' = StateOf(j)
    BY DEF Jobs, StateOf
  <1>2. ASSUME NEW j \in Jobs, j \notin stale \union missed
        PROVE  Shown(j)'
    BY <1>1, <1>2, KeptReports, ShownKept DEF StateInv
  <1>3. ASSUME NEW l \in loads'
        PROVE  Fresh(l)'
    <2>1. CASE phase' = "running" /\ l.stage = "queued"
      BY <2>1, FreshKept DEF StateInv
    <2>2. CASE ~(phase' = "running" /\ l.stage = "queued")
      BY <2>2 DEF Fresh
    <2>3. QED
      BY <2>1, <2>2
  <1>4. QED
    BY <1>1, <1>2, <1>3 DEF StateInv

\* The listing says what CUPS says.
LEMMA StateListJobs ==
    ASSUME Typed, CountInv, ListJobs
    PROVE  StateInv'
  <1>1. /\ phase = "new" /\ phase' = "listed"
        /\ UNCHANGED <<server, bus, loads, missed, stale>>
    BY DEF ListJobs
  <1>2. \A i \in DOMAIN rows' : rows'[i].report.state = StateOf(rows'[i].job)
    BY DEF ListJobs, NewRow
  <1>3. Typed'
    BY ListJobsTypes
  <1>4. ASSUME NEW j, HasRow(j)'
        PROVE  Right(j, RowOf(j).report.state)'
    <2>1. /\ FirstOf(rows', j) \in DOMAIN rows'
          /\ rows'[FirstOf(rows', j)].job = j
      <3> DEFINE more == rows'
      <3>1. more \in Seq(Row')
        BY <1>3 DEF Typed, TypeOK
      <3>2. PICK i \in DOMAIN more : more[i].job = j
        BY <1>4 DEF HasRow
      <3> HIDE DEF more
      <3>3. FirstOf(more, j) \in DOMAIN more /\ more[FirstOf(more, j)].job = j
        BY <3>1, <3>2, FirstIsOne
      <3>4. QED
        BY <3>3 DEF more
    <2>2. RowOf(j)' = rows'[FirstOf(rows', j)]
      BY DEF RowOf
    <2>3. RowOf(j)'.report.state = StateOf(j)
      BY <1>2, <2>1, <2>2
    <2>4. StateOf(j)' = StateOf(j)
      BY <1>1 DEF StateOf
    <2>5. QED
      BY <2>3, <2>4 DEF Right
  <1>5. loads' = {}
    BY <1>1 DEF CountInv, Early
  <1>6. QED
    BY <1>4, <1>5 DEF StateInv, Shown

\* A change while the own subscription is made is signalled on it.
LEMMA StateServer ==
    ASSUME Typed, FeedInv, CountInv, StateInv, NEW j \in Jobs, NEW signal,
           Changes(j, signal)
    PROVE  StateInv'
  <1>1. /\ UNCHANGED <<phase, loads, rows, stale>> /\ Jobs' = Jobs
        /\ missed' = IF phase = "listed" THEN missed \union {j} ELSE missed
        /\ \A k \in Jobs : Moving(k) => Moving(k)'
        /\ \A k \in Jobs \ {j} : StateOf(k)' = StateOf(k)
    BY SetsAnnounced DEF Changes
  <1>2. /\ \A k : RowOf(k)' = RowOf(k) /\ (HasRow(k)' <=> HasRow(k))
        /\ Hearing' <=> Hearing
    BY <1>1 DEF RowOf, HasRow, Hearing
  <1>3. ASSUME phase = "running", NEW state, state # "unknown", Right(j, state)
        PROVE  Right(j, state)'
    <2>1. CASE StateOf(j)' = StateOf(j)
      BY <1>1, <1>3, <2>1, StaysRight
    <2>2. CASE StateOf(j)' # StateOf(j)
      <3>1. Says(signal, j)
        BY <2>2 DEF Changes
      <3>2. StateOf(j) # "unknown"
        <4>1. ASSUME Moving(j) PROVE StateOf(j) # "unknown"
          <5>1. PICK s \in Subscriptions : \E i \in DOMAIN bus[s] : Moves(bus[s][i], j)
            BY <4>1 DEF Moving
          <5>2. PICK i \in DOMAIN bus[s] : Moves(bus[s][i], j)
            BY <5>1
          <5>3. Of(bus[s][i], j) /\ Feed(s, j)
            BY <5>2 DEF Of, Moves, FeedInv
          <5>4. QED
            BY <5>3 DEF Feed
        <4>2. QED
          BY <1>3, <4>1 DEF Right
      <3>3. Moves(signal, j)
        BY <3>1, <3>2 DEF Says, Moves
      <3>4. Own \in Subscriptions /\ Hears(Own)
        BY <1>3, Numbers DEF Hears
      <3>5. Moving(j)'
        BY <3>3, <3>4, SetsAnnounced
      <3>6. QED
        BY <3>5 DEF Right
    <2>3. QED
      BY <2>1, <2>2
  <1>4. ASSUME NEW k \in Jobs, k \notin stale \union missed'
        PROVE  Shown(k)'
    <2>1. k \notin missed
      BY <1>1, <1>4
    <2>2. CASE k # j
      BY <1>1, <1>2, <1>4, <2>1, <2>2, ShownKept DEF StateInv
    <2>3. CASE k = j
      <3>1. SUFFICES ASSUME Hearing, HasRow(j)
                     PROVE  Right(j, RowOf(j).report.state)'
        BY <1>2, <2>3 DEF Shown
      <3>2. phase = "running"
        <4>1. phase # "listed"
          BY <1>1, <1>4, <2>3
        <4>2. rows # <<>>
          BY <3>1 DEF HasRow
        <4>3. QED
          BY <3>1, <4>1, <4>2 DEF Hearing, CountInv, Early
      <3>3. PICK state : state = RowOf(j).report.state
        OBVIOUS
      <3>4. RowOf(j) \in Row
        BY <3>1, RowOfJob
      <3>5. state # "unknown"
        BY <3>3, <3>4 DEF Row, Said, Open
      <3>6. Right(j, state)
        BY <1>4, <2>1, <2>3, <3>1, <3>3 DEF StateInv, Shown
      <3>7. Right(j, state)'
        BY <1>3, <3>2, <3>5, <3>6
      <3>8. RowOf(j)'.report.state = state
        BY <1>2, <3>3
      <3>9. QED
        BY <3>7, <3>8 DEF Right
    <2>4. QED
      BY <2>2, <2>3
  <1>5. ASSUME NEW l \in loads
        PROVE  Fresh(l)'
    <2>1. SUFFICES ASSUME phase = "running", l.stage = "queued", ~l.overtaken,
                          l.report.state # "unknown"
                   PROVE  Right(l.job, l.report.state)'
      BY <1>1 DEF Fresh
    <2>2. Right(l.job, l.report.state) /\ l.job \in Jobs
      BY <2>1, TypedParts DEF StateInv, Fresh, LoadsTyped, Load
    <2>3. PICK k \in Jobs : k = l.job
      BY <2>2
    <2>4. PICK state : state = l.report.state
      OBVIOUS
    <2>5. Right(k, state)'
      <3>1. CASE k = j
        BY <1>3, <2>1, <2>2, <2>3, <2>4, <3>1
      <3>2. CASE k # j
        BY <1>1, <2>2, <2>3, <2>4, <3>2, StaysRight
      <3>3. QED
        BY <3>1, <3>2
    <2>6. QED
      BY <2>3, <2>4, <2>5
  <1>6. QED
    BY <1>1, <1>4, <1>5 DEF StateInv

\* A load says what CUPS said when it was read; the row takes that over, or
\* the job counts as stale when a signal has overtaken the load.
LEMMA StateLoad ==
    ASSUME Typed, CountInv, StateInv, NEW l \in loads, LoadStep(l)
    PROVE  StateInv'
  <1>1. /\ l \in Load /\ l.job \in Jobs /\ KeepsRows /\ rows \in Seq(Row)
        /\ UNCHANGED <<server, bus, missed>>
    <2>1. UNCHANGED <<server, bus, missed>>
      BY DEF LoadStep, LoaderReads, UpdateJob, OnJobLoaded
    <2>2. QED
      BY <2>1, LoadTypes, TypedParts DEF LoadsTyped, Load
  <1>2. /\ Jobs' = Jobs
        /\ \A j \in Jobs : StateOf(j)' = StateOf(j) /\ Moving(j)' = Moving(j)
    BY <1>1 DEF Jobs, StateOf, Moving, Subscriptions, Moves
  <1>3. CASE OnJobLoaded(l)
    <2>1. KeepsReports /\ UNCHANGED <<phase, stale>> /\ loads' \subseteq loads
      BY <1>1, <1>3 DEF OnJobLoaded, KeepsReports
    <2>2. QED
      BY <1>1, <1>2, <2>1, StateKept DEF Hearing
  <1>4. CASE LoaderReads(l)
    <2>1. PICK report \in {server[l.job].report, Unread} :
            loads' = (loads \ {l}) \union
               {[l EXCEPT !.stage = "queued", !.report = report]}
      BY <1>4 DEF LoaderReads
    <2> DEFINE k == [l EXCEPT !.stage = "queued", !.report = report]
    <2>2. k.job = l.job /\ k.report = report
      BY <1>1 DEF Load
    <2>3. loads' = (loads \ {l}) \union {k}
      BY <2>1
    <2> HIDE DEF k
    <2>4. UNCHANGED <<phase, rows, stale>>
      BY <1>4 DEF LoaderReads
    <2>5. Fresh(k)'
      <3>1. CASE report = Unread
        BY <2>2, <3>1 DEF Unread, Fresh
      <3>2. CASE report = server[l.job].report
        BY <1>1, <1>2, <2>2, <3>2 DEF Fresh, Right, StateOf
      <3>3. QED
        BY <2>1, <3>1, <3>2
    <2>6. ASSUME NEW m \in loads PROVE Fresh(m)'
      BY <1>1, <1>2, <2>4, FreshKept DEF StateInv
    <2>7. KeepsReports
      BY <1>1, <2>4 DEF KeepsReports
    <2>8. ASSUME NEW j \in Jobs, j \notin stale \union missed PROVE Shown(j)'
      BY <1>1, <1>2, <2>4, <2>7, <2>8, KeptReports, ShownKept DEF StateInv, Hearing
    <2>9. QED
      BY <1>1, <1>2, <2>3, <2>4, <2>5, <2>6, <2>8 DEF StateInv
  <1>5. CASE UpdateJob(l)
    <2> DEFINE k == [l EXCEPT !.stage = "delivered"]
    <2>1. loads' = (loads \ {l}) \union {k} /\ k.stage = "delivered"
      BY <1>1, <1>5 DEF UpdateJob, Load
    <2> HIDE DEF k
    <2>2. phase' = "running" => phase = "running"
      BY <1>5 DEF UpdateJob
    <2>3. ASSUME NEW m \in loads' PROVE Fresh(m)'
      <3>1. CASE m \in loads
        BY <1>1, <1>2, <2>2, <3>1, FreshKept DEF StateInv
      <3>2. CASE m = k
        BY <2>1, <3>2 DEF Fresh
      <3>3. QED
        BY <2>1, <3>1, <3>2
    <2>4. CASE UNCHANGED <<phase, rows, stale>>
      <3>1. KeepsReports
        BY <1>1, <2>4 DEF KeepsReports
      <3>2. ASSUME NEW j \in Jobs, j \notin stale \union missed PROVE Shown(j)'
        BY <1>1, <1>2, <2>4, <3>1, <3>2, KeptReports, ShownKept
        DEF StateInv, Hearing
      <3>3. QED
        BY <1>1, <1>2, <2>3, <2>4, <3>2 DEF StateInv
    <2>5. CASE phase' = "crashed"
      BY <2>3, <2>5 DEF StateInv, Shown, Hearing
    <2> DEFINE at == FirstOf(rows, l.job)
    <2>6. CASE /\ HasRow(l.job) /\ UNCHANGED phase
               /\ rows' = [rows EXCEPT ![at] = LoadAttributes(@, l.report)]
               /\ stale' = IF l.report.state = "unknown" THEN stale
                           ELSE IF l.overtaken THEN stale \union {l.job}
                           ELSE stale \ {l.job}
      <3>1. at \in DOMAIN rows /\ RowOf(l.job) = rows[at]
        BY <2>6, RowOfJob DEF RowOf
      <3> HIDE DEF at
      <3>2. /\ rows'[at] = LoadAttributes(rows[at], l.report)
            /\ \A i \in DOMAIN rows : i # at => rows'[i] = rows[i]
        BY <2>6, <3>1
      <3>3. \A j : j # l.job =>
              /\ HasRow(j)' <=> HasRow(j)
              /\ HasRow(j) => RowOf(j)'.report = RowOf(j).report
        BY <1>1, <2>6, <3>2, OtherReports DEF at
      <3>4. RowOf(l.job)' = LoadAttributes(RowOf(l.job), l.report)
        <4>1. Len(rows) <= Len(rows') /\ rows' \in Seq(Row)
              /\ \A i \in DOMAIN rows : rows'[i].job = rows[i].job
          <5>1. rows' \in Seq(Row) /\ DOMAIN rows' = DOMAIN rows
            BY <1>1 DEF KeepsRows
          <5>2. Len(rows') = Len(rows)
            BY <1>1, <5>1
          <5>3. Len(rows) <= Len(rows')
            BY <1>1, <5>2
          <5>4. QED
            BY <1>1, <5>1, <5>3 DEF KeepsRows
        <4>2. PICK j : j = l.job
          OBVIOUS
        <4>3. RowOf(j)' = rows'[at]
          BY <2>6, <4>1, <4>2, FirstKept DEF at
        <4>4. QED
          BY <3>1, <3>2, <4>2, <4>3
      <3>5. ASSUME NEW j \in Jobs, j \notin stale' \union missed
            PROVE  Shown(j)'
        <4>1. CASE j # l.job
          <5>1. j \notin stale \union missed
            BY <2>6, <3>5, <4>1
          <5>2. QED
            BY <1>2, <2>6, <3>3, <4>1, <5>1, ShownKept DEF StateInv, Hearing
        <4>2. CASE j = l.job
          <5>1. SUFFICES ASSUME Hearing'
                         PROVE  Right(j, RowOf(j).report.state)'
            BY DEF Shown
          <5>2. Hearing /\ phase = "running" /\ l.stage = "queued"
            BY <1>5, <2>6, <5>1 DEF UpdateJob, Hearing, Up
          <5>3. RowOf(j)'.report.state =
                  IF l.report.state = "unknown" THEN RowOf(j).report.state
                                                ELSE l.report.state
            <6>1. RowOf(j) \in Row
              BY <2>6, <4>2, RowOfJob
            <6>2. QED
              BY <3>4, <4>2, <6>1 DEF LoadAttributes, Row
          <5>4. PICK state : state = IF l.report.state = "unknown"
                                     THEN RowOf(j).report.state
                                     ELSE l.report.state
            OBVIOUS
          <5>5. Right(j, state)
            <6>1. CASE l.report.state = "unknown"
              <7>1. Shown(j) /\ state = RowOf(j).report.state
                BY <2>6, <3>5, <5>4, <6>1 DEF StateInv
              <7>2. QED
                BY <2>6, <4>2, <5>2, <7>1 DEF Shown
            <6>2. CASE l.report.state # "unknown"
              <7>1. ~l.overtaken
                BY <2>6, <3>5, <4>2, <6>2
              <7>2. QED
                BY <4>2, <5>2, <5>4, <6>2, <7>1 DEF StateInv, Fresh
            <6>3. QED
              BY <6>1, <6>2
          <5>6. Right(j, state)'
            BY <1>2, <5>5, StaysRight
          <5>7. RowOf(j)'.report.state = state
            BY <5>3, <5>4
          <5>8. QED
            BY <5>6, <5>7 DEF Right
        <4>3. QED
          BY <4>1, <4>2
      <3>6. QED
        BY <1>1, <1>2, <2>3, <3>5 DEF StateInv
    <2>7. QED
      BY <1>5, <2>4, <2>5, <2>6 DEF UpdateJob
  <1>6. QED
    BY <1>3, <1>4, <1>5 DEF LoadStep

\* What a delivery leaves, and what it says.
LEMMA StateDelivered ==
    ASSUME Typed, FeedInv, NEW s \in Subscriptions, NEW signal,
           Delivered(s, signal), signal.kind # "PrinterState"
    PROVE  /\ UNCHANGED <<phase, server, missed>> /\ Jobs' = Jobs /\ Up
           /\ Hearing' <=> Hearing
           /\ signal.job \in Jobs /\ signal.report \in Said
           /\ \A j \in Jobs : /\ StateOf(j)' = StateOf(j)
                              /\ ~Moves(signal, j) => (Moving(j)' <=> Moving(j))
           /\ Right(signal.job, signal.report.state)'
  <1>1. /\ UNCHANGED <<phase, server, missed>> /\ Jobs' = Jobs /\ Up
        /\ signal \in JobSignal
    BY AnyBusTail, SignalTypes
  <1>2. signal.job \in Jobs /\ signal.report \in Said
    BY <1>1 DEF JobSignal
  <1>3. \A j \in Jobs : Feed(s, j)
    BY DEF FeedInv
  <1>4. \A j \in Jobs : /\ StateOf(j)' = StateOf(j)
                        /\ ~Moves(signal, j) => (Moving(j)' <=> Moving(j))
    BY <1>1, <1>3, SetsDelivered DEF StateOf
  <1>5. Right(signal.job, signal.report.state)'
    <2>1. PICK j \in Jobs : j = signal.job
      BY <1>2
    <2>2. Of(signal, j)
      BY <2>1 DEF Of
    <2>3. signal.report.state = StateOf(j) \/ Moving(j)'
      BY <1>3, <2>2, SetsDelivered
    <2>4. Right(j, signal.report.state)'
      BY <1>4, <2>3 DEF Right
    <2>5. QED
      BY <2>1, <2>4
  <1>6. QED
    BY <1>1, <1>2, <1>4, <1>5 DEF Hearing

\* A row that is added says what the signal said.
LEMMA StateCreated ==
    ASSUME Typed, FeedInv, StateInv, NEW s \in Subscriptions, NEW signal,
           JobCreated(s, signal)
    PROVE  StateInv'
  <1> DEFINE row == NewRow(signal.job, signal.report)
             seq == Append(rows, row)
             n == Len(rows) + 1
  <1>1. /\ Delivered(s, signal) /\ signal.kind = "Created" /\ UNCHANGED stale
        /\ JobsAdded(seq, {signal.job}, printers)
    BY DEF JobCreated
  <1>2. /\ UNCHANGED <<phase, server, missed>> /\ Jobs' = Jobs
        /\ signal.job \in Jobs /\ signal.report \in Said
        /\ Right(signal.job, signal.report.state)'
        /\ Hearing' <=> Hearing
    BY <1>1, StateDelivered
  <1>3. \A j \in Jobs : StateOf(j)' = StateOf(j) /\ (Moving(j)' <=> Moving(j))
    BY <1>1, StateDelivered DEF Moves
  <1>4. AddsRow(signal.job)
    BY CreatedTypes
  <1>5. row \in Row /\ row.report = signal.report
    BY <1>2 DEF NewRow, Row
  <1> HIDE DEF row
  <1>6. /\ rows \in Seq(Row) /\ seq \in Seq(Row)
        /\ DOMAIN rows = 1..Len(rows) /\ Len(rows) \in Nat
        /\ DOMAIN seq = 1..n /\ seq[n] = row
        /\ \A i \in DOMAIN rows : seq[i] = rows[i]
    BY <1>5, TypedParts
  <1> HIDE DEF seq
  <1>7. /\ \A i \in DOMAIN seq : rows'[i].report = seq[i].report
        /\ \A l \in loads' : l \in loads \/ l.stage = "started"
    BY <1>1, <1>6, JobsAddedReports
  <1>8. /\ rows' \in Seq(Row) /\ DOMAIN rows' = 1..n /\ Len(rows') = n
        /\ \A i \in DOMAIN rows : /\ rows'[i].job = rows[i].job
                                  /\ rows'[i].report = rows[i].report
        /\ rows'[n].job = signal.job /\ rows'[n].report = signal.report
    <2>1. /\ rows' \in Seq(Row) /\ DOMAIN rows' = 1..n
          /\ \A i \in DOMAIN rows : rows'[i].job = rows[i].job
          /\ rows'[n].job = signal.job
      BY <1>4 DEF AddsRow
    <2>2. Len(rows') = n
      BY <1>6, <2>1
    <2>3. \A i \in DOMAIN rows : i \in DOMAIN seq
      BY <1>6
    <2>4. n \in DOMAIN seq
      BY <1>6
    <2>5. QED
      BY <1>5, <1>6, <1>7, <2>1, <2>2, <2>3, <2>4
  <1>9. ASSUME NEW j, HasRow(j)
        PROVE  HasRow(j)' /\ RowOf(j)'.report = RowOf(j).report
    <2>1. Len(rows) <= Len(rows')
      BY <1>6, <1>8
    <2>2. /\ FirstOf(rows, j) \in DOMAIN rows
          /\ RowOf(j)' = rows'[FirstOf(rows, j)]
      BY <1>8, <1>9, <2>1, FirstKept
    <2>3. HasRow(j)'
      BY <1>6, <1>8, <1>9 DEF HasRow
    <2>4. QED
      BY <1>8, <2>2, <2>3 DEF RowOf
  <1>10. ASSUME NEW j, ~HasRow(j), HasRow(j)'
         PROVE  j = signal.job /\ RowOf(j)'.report = signal.report
    <2>1. \A i \in DOMAIN rows' : rows'[i].job = j => i = n
      BY <1>6, <1>8, <1>10 DEF HasRow
    <2>2. PICK i \in DOMAIN rows' : rows'[i].job = j
      BY <1>10 DEF HasRow
    <2>3. j = signal.job
      BY <1>8, <2>1, <2>2
    <2>4. FirstOf(rows', j) = n
      <3> DEFINE more == rows'
      <3>1. more \in Seq(Row) /\ i \in DOMAIN more /\ more[i].job = j
        BY <1>8, <2>2
      <3>2. \A k \in DOMAIN more : more[k].job = j => k = n
        BY <2>1
      <3> HIDE DEF more
      <3>3. FirstOf(more, j) \in DOMAIN more /\ more[FirstOf(more, j)].job = j
        BY <3>1, FirstIsOne
      <3>4. FirstOf(more, j) = n
        BY <3>2, <3>3
      <3>5. QED
        BY <3>4 DEF more
    <2>5. RowOf(j)' = rows'[FirstOf(rows', j)]
      BY DEF RowOf
    <2>6. QED
      BY <1>8, <2>3, <2>4, <2>5
  <1>11. ASSUME NEW j \in Jobs, j \notin stale \union missed
         PROVE  Shown(j)'
    <2>1. CASE HasRow(j)
      BY <1>2, <1>3, <1>9, <1>11, <2>1, ShownKept DEF StateInv
    <2>2. CASE ~HasRow(j)
      <3>1. SUFFICES ASSUME HasRow(j)'
                     PROVE  Right(j, RowOf(j).report.state)'
        BY DEF Shown
      <3>2. j = signal.job /\ RowOf(j)'.report = signal.report
        BY <1>10, <2>2, <3>1
      <3>3. QED
        BY <1>2, <3>2 DEF Right
    <2>3. QED
      BY <2>1, <2>2
  <1>12. ASSUME NEW l \in loads'
         PROVE  Fresh(l)'
    <2>1. CASE l \in loads
      BY <1>2, <1>3, <2>1, FreshKept DEF StateInv
    <2>2. CASE l.stage = "started"
      BY <2>2 DEF Fresh
    <2>3. QED
      BY <1>7, <2>1, <2>2
  <1>13. QED
    BY <1>1, <1>2, <1>11, <1>12 DEF StateInv

\* A row takes over what the signal says, and loads read before are overtaken.
LEMMA StateSaid ==
    ASSUME Typed, FeedInv, StateInv, NEW s \in Subscriptions, NEW signal,
           JobState(s, signal)
    PROVE  StateInv'
  <1> DEFINE j == signal.job
             told(l) == IF l.job = j /\ l.stage = "queued"
                        THEN [l EXCEPT !.overtaken = TRUE] ELSE l
  <1>1. /\ Delivered(s, signal) /\ signal.kind = "State"
        /\ stale' = stale \ {j} /\ loads' = {told(l) : l \in loads}
    BY DEF JobState
  <1>2. /\ UNCHANGED <<phase, server, missed>> /\ Jobs' = Jobs
        /\ j \in Jobs /\ signal.report \in Said
        /\ Right(j, signal.report.state)'
        /\ Hearing' <=> Hearing
    BY <1>1, StateDelivered
  <1>3. \A k \in Jobs : /\ StateOf(k)' = StateOf(k)
                        /\ k # j => (Moving(k)' <=> Moving(k))
    BY <1>1, StateDelivered DEF Moves
  <1>4. KeepsRows /\ rows \in Seq(Row)
    BY StateTypes, TypedParts
  <1>5. ASSUME NEW k \in Jobs, k # j
        PROVE  /\ HasRow(k)' <=> HasRow(k)
               /\ HasRow(k) => RowOf(k)'.report = RowOf(k).report
    <2>1. CASE UNCHANGED rows
      BY <2>1 DEF HasRow, RowOf
    <2>2. CASE HasRow(j) /\ rows' = [rows EXCEPT ![FirstOf(rows, j)].report =
                                                     signal.report]
      <3>1. \A i \in DOMAIN rows : i # FirstOf(rows, j) => rows'[i] = rows[i]
        BY <2>2
      <3>2. QED
        BY <1>4, <1>5, <2>2, <3>1, OtherReports
    <2>3. QED
      BY <2>1, <2>2 DEF JobState
  <1>6. ASSUME HasRow(j)'
        PROVE  RowOf(j)'.report = signal.report
    <2>1. HasRow(j)
      BY <1>4, <1>6 DEF HasRow, KeepsRows
    <2>2. rows' = [rows EXCEPT ![FirstOf(rows, j)].report = signal.report]
      BY <2>1 DEF JobState
    <2>3. FirstOf(rows, j) \in DOMAIN rows /\ RowOf(j) \in Row
      BY <2>1, RowOfJob
    <2>4. RowOf(j)' = rows'[FirstOf(rows, j)]
      <3>1. rows' \in Seq(Row) /\ DOMAIN rows' = DOMAIN rows
            /\ \A i \in DOMAIN rows : rows'[i].job = rows[i].job
        BY <1>4 DEF KeepsRows
      <3>2. Len(rows) <= Len(rows')
        BY <1>4, <3>1
      <3>3. QED
        BY <2>1, <3>1, <3>2, FirstKept
    <2>5. rows'[FirstOf(rows, j)] = [RowOf(j) EXCEPT !.report = signal.report]
      BY <2>2, <2>3 DEF RowOf
    <2>6. QED
      BY <2>3, <2>4, <2>5 DEF Row
  <1>7. ASSUME NEW k \in Jobs, k \notin stale' \union missed
        PROVE  Shown(k)'
    <2>1. CASE k = j
      BY <1>2, <1>6, <2>1 DEF Shown, Right
    <2>2. CASE k # j
      BY <1>1, <1>2, <1>3, <1>5, <1>7, <2>2, ShownKept DEF StateInv
    <2>3. QED
      BY <2>1, <2>2
  <1>8. ASSUME NEW l \in loads'
        PROVE  Fresh(l)'
    <2>1. PICK m \in loads : l = told(m)
      BY <1>1
    <2>2. m \in Load
      BY TypedParts DEF LoadsTyped
    <2>3. CASE m.job = j /\ m.stage = "queued"
      BY <2>1, <2>2, <2>3 DEF Fresh, Load
    <2>4. CASE m.stage # "queued"
      BY <2>1, <2>4 DEF Fresh
    <2>5. CASE m.job # j
      <3>1. l = m /\ m.job \in Jobs
        BY <2>1, <2>2, <2>5 DEF Load
      <3>2. StateOf(m.job)' = StateOf(m.job) /\ (Moving(m.job) => Moving(m.job)')
        BY <1>3, <2>5, <3>1
      <3>3. Fresh(m)
        BY DEF StateInv
      <3>4. QED
        BY <1>2, <3>1, <3>2, <3>3, StaysRight DEF Fresh
    <2>6. QED
      BY <2>3, <2>4, <2>5
  <1>9. QED
    BY <1>2, <1>7, <1>8 DEF StateInv

\* A job whose completion is signalled is done; of the others the first rows
\* stay.
LEMMA StateCompleted ==
    ASSUME Typed, FeedInv, StateInv, NEW s \in Subscriptions, NEW signal,
           JobCompleted(s, signal)
    PROVE  StateInv'
  <1> DEFINE j == signal.job
             at == FirstOf(rows, j)
  <1>1. /\ Delivered(s, signal) /\ signal.kind = "Completed"
        /\ UNCHANGED <<stale, loads>>
        /\ \/ HasRow(j) /\ rows' = RemoveAt(rows, at)
           \/ ~HasRow(j) /\ UNCHANGED rows
    BY DEF JobCompleted
  <1>2. /\ UNCHANGED <<phase, server, missed>> /\ Jobs' = Jobs /\ j \in Jobs
        /\ Hearing' <=> Hearing
    BY <1>1, StateDelivered
  <1>3. \A k \in Jobs : /\ StateOf(k)' = StateOf(k)
                        /\ k # j => (Moving(k)' <=> Moving(k))
    BY <1>1, StateDelivered DEF Moves
  <1>4. StateOf(j)' = "done"
    <2>1. Feed(s, j) /\ Completes(signal, j)
      BY <1>1, <1>2 DEF FeedInv, Completes
    <2>2. QED
      BY <1>1, <1>2, <1>3, <2>1, SetsDelivered
  <1>5. ASSUME NEW k \in Jobs, k # j, HasRow(k)'
        PROVE  HasRow(k) /\ RowOf(k)' = RowOf(k)
    <2>1. CASE UNCHANGED rows
      BY <1>5, <2>1 DEF HasRow, RowOf
    <2>2. CASE HasRow(j) /\ rows' = RemoveAt(rows, at)
      <3>1. /\ rows \in Seq(Row) /\ at \in 1..Len(rows) /\ rows[at].job = j
            /\ DOMAIN rows = 1..Len(rows) /\ Len(rows) \in Nat
        BY <2>2, TypedParts, RowOfJob DEF RowOf
      <3> HIDE DEF at
      <3> DEFINE q == RemoveAt(rows, at)
      <3>2. /\ q \in Seq(Row) /\ Len(q) = Len(rows) - 1
            /\ \A i \in 1..(Len(rows) - 1) :
                 q[i] = IF i < at THEN rows[i] ELSE rows[i + 1]
        BY <3>1, RemoveAtProps
      <3>3. At(rows, k) # {} => q[FirstOf(q, k)] = rows[FirstOf(rows, k)]
        BY <1>5, <3>1, AtRemoved
      <3>4. PICK i \in DOMAIN q : q[i].job = k
        BY <1>5, <2>2 DEF HasRow
      <3>5. RowOf(k)' = q[FirstOf(q, k)]
        BY <2>2 DEF RowOf
      <3> HIDE DEF q
      <3>6. DOMAIN q = 1..(Len(rows) - 1)
        BY <3>2
      <3>7. \E m \in DOMAIN rows : rows[m].job = k
        <4>1. i \in 1..(Len(rows) - 1) /\ i \in DOMAIN rows /\ i + 1 \in DOMAIN rows
          BY <3>1, <3>4, <3>6
        <4>2. q[i] = rows[i] \/ q[i] = rows[i + 1]
          BY <3>2, <4>1
        <4>3. QED
          BY <3>4, <4>1, <4>2
      <3>8. QED
        BY <3>3, <3>5, <3>7 DEF At, HasRow, RowOf
    <2>3. QED
      BY <1>1, <2>1, <2>2
  <1>6. ASSUME NEW k \in Jobs, k \notin stale \union missed
        PROVE  Shown(k)'
    <2>1. CASE k = j
      BY <1>4, <2>1 DEF Shown, Right
    <2>2. CASE k # j
      BY <1>2, <1>3, <1>5, <1>6, <2>2, ShownKept DEF StateInv
    <2>3. QED
      BY <2>1, <2>2
  <1>7. ASSUME NEW l \in loads
        PROVE  Fresh(l)'
    <2>1. l.job \in Jobs
      BY TypedParts DEF LoadsTyped, Load
    <2>2. CASE l.job = j
      BY <1>4, <2>2 DEF Fresh, Right
    <2>3. CASE l.job # j
      BY <1>2, <1>3, <2>1, <2>3, StaysRight DEF Fresh, StateInv
    <2>4. QED
      BY <2>2, <2>3
  <1>8. QED
    BY <1>1, <1>2, <1>6, <1>7 DEF StateInv

\* What forces loads leaves what the rows say.
LEMMA StateRefreshed ==
    ASSUME Typed, FeedInv, StateInv,
           LimiterEmits \/ (\E s \in Subscriptions : \E signal :
                              PrinterSignalled(s, signal))
    PROVE  StateInv'
  <1>1. KeepsRows /\ rows \in Seq(Row)
    BY LimiterTypes, TypedParts
  <1>2. /\ KeepsReports
        /\ \A l \in loads' : l \in loads \/ l.stage = "started"
    <2>1. CASE UNCHANGED <<active, loads, rows>>
      BY <1>1, <2>1 DEF KeepsReports
    <2>2. ASSUME NEW b, ForceJobRefresh(b)
          PROVE  /\ KeepsReports
                 /\ \A l \in loads' : l \in loads \/ l.stage = "started"
      BY <1>1, <2>2, AddedKeepsReports DEF ForceJobRefresh
    <2>3. QED
      BY <2>1, <2>2 DEF LimiterEmits, PrinterSignalled
  <1>3. CASE LimiterEmits
    <2>1. UNCHANGED <<phase, server, bus, stale, missed>>
      BY <1>3 DEF LimiterEmits
    <2>2. \A j \in Jobs : Moving(j)' <=> Moving(j)
      BY <2>1 DEF Moving, Subscriptions, Moves
    <2>3. QED
      BY <1>2, <2>1, <2>2, StateKept DEF Hearing
  <1>4. ASSUME NEW s \in Subscriptions, NEW signal, PrinterSignalled(s, signal)
        PROVE  StateInv'
    <2>1. Delivered(s, signal) /\ signal.kind = "PrinterState" /\ UNCHANGED stale
      BY <1>4 DEF PrinterSignalled
    <2>2. UNCHANGED <<phase, server, missed>>
      BY <2>1, AnyBusTail
    <2>3. ASSUME NEW j \in Jobs PROVE Moving(j)' <=> Moving(j)
      <3>1. Feed(s, j) /\ ~Moves(signal, j)
        BY <2>1 DEF FeedInv, Moves
      <3>2. QED
        BY <2>1, <3>1, SetsDelivered
    <2>4. QED
      BY <1>2, <2>1, <2>2, <2>3, StateKept DEF Hearing
  <1>5. QED
    BY <1>3, <1>4

\* So does a printer that comes or goes.
LEMMA StatePrinters ==
    ASSUME Typed, StateInv, NEW p \in Printer,
           PrinterListed(p) \/ PrinterUnlisted(p)
    PROVE  StateInv'
  <1>1. KeepsRows /\ rows \in Seq(Row)
        /\ UNCHANGED <<phase, server, bus, stale, missed>>
    BY PrinterListedTypes, PrinterUnlistedTypes, TypedParts
    DEF PrinterListed, PrinterUnlisted
  <1>2. \A j \in Jobs : Moving(j)' <=> Moving(j)
    BY <1>1 DEF Moving, Subscriptions, Moves
  <1>3. /\ KeepsReports
        /\ \A l \in loads' : l \in loads \/ l.stage = "started"
    <2>1. CASE PrinterListed(p)
      <3> DEFINE S == {rows[i].job : i \in {k \in DOMAIN rows :
                         /\ PrinterOf[rows[k].job] = p
                         /\ RowOf(rows[k].job).printer = "null"}}
      <3>1. JobsAdded(rows, S, {p})
        BY <2>1 DEF PrinterListed
      <3> HIDE DEF S
      <3>2. QED
        BY <1>1, <3>1, AddedKeepsReports
    <2>2. CASE PrinterUnlisted(p)
      <3> DEFINE row(i) == IF PrinterOf[rows[i].job] = p
                                /\ rows[i].printer = "listed"
                           THEN [rows[i] EXCEPT !.printer = "gone"] ELSE rows[i]
      <3>1. rows' = [i \in DOMAIN rows |-> row(i)] /\ UNCHANGED loads
        BY <2>2 DEF PrinterUnlisted
      <3>2. \A i \in DOMAIN rows : rows[i] \in Row
        BY <1>1
      <3>3. \A i \in DOMAIN rows : row(i).report = rows[i].report
        BY <3>2 DEF Row
      <3> HIDE DEF row
      <3>4. QED
        BY <1>1, <3>1, <3>3 DEF KeepsReports, KeepsRows
    <2>3. QED
      BY <2>1, <2>2
  <1>4. QED
    BY <1>1, <1>2, <1>3, StateKept DEF Hearing

LEMMA StateSubscribe ==
    ASSUME Typed, CountInv, StateInv, Subscribe
    PROVE  StateInv'
  <1> DEFINE S == {rows[i].job : i \in DOMAIN rows}
  <1>1. /\ phase = "listed" /\ JobsAdded(rows, S, printers)
        /\ UNCHANGED <<server, bus, stale, missed>>
    BY DEF Subscribe
  <1> HIDE DEF S
  <1>2. KeepsRows /\ loads = {}
    BY <1>1, SubscribeTypes DEF CountInv, Early
  <1>3. /\ KeepsReports
        /\ \A l \in loads' : l.stage = "started"
    BY <1>1, <1>2, AddedKeepsReports
  <1>4. \A j \in Jobs : Moving(j)' <=> Moving(j)
    BY <1>1 DEF Moving, Subscriptions, Moves
  <1>5. QED
    BY <1>1, <1>3, <1>4, StateKept DEF Hearing

LEMMA StateStep ==
    ASSUME Typed, FeedInv, CountInv, StateInv, [Next]_vars
    PROVE  StateInv'
  <1>1. CASE UNCHANGED vars
    <2>1. UNCHANGED <<phase, server, bus, loads, rows, stale, missed>>
      BY <1>1 DEF vars
    <2>2. KeepsReports
      BY <2>1, TypedParts DEF KeepsReports
    <2>3. \A j \in Jobs : Moving(j)' <=> Moving(j)
      BY <2>1 DEF Moving, Subscriptions, Moves
    <2>4. QED
      BY <2>1, <2>2, <2>3, StateKept DEF Hearing
  <1>2. CASE ListJobs \/ Subscribe
    BY <1>2, StateListJobs, StateSubscribe
  <1>3. ASSUME NEW j \in Jobs, Server(j)
        PROVE  StateInv'
    BY <1>3, ServerChanges, StateServer
  <1>4. CASE \E l \in loads : LoadStep(l)
    BY <1>4, StateLoad
  <1>5. ASSUME NEW s \in Subscriptions, Deliver(s)
        PROVE  StateInv'
    <2> DEFINE signal == Head(bus[s])
    <2>1. JobCreated(s, signal) \/ JobState(s, signal) \/ JobCompleted(s, signal)
            \/ PrinterSignalled(s, signal)
      BY <1>5 DEF Deliver
    <2>2. PICK x : x = signal
      OBVIOUS
    <2> HIDE DEF signal
    <2>3. QED
      BY <2>1, <2>2, StateCreated, StateSaid, StateCompleted, StateRefreshed
  <1>6. CASE LimiterEmits
    BY <1>6, StateRefreshed
  <1>7. ASSUME NEW p \in Printer, PrinterListed(p) \/ PrinterUnlisted(p)
        PROVE  StateInv'
    BY <1>7, StatePrinters
  <1>8. QED
    BY <1>1, <1>2, <1>3, <1>4, <1>5, <1>6, <1>7 DEF Next

LEMMA StateInit == Init => StateInv
  <1>1. Init => rows = <<>> /\ loads = {}
    BY DEF Init
  <1>2. QED
    BY <1>1 DEF StateInv, Shown, HasRow

LEMMA StateInvariant == Spec => []StateInv
  <1>1. Typed /\ FeedInv /\ CountInv /\ StateInv /\ [Next]_vars => StateInv'
    BY StateStep
  <1>2. QED
    BY <1>1, StateInit, CountInvariant, PTL DEF Spec

\* jobState, updateJob and loadAttributes, jobmodel.cpp and printerjob.cpp: for
\* any jobs, subscriptions and changes, a row shows the state CUPS has or a
\* signal of the job is on its way, unless the change was missed or a load that
\* a signal has overtaken was applied.
THEOREM JobStateCurrent == Spec => []StateCurrent
  <1>1. Typed /\ CountInv /\ StateInv => StateCurrent
    <2> SUFFICES ASSUME Typed, CountInv, StateInv,
                        NEW j \in Jobs \ (stale \union missed),
                        phase = "running", HasRow(j)
                 PROVE  RowOf(j).report.state = StateOf(j) \/ Announced(j)
      BY DEF StateCurrent
    <2>1. Right(j, RowOf(j).report.state)
      BY DEF StateInv, Shown, Hearing
    <2>2. Moving(j) => Announced(j)
      BY DEF Moving, Moves, Announced
    <2>3. ASSUME StateOf(j) = "done" PROVE Announced(j)
      <3>1. /\ Cardinality(RowsOf(j)) \in Nat /\ Cardinality(RowsOf(j)) # 0
            /\ Cardinality(CreatedOn(j)) \in Nat
            /\ Cardinality(CompletedOn(j)) \in Nat
        BY Numbers
      <3>2. Cardinality(RowsOf(j)) + Cardinality(CreatedOn(j))
              <= Cardinality(CompletedOn(j))
        BY <2>3 DEF CountInv, Count, Hearing
      <3>3. Cardinality(CompletedOn(j)) # 0
        BY <3>1, <3>2
      <3>4. CompletedOn(j) # {}
        BY <3>3, FS_EmptySet
      <3>5. QED
        BY <3>4 DEF CompletedOn, Completes, Announced
    <2>4. QED
      BY <2>1, <2>2, <2>3 DEF Right
  <1>2. QED
    BY <1>1, CountInvariant, StateInvariant, PTL
==============================================================================
