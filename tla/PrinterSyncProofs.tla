------------------------- MODULE PrinterSyncProofs -------------------------
(***************************************************************************)
(* For any number of printers, contents and changes: the types, one row    *)
(* for each printer, one load for each active request, and that what is    *)
(* listed is what CUPS says, or is about to be.                            *)
(*                                                                         *)
(* A row's place says nothing, so the second half speaks of the set of     *)
(* rows of a name (RowsNamed) and of whether a signal about a printer is   *)
(* on the bus (InBus), and follows one printer through every action.       *)
(***************************************************************************)
EXTENDS PrinterSync, FiniteSetTheorems, SequenceTheorems, TLAPS

-----------------------------------------------------------------------------
(* What the helpers do. *)

\* requestPrinter keeps the types and starts at most one load for a printer.
LEMMA RequestKeeps ==
    ASSUME TypeOK, OneLoad, NEW S \in SUBSET Printer, Request(S)
    PROVE  /\ active' \subseteq Printer
           /\ loads' \subseteq Load
           /\ stale' \subseteq Printer
           /\ OneLoad'
  <1> DEFINE new(p) == [printer |-> p, stage |-> "started", name |-> NoName,
                        info |-> NoData, attributes |-> NoData]
  <1>1. /\ active' = active \union (S \ active)
        /\ loads' = loads \union {new(p) : p \in S \ active}
    BY DEF Request
  <1>2. stale' \subseteq Printer
    BY DEF Request, TypeOK
  <1>3. NoData \in Data
    BY DEF NoData, Data
  <1>4. \A p \in Printer : new(p) \in Load
    BY <1>3 DEF Load, Stage
  <1>5. active' \subseteq Printer /\ loads' \subseteq Load
    BY <1>1, <1>4 DEF TypeOK
  <1>6. \A p \in Printer : new(p).printer = p /\ new(p).stage = "started"
    OBVIOUS
  <1>7. OneLoad'
    <2> HIDE DEF new
    <2>1. \A p \in active' : \E l \in loads' : l.printer = p
      BY <1>1, <1>6 DEF OneLoad
    <2>2. \A l \in loads' : l.printer \in active'
      BY <1>1, <1>6 DEF OneLoad
    <2>3. \A l, m \in loads' : l.printer = m.printer => l = m
      BY <1>1, <1>6 DEF OneLoad
    <2>4. \A l \in loads' : HasRead(l) => l.name = l.printer
      BY <1>1, <1>6 DEF OneLoad, HasRead
    <2>5. QED
      BY <2>1, <2>2, <2>3, <2>4 DEF OneLoad, HasRead
  <1>8. QED
    BY <1>2, <1>5, <1>7

\* getPrinterByName finds the one row there is of a name.
LEMMA RowIndexIs ==
    ASSUME TypeOK, UniqueRows, NEW n, NEW i \in DOMAIN rows, rows[i].name = n
    PROVE  RowIndex(n) = i
  <1> DEFINE I == {k \in 1..Len(rows) : rows[k].name = n}
  <1>1. DOMAIN rows = 1..Len(rows)
    BY DEF TypeOK
  <1>2. I = {i}
    BY <1>1 DEF UniqueRows
  <1>3. Min(I) = i
    BY <1>1, <1>2 DEF Min
  <1>4. QED
    BY <1>2, <1>3 DEF RowIndex, SelectInSeq

LEMMA RowIndexProps ==
    ASSUME TypeOK, UniqueRows, NEW n, HasRow(n)
    PROVE  RowIndex(n) \in 1..Len(rows) /\ rows[RowIndex(n)].name = n
  <1>1. PICK i \in DOMAIN rows : rows[i].name = n
    BY DEF HasRow
  <1>2. RowIndex(n) = i
    BY <1>1, RowIndexIs
  <1>3. QED
    BY <1>1, <1>2 DEF TypeOK

\* A step leaves the loads alone, requests printers, or takes a load further.
LEMMA StepShape ==
    ASSUME TypeOK, [Next]_vars
    PROVE  \/ UNCHANGED <<active, loads>>
           \/ \E S \in SUBSET Printer : Request(S)
           \/ \E l \in loads : LoadStep(l)
  <1>1. CASE UNCHANGED vars
    BY <1>1 DEF vars
  <1>2. CASE ListPrinters
    BY <1>2 DEF ListPrinters
  <1>3. CASE Subscribe
    BY <1>3 DEF Subscribe
  <1>4. ASSUME NEW p \in Printer, Server(p)
        PROVE  UNCHANGED <<active, loads>>
    BY <1>4 DEF Server, ServerAdd, ServerDelete, ServerModify
  <1>5. ASSUME NEW p \in Printer, Deliver(p)
        PROVE  \/ UNCHANGED <<active, loads>>
               \/ \E S \in SUBSET Printer : Request(S)
    BY <1>5 DEF Deliver, PrinterAdded, PrinterDeleted, PrinterSignalled,
                ModifiedBatch
  <1>6. CASE LimiterEmits
    BY <1>6 DEF LimiterEmits, ModifiedBatch
  <1>7. ASSUME NEW p \in Printer,
               ReadRow(p) \/ LoadPrinter(p) \/ SetAndRefresh(p)
        PROVE  \/ UNCHANGED <<active, loads>>
               \/ \E S \in SUBSET Printer : Request(S)
    BY <1>7 DEF ReadRow, LoadPrinter, RequestIfProxy, SetAndRefresh
  <1>8. QED
    BY <1>1, <1>2, <1>3, <1>4, <1>5, <1>6, <1>7 DEF Next

-----------------------------------------------------------------------------
(* Each active request has one load. *)

LEMMA LoadsStep ==
    ASSUME TypeOK, OneLoad, [Next]_vars
    PROVE  OneLoad'
  <1>1. CASE UNCHANGED <<active, loads>>
    BY <1>1 DEF OneLoad, HasRead
  <1>2. CASE \E S \in SUBSET Printer : Request(S)
    BY <1>2, RequestKeeps
  <1>3. ASSUME NEW l \in loads, LoaderReadsInfo(l)
        PROVE  OneLoad'
    <2> DEFINE k == [l EXCEPT !.stage = "named",
                              !.name = LoadedName(l.printer,
                                  IF Present(l.printer) THEN l.printer
                                                        ELSE NoName),
                              !.info = server[l.printer]]
    <2>1. loads' = (loads \ {l}) \union {k} /\ active' = active
      BY <1>3 DEF LoaderReadsInfo
    <2>2. k.printer = l.printer /\ k.name = l.printer
      BY SyncAssumption DEF TypeOK, Load, LoadedName
    <2>3. QED
      <3> HIDE DEF k
      <3> QED
        BY <2>1, <2>2 DEF OneLoad, HasRead
  <1>4. ASSUME NEW l \in loads,
               LoaderReadsAttributes(l) \/ PrinterLoaded(l)
        PROVE  OneLoad'
    <2>1. active' = active /\ HasRead(l)
      BY <1>4 DEF LoaderReadsAttributes, PrinterLoaded, HasRead
    <2>2. l \in Load
      BY DEF TypeOK
    <2>3. CASE LoaderReadsAttributes(l)
      <3> DEFINE k == [l EXCEPT !.stage = "queued",
                                !.attributes = server[l.printer]]
      <3>1. loads' = (loads \ {l}) \union {k}
        BY <2>3 DEF LoaderReadsAttributes
      <3>2. k.printer = l.printer /\ k.name = l.name
        BY <2>2 DEF Load
      <3>3. QED
        <4> HIDE DEF k
        <4> QED
          BY <2>1, <3>1, <3>2 DEF OneLoad, HasRead
    <2>4. CASE PrinterLoaded(l)
      <3> DEFINE k == [l EXCEPT !.stage = "delivered"]
      <3>1. loads' = (loads \ {l}) \union {k}
        BY <2>4 DEF PrinterLoaded
      <3>2. k.printer = l.printer /\ k.name = l.name
        BY <2>2 DEF Load
      <3>3. QED
        <4> HIDE DEF k
        <4> QED
          BY <2>1, <3>1, <3>2 DEF OneLoad, HasRead
    <2>5. QED
      BY <1>4, <2>3, <2>4
  <1>5. ASSUME NEW l \in loads, OnPrinterLoaded(l)
        PROVE  OneLoad'
    <2>1. loads' = loads \ {l} /\ active' = active \ {l.printer}
      BY <1>5 DEF OnPrinterLoaded, OneLoad, HasRead
    <2>2. QED
      BY <2>1 DEF OneLoad, HasRead
  <1>6. QED
    BY <1>1, <1>2, <1>3, <1>4, <1>5, StepShape DEF LoadStep, Loader

-----------------------------------------------------------------------------
(* The types. *)

\* Signals and lost news are about printers.
LEMMA ServerTypes ==
    ASSUME TypeOK, NEW p \in Printer, Server(p)
    PROVE  TypeOK'
  <1>1. ASSUME NEW kind \in {"Added", "Modified", "Deleted"}, Announce(kind, p)
        PROVE  bus' \in Seq(Signal)
    <2>1. [kind |-> kind, printer |-> p] \in Signal
      BY DEF Signal
    <2>2. QED
      BY <1>1, <2>1 DEF Announce, TypeOK
  <1>2. ASSUME NEW c \in Content \union {Absent}, Change(p, c)
        PROVE  server' \in [Printer -> Data]
    BY <1>2 DEF Change, TypeOK, Data
  <1>3. ServerAdd(p) \/ ServerDelete(p) \/ ServerModify(p)
        => stale' \subseteq Printer /\ ghost' \subseteq Printer
    BY DEF ServerAdd, ServerDelete, ServerModify, Modify, MissedChange, TypeOK
  <1>4. CASE ServerAdd(p)
    BY <1>1, <1>2, <1>3, <1>4 DEF ServerAdd, TypeOK
  <1>5. CASE ServerDelete(p)
    BY <1>1, <1>2, <1>3, <1>5 DEF ServerDelete, TypeOK
  <1>6. CASE ServerModify(p)
    BY <1>1, <1>2, <1>3, <1>6 DEF ServerModify, Modify, TypeOK
  <1>7. QED
    BY <1>4, <1>5, <1>6 DEF Server

\* A load stays a load, and what it has loaded is a row for its printer.
LEMMA LoadTypes ==
    ASSUME TypeOK, UniqueRows, OneLoad, NEW l \in loads, LoadStep(l)
    PROVE  TypeOK'
  <1>1. l \in Load /\ server[l.printer] \in Data
    BY DEF TypeOK, Load
  <1>2. CASE LoaderReadsInfo(l)
    <2>1. l.printer \in Printer
      BY <1>1 DEF Load
    <2>2. [l EXCEPT !.stage = "named",
                    !.name = LoadedName(l.printer,
                        IF Present(l.printer) THEN l.printer ELSE NoName),
                    !.info = server[l.printer]] \in Load
      BY <1>1, <2>1 DEF Load, Stage, LoadedName
    <2>3. loads' \subseteq Load
      BY <1>2, <2>2 DEF LoaderReadsInfo, TypeOK
    <2>4. QED
      BY <1>2, <2>3 DEF LoaderReadsInfo, TypeOK
  <1>3. CASE LoaderReadsAttributes(l)
    <2>1. [l EXCEPT !.stage = "queued", !.attributes = server[l.printer]] \in Load
      BY <1>1 DEF Load, Stage
    <2>2. loads' \subseteq Load
      BY <1>3, <2>1 DEF LoaderReadsAttributes, TypeOK
    <2>3. QED
      BY <1>3, <2>2 DEF LoaderReadsAttributes, TypeOK
  <1>4. CASE PrinterLoaded(l)
    <2>1. [l EXCEPT !.stage = "delivered"] \in Load
      BY <1>1 DEF Load, Stage
    <2>2. loads' \subseteq Load
      BY <1>4, <2>1 DEF PrinterLoaded, TypeOK
    <2>3. l.name \in Printer
      BY <1>1, <1>4 DEF PrinterLoaded, OneLoad, HasRead, Load
    <2>4. LoadedRow(l) \in Row
      BY <1>1, <2>3 DEF LoadedRow, Row, Load
    <2>5. rows' \in Seq(Row)
      <3>1. CASE ~HasRow(l.name)
        BY <1>4, <2>4, <3>1 DEF PrinterLoaded, TypeOK
      <3>2. CASE HasRow(l.name)
        <4>1. RowIndex(l.name) \in 1..Len(rows)
          BY <3>2, RowIndexProps
        <4>2. [rows EXCEPT ![RowIndex(l.name)] = LoadedRow(l)] \in Seq(Row)
          BY <2>4, <4>1, ExceptSeq DEF TypeOK
        <4>3. QED
          BY <1>4, <3>2, <4>2 DEF PrinterLoaded, TypeOK
      <3>3. QED
        BY <3>1, <3>2
    <2>6. QED
      BY <1>4, <2>2, <2>5 DEF PrinterLoaded, TypeOK
  <1>5. CASE OnPrinterLoaded(l)
    BY <1>5 DEF OnPrinterLoaded, TypeOK
  <1>6. QED
    BY <1>2, <1>3, <1>4, <1>5 DEF LoadStep, Loader

\* Removing a row leaves a sequence of the other rows, in their order.
LEMMA RemoveAtProps ==
    ASSUME NEW S, NEW seq \in Seq(S), NEW k \in 1..Len(seq)
    PROVE  /\ RemoveAt(seq, k) \in Seq(S)
           /\ Len(RemoveAt(seq, k)) = Len(seq) - 1
           /\ \A i \in 1..(Len(seq) - 1) :
                RemoveAt(seq, k)[i] = IF i < k THEN seq[i] ELSE seq[i + 1]
  <1> DEFINE before == SubSeq(seq, 1, k - 1)
             after == SubSeq(seq, k + 1, Len(seq))
  <1>1. /\ before \in Seq(S)
        /\ Len(before) = k - 1
        /\ \A i \in 1..(k - 1) : before[i] = seq[i]
    OBVIOUS
  <1>2. /\ after \in Seq(S)
        /\ Len(after) = Len(seq) - k
        /\ \A i \in 1..(Len(seq) - k) : after[i] = seq[k + i]
    OBVIOUS
  <1>3. RemoveAt(seq, k) = before \o after
    BY DEF RemoveAt
  <1> HIDE DEF before, after
  <1>4. /\ before \o after \in Seq(S)
        /\ Len(before \o after) = Len(seq) - 1
    BY <1>1, <1>2
  <1>5. ASSUME NEW i \in 1..(Len(seq) - 1)
        PROVE  (before \o after)[i] = IF i < k THEN seq[i] ELSE seq[i + 1]
    <2>1. (before \o after)[i] =
            IF i <= k - 1 THEN before[i] ELSE after[i - (k - 1)]
      BY <1>1, <1>2
    <2>2. CASE i < k
      BY <1>1, <2>1, <2>2
    <2>3. CASE ~(i < k)
      <3>1. i - (k - 1) \in 1..(Len(seq) - k) /\ k + (i - (k - 1)) = i + 1
        BY <2>3
      <3>2. after[i - (k - 1)] = seq[i + 1]
        BY <1>2, <3>1
      <3>3. QED
        BY <2>1, <2>3, <3>2
    <2>4. QED
      BY <2>2, <2>3
  <1>6. QED
    BY <1>3, <1>4, <1>5

\* A handler of the main thread keeps the types.
LEMMA DeliverTypes ==
    ASSUME TypeOK, UniqueRows, OneLoad, NEW p \in Printer, Deliver(p)
    PROVE  TypeOK'
  <1>1. ProxyRow(p) \in Row
    BY DEF ProxyRow, Row, NoData, Data
  <1>2. bus' \in Seq(Signal) /\ UNCHANGED <<phase, server>>
    <2>1. bus # <<>> /\ bus' = Tail(bus) /\ UNCHANGED <<phase, server>>
      BY DEF Deliver, PrinterAdded, PrinterDeleted, PrinterSignalled, Delivered
    <2>2. QED
      BY <2>1 DEF TypeOK
  <1>3. CASE PrinterAdded(p)
    <2>1. rows' \in Seq(Row)
      BY <1>1, <1>3 DEF PrinterAdded, TypeOK
    <2>2. active' \subseteq Printer /\ loads' \subseteq Load
          /\ stale' \subseteq Printer
      BY <1>3, RequestKeeps DEF PrinterAdded
    <2>3. QED
      BY <1>2, <1>3, <2>1, <2>2 DEF PrinterAdded, TypeOK
  <1>4. CASE PrinterDeleted(p)
    <2>1. rows' \in Seq(Row)
      <3>1. CASE HasRow(p)
        <4>1. RowIndex(p) \in 1..Len(rows)
          BY <3>1, RowIndexProps
        <4>2. QED
          BY <1>4, <3>1, <4>1, RemoveAtProps DEF PrinterDeleted, TypeOK
      <3>2. CASE ~HasRow(p)
        BY <1>4, <3>2 DEF PrinterDeleted, TypeOK
      <3>3. QED
        BY <3>1, <3>2
    <2>2. QED
      BY <1>2, <1>4, <2>1 DEF PrinterDeleted, TypeOK
  <1>5. CASE PrinterSignalled(p)
    <2>1. pending' \subseteq Printer
      BY <1>5 DEF PrinterSignalled, Limiter!Keep, Limiter!KeepAndHandOn, TypeOK
    <2>2. active' \subseteq Printer /\ loads' \subseteq Load
          /\ stale' \subseteq Printer
      <3>1. CASE UNCHANGED <<active, loads, stale>>
        BY <3>1 DEF TypeOK
      <3>2. ASSUME NEW b \in SUBSET Printer, ModifiedBatch(b)
            PROVE  active' \subseteq Printer /\ loads' \subseteq Load
                   /\ stale' \subseteq Printer
        BY <3>2, RequestKeeps DEF ModifiedBatch
      <3>3. QED
        BY <1>5, <3>1, <3>2 DEF PrinterSignalled
    <2>3. QED
      BY <1>2, <1>5, <2>1, <2>2 DEF PrinterSignalled, TypeOK
  <1>6. QED
    BY <1>3, <1>4, <1>5 DEF Deliver

\* So does every other step.
LEMMA TypeStep ==
    ASSUME TypeOK, UniqueRows, OneLoad, [Next]_vars
    PROVE  TypeOK'
  <1>1. CASE ListPrinters
    <2> DEFINE listed == {p \in Printer : Present(p)}
    <2>1. PICK order \in SetToSeqs(listed) :
            rows' = [i \in DOMAIN order |-> ProxyRow(order[i])]
      BY <1>1 DEF ListPrinters
    <2>2. Cardinality(listed) \in Nat
      BY SyncAssumption, FS_Subset, FS_CardinalityType
    <2>3. order \in [1..Cardinality(listed) -> Printer]
      BY <2>1 DEF SetToSeqs
    <2>4. \A p \in Printer : ProxyRow(p) \in Row
      BY DEF ProxyRow, Row, NoData, Data
    <2>5. rows' \in Seq(Row)
      BY <2>1, <2>2, <2>3, <2>4
    <2>6. QED
      BY <1>1, <2>5 DEF ListPrinters, TypeOK, Phase
  <1>2. CASE Subscribe
    <2>1. active' \subseteq Printer /\ loads' \subseteq Load
          /\ stale' \subseteq Printer
      <3>1. CASE UNCHANGED <<active, loads, stale>>
        BY <3>1 DEF TypeOK
      <3>2. ASSUME NEW p \in Printer, Request({p})
            PROVE  active' \subseteq Printer /\ loads' \subseteq Load
                   /\ stale' \subseteq Printer
        BY <3>2, RequestKeeps
      <3>3. QED
        BY <1>2, <3>1, <3>2 DEF Subscribe
    <2>2. QED
      BY <1>2, <2>1 DEF Subscribe, TypeOK, Phase
  <1>3. ASSUME NEW p \in Printer, Server(p)
        PROVE  TypeOK'
    BY <1>3, ServerTypes
  <1>4. ASSUME NEW l \in loads, LoadStep(l)
        PROVE  TypeOK'
    BY <1>4, LoadTypes
  <1>5. ASSUME NEW p \in Printer, Deliver(p)
        PROVE  TypeOK'
    BY <1>5, DeliverTypes
  <1>6. CASE LimiterEmits
    <2>1. PICK b \in SUBSET Printer : Limiter!HandOn(b) /\ ModifiedBatch(b)
      BY <1>6 DEF LimiterEmits
    <2>2. active' \subseteq Printer /\ loads' \subseteq Load
          /\ stale' \subseteq Printer
      BY <2>1, RequestKeeps DEF ModifiedBatch
    <2>3. pending' = {}
      BY <2>1 DEF Limiter!HandOn
    <2>4. QED
      BY <1>6, <2>2, <2>3 DEF LimiterEmits, TypeOK
  <1>7. ASSUME NEW p \in Printer, ReadRow(p) \/ LoadPrinter(p)
        PROVE  TypeOK'
    <2>1. active' \subseteq Printer /\ loads' \subseteq Load
          /\ stale' \subseteq Printer
      BY <1>7, RequestKeeps DEF ReadRow, LoadPrinter, RequestIfProxy
    <2>2. QED
      BY <1>7, <2>1 DEF ReadRow, LoadPrinter, RequestIfProxy, TypeOK
  <1>8. ASSUME NEW p \in Printer, SetAndRefresh(p)
        PROVE  TypeOK'
    <2>1. server' \in [Printer -> Data] /\ bus' \in Seq(Signal)
          /\ stale' \subseteq Printer
      <3>1. CASE UNCHANGED <<server, bus, stale>>
        BY <3>1 DEF TypeOK
      <3>2. CASE Modify(p)
        <4>1. [kind |-> "Modified", printer |-> p] \in Signal
          BY DEF Signal
        <4>2. QED
          BY <3>2, <4>1 DEF Modify, Change, Announce, TypeOK, Data
      <3>3. QED
        BY <1>8, <3>1, <3>2 DEF SetAndRefresh
    <2>2. RowIndex(p) \in 1..Len(rows)
      BY <1>8, RowIndexProps DEF SetAndRefresh
    <2>3. [rows[RowIndex(p)] EXCEPT !.info = server'[p]] \in Row
      <3>1. rows[RowIndex(p)] \in Row
        BY <2>2, ElementOfSeq DEF TypeOK
      <3>2. server'[p] \in Data
        BY <2>1
      <3>3. \A r \in Row, d \in Data : [r EXCEPT !.info = d] \in Row
        BY DEF Row
      <3>4. QED
        BY <3>1, <3>2, <3>3
    <2>4. rows' = [rows EXCEPT ![RowIndex(p)] =
                       [rows[RowIndex(p)] EXCEPT !.info = server'[p]]]
      BY <1>8, <2>2 DEF SetAndRefresh, TypeOK
    <2>5. rows' \in Seq(Row)
      BY <2>2, <2>3, <2>4, ExceptSeq DEF TypeOK
    <2>6. QED
      BY <1>8, <2>1, <2>5 DEF SetAndRefresh, TypeOK
  <1>9. CASE UNCHANGED vars
    BY <1>9 DEF vars, TypeOK
  <1>10. QED
    BY <1>1, <1>2, <1>3, <1>4, <1>5, <1>6, <1>7, <1>8, <1>9 DEF Next

-----------------------------------------------------------------------------
(* One row for each printer. *)

\* A row that is replaced by one of the same name changes no names.
LEMMA ReplacedKeepsUnique ==
    ASSUME TypeOK, UniqueRows, NEW k \in 1..Len(rows), NEW r,
           r.name = rows[k].name, rows' = [rows EXCEPT ![k] = r]
    PROVE  UniqueRows'
  <1>1. DOMAIN rows' = DOMAIN rows
    BY DEF TypeOK
  <1>2. \A i \in DOMAIN rows : rows'[i].name = rows[i].name
    BY DEF TypeOK
  <1>3. QED
    BY <1>1, <1>2 DEF UniqueRows

\* A row for a name that has none can be appended.
LEMMA AppendedKeepsUnique ==
    ASSUME TypeOK, UniqueRows, NEW r \in Row, ~HasRow(r.name),
           rows' = Append(rows, r)
    PROVE  UniqueRows'
  <1>1. /\ Len(rows) \in Nat
        /\ DOMAIN rows = 1..Len(rows)
        /\ DOMAIN rows' = 1..(Len(rows) + 1)
        /\ \A i \in 1..Len(rows) : rows'[i] = rows[i]
        /\ rows'[Len(rows) + 1] = r
    BY AppendProperties DEF TypeOK
  <1>2. \A i \in 1..Len(rows) : rows[i].name # r.name
    BY <1>1 DEF HasRow
  <1>3. ASSUME NEW i \in DOMAIN rows', NEW j \in DOMAIN rows',
               rows'[i].name = rows'[j].name
        PROVE  i = j
    <2>1. CASE i \in 1..Len(rows) /\ j \in 1..Len(rows)
      BY <1>1, <1>3, <2>1 DEF UniqueRows
    <2>2. CASE i = Len(rows) + 1 \/ j = Len(rows) + 1
      BY <1>1, <1>2, <1>3, <2>2
    <2>3. QED
      BY <1>1, <2>1, <2>2
  <1>4. QED
    BY <1>3 DEF UniqueRows

LEMMA RemovedKeepsUnique ==
    ASSUME TypeOK, UniqueRows, NEW k \in 1..Len(rows),
           rows' = RemoveAt(rows, k)
    PROVE  UniqueRows'
  <1>1. /\ Len(rows) \in Nat
        /\ DOMAIN rows = 1..Len(rows)
        /\ DOMAIN rows' = 1..(Len(rows) - 1)
        /\ \A i \in 1..(Len(rows) - 1) :
             rows'[i] = IF i < k THEN rows[i] ELSE rows[i + 1]
    <2>1. rows \in Seq(Row)
      BY DEF TypeOK
    <2>2. /\ RemoveAt(rows, k) \in Seq(Row)
          /\ Len(RemoveAt(rows, k)) = Len(rows) - 1
          /\ \A i \in 1..(Len(rows) - 1) :
               RemoveAt(rows, k)[i] = IF i < k THEN rows[i] ELSE rows[i + 1]
      BY <2>1, RemoveAtProps
    <2>3. QED
      BY <2>1, <2>2
  <1> DEFINE was(i) == IF i < k THEN i ELSE i + 1
  <1>2. \A i \in DOMAIN rows' : was(i) \in DOMAIN rows
                                /\ rows'[i] = rows[was(i)]
    BY <1>1
  <1>3. \A i, j \in DOMAIN rows' : was(i) = was(j) => i = j
    BY <1>1
  <1> HIDE DEF was
  <1>4. QED
    BY <1>2, <1>3 DEF UniqueRows

LEMMA RowsStep ==
    ASSUME TypeOK, UniqueRows, OneLoad, [Next]_vars
    PROVE  UniqueRows'
  <1>1. CASE UNCHANGED rows
    BY <1>1 DEF UniqueRows
  <1>2. CASE ListPrinters
    <2> DEFINE listed == {p \in Printer : Present(p)}
    <2>1. PICK order \in SetToSeqs(listed) :
            rows' = [i \in DOMAIN order |-> ProxyRow(order[i])]
      BY <1>2 DEF ListPrinters
    <2>2. \A i, j \in DOMAIN order : order[i] = order[j] => i = j
      BY <2>1 DEF SetToSeqs
    <2>3. DOMAIN rows' = DOMAIN order
          /\ \A i \in DOMAIN order : rows'[i].name = order[i]
      BY <2>1 DEF ProxyRow
    <2>4. QED
      BY <2>2, <2>3 DEF UniqueRows
  <1>3. ASSUME NEW l \in loads, PrinterLoaded(l)
        PROVE  UniqueRows'
    <2>1. l.name \in Printer /\ l \in Load
      BY <1>3 DEF PrinterLoaded, OneLoad, HasRead, TypeOK, Load
    <2>2. LoadedRow(l) \in Row /\ LoadedRow(l).name = l.name
      BY <2>1 DEF LoadedRow, Row, Load
    <2>3. CASE HasRow(l.name)
      <3>1. \/ UNCHANGED rows
            \/ rows' = [rows EXCEPT ![RowIndex(l.name)] = LoadedRow(l)]
        BY <1>3, <2>3 DEF PrinterLoaded
      <3>2. QED
        BY <1>1, <2>2, <2>3, <3>1, RowIndexProps, ReplacedKeepsUnique
    <2>4. CASE ~HasRow(l.name)
      BY <1>3, <2>2, <2>4, AppendedKeepsUnique DEF PrinterLoaded
    <2>5. QED
      BY <2>3, <2>4
  <1>4. ASSUME NEW p \in Printer, PrinterAdded(p)
        PROVE  UniqueRows'
    <2>1. ProxyRow(p) \in Row /\ ProxyRow(p).name = p
      BY DEF ProxyRow, Row, NoData, Data
    <2>2. QED
      BY <1>1, <1>4, <2>1, AppendedKeepsUnique DEF PrinterAdded
  <1>5. ASSUME NEW p \in Printer, PrinterDeleted(p)
        PROVE  UniqueRows'
    BY <1>1, <1>5, RowIndexProps, RemovedKeepsUnique DEF PrinterDeleted
  <1>6. ASSUME NEW p \in Printer, SetAndRefresh(p)
        PROVE  UniqueRows'
    <2>1. RowIndex(p) \in 1..Len(rows)
      BY <1>6, RowIndexProps DEF SetAndRefresh
    <2>2. rows' = [rows EXCEPT ![RowIndex(p)] =
                       [rows[RowIndex(p)] EXCEPT !.info = server'[p]]]
      BY <1>6, <2>1 DEF SetAndRefresh, TypeOK
    <2>3. rows[RowIndex(p)] \in Row
      BY <2>1, ElementOfSeq DEF TypeOK
    <2>4. [rows[RowIndex(p)] EXCEPT !.info = server'[p]].name
            = rows[RowIndex(p)].name
      BY <2>3 DEF Row
    <2>5. QED
      BY <2>1, <2>2, <2>4, ReplacedKeepsUnique
  <1>7. QED
    BY <1>1, <1>2, <1>3, <1>4, <1>5, <1>6
    DEF Next, vars, Subscribe, Server, ServerAdd, ServerDelete, ServerModify,
        LoadStep, Loader, LoaderReadsInfo, LoaderReadsAttributes,
        OnPrinterLoaded, Deliver, PrinterSignalled, LimiterEmits, ReadRow,
        LoadPrinter, RequestIfProxy

-----------------------------------------------------------------------------
(* The rows and the signals of a printer, without their places. *)

RowsNamed(n) == {rows[i] : i \in {k \in DOMAIN rows : rows[k].name = n}}

LEMMA HasRowNamed ==
    ASSUME NEW n
    PROVE  HasRow(n) <=> RowsNamed(n) # {}
  <1>1. \A i \in DOMAIN rows : rows[i].name = n => rows[i] \in RowsNamed(n)
    BY DEF RowsNamed
  <1>2. ASSUME NEW r \in RowsNamed(n)
        PROVE  \E i \in DOMAIN rows : rows[i].name = n
    <2>1. PICK i \in {k \in DOMAIN rows : rows[k].name = n} : r = rows[i]
      BY DEF RowsNamed
    <2>2. QED
      BY <2>1
  <1>3. QED
    BY <1>1, <1>2 DEF HasRow

LEMMA RowOfNamed ==
    ASSUME TypeOK, UniqueRows, NEW n, HasRow(n)
    PROVE  RowsNamed(n) = {RowOf(n)}
  <1>1. RowIndex(n) \in DOMAIN rows /\ rows[RowIndex(n)].name = n
    BY RowIndexProps DEF TypeOK
  <1>2. {k \in DOMAIN rows : rows[k].name = n} = {RowIndex(n)}
    BY <1>1 DEF UniqueRows
  <1>3. QED
    BY <1>2 DEF RowsNamed, RowOf

LEMMA AppendedRows ==
    ASSUME TypeOK, NEW r \in Row, rows' = Append(rows, r), NEW n
    PROVE  RowsNamed(n)' = IF n = r.name THEN RowsNamed(n) \union {r}
                                         ELSE RowsNamed(n)
  <1>1. /\ Len(rows) \in Nat
        /\ DOMAIN rows = 1..Len(rows)
        /\ DOMAIN rows' = 1..(Len(rows) + 1)
        /\ \A i \in 1..Len(rows) : rows'[i] = rows[i]
        /\ rows'[Len(rows) + 1] = r
    BY AppendProperties DEF TypeOK
  <1>2. DOMAIN rows' = DOMAIN rows \union {Len(rows) + 1}
    BY <1>1
  <1>3. QED
    BY <1>1, <1>2 DEF RowsNamed

LEMMA ReplacedRows ==
    ASSUME TypeOK, UniqueRows, NEW k \in 1..Len(rows), NEW r,
           r.name = rows[k].name, rows' = [rows EXCEPT ![k] = r], NEW n
    PROVE  RowsNamed(n)' = IF n = r.name THEN {r} ELSE RowsNamed(n)
  <1>1. DOMAIN rows' = DOMAIN rows /\ k \in DOMAIN rows
    BY DEF TypeOK
  <1>2. rows'[k] = r /\ \A i \in DOMAIN rows : i # k => rows'[i] = rows[i]
    BY <1>1
  <1>3. \A i \in DOMAIN rows : rows[i].name = r.name => i = k
    BY <1>1 DEF UniqueRows
  <1>4. QED
    BY <1>1, <1>2, <1>3 DEF RowsNamed

LEMMA RemovedRows ==
    ASSUME TypeOK, UniqueRows, NEW k \in 1..Len(rows),
           rows' = RemoveAt(rows, k), NEW n
    PROVE  RowsNamed(n)' = IF n = rows[k].name THEN {} ELSE RowsNamed(n)
  <1>1. /\ rows \in Seq(Row) /\ Len(rows) \in Nat
        /\ DOMAIN rows = 1..Len(rows)
    BY DEF TypeOK
  <1>2. /\ DOMAIN rows' = 1..(Len(rows) - 1)
        /\ \A i \in 1..(Len(rows) - 1) :
             rows'[i] = IF i < k THEN rows[i] ELSE rows[i + 1]
    <2>1. /\ RemoveAt(rows, k) \in Seq(Row)
          /\ Len(RemoveAt(rows, k)) = Len(rows) - 1
          /\ \A i \in 1..(Len(rows) - 1) :
               RemoveAt(rows, k)[i] = IF i < k THEN rows[i] ELSE rows[i + 1]
      BY <1>1, RemoveAtProps
    <2>2. QED
      BY <1>1, <2>1
  <1>3. \A i \in DOMAIN rows : rows[i].name = rows[k].name => i = k
    BY <1>1 DEF UniqueRows
  <1>4. \A i \in DOMAIN rows' : \E j \in DOMAIN rows \ {k} : rows'[i] = rows[j]
    BY <1>1, <1>2
  <1>5. \A j \in DOMAIN rows \ {k} : \E i \in DOMAIN rows' : rows'[i] = rows[j]
    <2>1. SUFFICES ASSUME NEW j \in DOMAIN rows \ {k}
                   PROVE  \E i \in DOMAIN rows' : rows'[i] = rows[j]
      OBVIOUS
    <2>2. CASE j < k
      BY <1>1, <1>2, <2>2
    <2>3. CASE j > k
      <3>1. j - 1 \in DOMAIN rows' /\ ~(j - 1 < k) /\ (j - 1) + 1 = j
        BY <1>1, <1>2, <2>3
      <3>2. QED
        BY <1>2, <3>1
    <2>4. QED
      BY <1>1, <2>2, <2>3
  <1>6. CASE n = rows[k].name
    <2>1. \A i \in DOMAIN rows' : rows'[i].name # n
      BY <1>3, <1>4, <1>6
    <2>2. QED
      BY <1>6, <2>1 DEF RowsNamed
  <1>7. CASE n # rows[k].name
    <2>1. \A x : x \in RowsNamed(n)' =>  x \in RowsNamed(n)
      BY <1>4 DEF RowsNamed
    <2>2. \A x : x \in RowsNamed(n) =>  x \in RowsNamed(n)'
      <3>1. SUFFICES ASSUME NEW j \in DOMAIN rows, rows[j].name = n
                     PROVE  rows[j] \in RowsNamed(n)'
        BY DEF RowsNamed
      <3>2. j \in DOMAIN rows \ {k}
        BY <1>7, <3>1
      <3>3. QED
        BY <1>5, <3>1, <3>2 DEF RowsNamed
    <2>3. QED
      BY <1>7, <2>1, <2>2
  <1>8. QED
    BY <1>6, <1>7

\* A signal about p is on its way, and one that p comes or goes.
InBus(p) == \E i \in DOMAIN bus : bus[i].printer = p
ComesOrGoes(p) ==
    \E i \in DOMAIN bus : bus[i].printer = p /\ bus[i].kind # "Modified"

\* The last of the latter says whether CUPS has p.
LastKnown(p) ==
    \A i \in DOMAIN bus :
        /\ bus[i].printer = p /\ bus[i].kind # "Modified"
        /\ \A j \in DOMAIN bus :
             j > i /\ bus[j].printer = p => bus[j].kind = "Modified"
        => (Present(p) <=> bus[i].kind = "Added")

LEMMA AnnouncedIs ==
    ASSUME NEW p PROVE Announced(p) <=> p \in pending \/ InBus(p)
  BY DEF Announced, InBus

LEMMA BusAppended ==
    ASSUME TypeOK, NEW s \in Signal, bus' = Append(bus, s), NEW p
    PROVE  /\ InBus(p)' <=> InBus(p) \/ s.printer = p
           /\ ComesOrGoes(p)' <=>
                ComesOrGoes(p) \/ (s.printer = p /\ s.kind # "Modified")
  <1>1. /\ Len(bus) \in Nat
        /\ DOMAIN bus = 1..Len(bus)
        /\ DOMAIN bus' = 1..(Len(bus) + 1)
        /\ \A i \in 1..Len(bus) : bus'[i] = bus[i]
        /\ bus'[Len(bus) + 1] = s
    BY AppendProperties DEF TypeOK
  <1>2. DOMAIN bus' = DOMAIN bus \union {Len(bus) + 1}
    BY <1>1
  <1>3. QED
    BY <1>1, <1>2 DEF InBus, ComesOrGoes

LEMMA BusTail ==
    ASSUME TypeOK, bus # <<>>, bus' = Tail(bus), NEW p
    PROVE  /\ InBus(p) <=> InBus(p)' \/ Head(bus).printer = p
           /\ ComesOrGoes(p) <=>
                ComesOrGoes(p)' \/ (Head(bus).printer = p /\ Head(bus).kind # "Modified")
  <1>1. /\ Len(bus) \in Nat
        /\ DOMAIN bus = 1..Len(bus)
        /\ DOMAIN bus' = 1..(Len(bus) - 1)
        /\ \A i \in 1..(Len(bus) - 1) : bus'[i] = bus[i + 1]
        /\ Len(bus) > 0
        /\ Head(bus) = bus[1]
    BY HeadTailProperties, EmptySeq DEF TypeOK
  <1>2. \A i \in DOMAIN bus' : i + 1 \in DOMAIN bus /\ bus'[i] = bus[i + 1]
    BY <1>1
  <1>3. \A i \in DOMAIN bus : i = 1 \/ (i - 1 \in DOMAIN bus' /\ bus'[i - 1] = bus[i])
    BY <1>1
  <1>4. 1 \in DOMAIN bus
    BY <1>1
  <1>5. InBus(p) => InBus(p)' \/ Head(bus).printer = p
    BY <1>1, <1>3 DEF InBus
  <1>6. InBus(p)' \/ Head(bus).printer = p => InBus(p)
    BY <1>1, <1>2, <1>4 DEF InBus
  <1>7. ComesOrGoes(p) =>
          ComesOrGoes(p)' \/ (Head(bus).printer = p /\ Head(bus).kind # "Modified")
    BY <1>1, <1>3 DEF ComesOrGoes
  <1>8. ComesOrGoes(p)' \/ (Head(bus).printer = p /\ Head(bus).kind # "Modified")
          => ComesOrGoes(p)
    BY <1>1, <1>2, <1>4 DEF ComesOrGoes
  <1>9. QED
    BY <1>5, <1>6, <1>7, <1>8

\* What was said last of p, when it has been delivered.
LEMMA LastIsKnown ==
    ASSUME TypeOK, NEW p, LastKnown(p), bus # <<>>, bus' = Tail(bus),
           Head(bus).printer = p, Head(bus).kind # "Modified", ~ComesOrGoes(p)'
    PROVE  Present(p) <=> Head(bus).kind = "Added"
  <1>1. /\ Len(bus) \in Nat
        /\ DOMAIN bus = 1..Len(bus)
        /\ DOMAIN bus' = 1..(Len(bus) - 1)
        /\ \A i \in 1..(Len(bus) - 1) : bus'[i] = bus[i + 1]
        /\ Len(bus) > 0
        /\ Head(bus) = bus[1]
    BY HeadTailProperties, EmptySeq DEF TypeOK
  <1>2. \A j \in DOMAIN bus : j > 1 => j - 1 \in DOMAIN bus' /\ bus'[j - 1] = bus[j]
    BY <1>1
  <1>3. \A j \in DOMAIN bus : j > 1 /\ bus[j].printer = p => bus[j].kind = "Modified"
    BY <1>2 DEF ComesOrGoes
  <1>4. 1 \in DOMAIN bus
    BY <1>1
  <1>5. QED
    BY <1>1, <1>3, <1>4 DEF LastKnown

-----------------------------------------------------------------------------
(* What is known of one printer. *)

\* Nothing is loaded and nothing signalled before Printers' constructor has
\* come that far.
Early ==
    /\ phase = "new" => rows = <<>>
    /\ phase \in {"new", "listed"} => loads = {}
    /\ phase \in {"new", "listed"} =>
         \A i \in DOMAIN rows : rows[i].type = "proxy"
    /\ phase # "running" => bus = <<>>

\* DataCurrent, of p alone.
Fresh(p) ==
    p \notin stale /\ p \notin ghost =>
      /\ \A l \in LoadsOf(p) :
           /\ l.stage \in {"named", "queued"} =>
                Current(p, l.info) \/ Announced(p)
           /\ l.stage = "queued" => Current(p, l.attributes) \/ Announced(p)
      /\ \A r \in RowsNamed(p) : r.type = "cups" =>
           \/ Current(p, r.info) /\ Current(p, r.attributes)
           \/ Announced(p)
           \/ \E l \in LoadsOf(p) : Undelivered(l)

\* p is listed just when CUPS has it, once no signal says that it changes,
\* and a load that is to be applied has a row to be applied to.
Matching(p) ==
    p \notin ghost =>
      /\ \A l \in LoadsOf(p) : Undelivered(l) => RowsNamed(p) # {}
      /\ phase # "new" /\ ~ComesOrGoes(p) =>
           (RowsNamed(p) # {} <=> Present(p))

\* Nothing is newer than the server, no row newer than a load to be applied.
Versioned(p) ==
    /\ \A r \in RowsNamed(p) : /\ r.info.version <= server[p].version
                               /\ r.attributes.version <= server[p].version
    /\ \A l \in LoadsOf(p) :
         /\ l.info.version <= server[p].version
         /\ l.attributes.version <= server[p].version
         /\ l.stage = "queued" =>
              \A r \in RowsNamed(p) : r.attributes.version <= l.attributes.version

Kept(p) == Fresh(p) /\ Matching(p) /\ Versioned(p)

Sound == TypeOK /\ UniqueRows /\ OneLoad /\ Early

\* Whatever leaves what is known of p alone.
LEMMA Framed ==
    ASSUME NEW p, Kept(p), phase # "new" \/ phase' = "new",
           server'[p] = server[p], LoadsOf(p)' = LoadsOf(p),
           RowsNamed(p)' = RowsNamed(p), Announced(p) => Announced(p)',
           ComesOrGoes(p)' <=> ComesOrGoes(p),
           p \in stale => p \in stale', p \in ghost' <=> p \in ghost
    PROVE  Kept(p)'
  <1>1. Fresh(p)'
    BY DEF Kept, Fresh, Current, Undelivered
  <1>2. Matching(p)'
    BY DEF Kept, Matching, Present, Undelivered
  <1>3. Versioned(p)'
    BY DEF Kept, Versioned
  <1>4. QED
    BY <1>1, <1>2, <1>3 DEF Kept

NewLoad(p) == [printer |-> p, stage |-> "started", name |-> NoName,
               info |-> NoData, attributes |-> NoData]

\* A request starts a load, finds one that has read nothing yet, or is lost.
LEMMA Requested ==
    ASSUME TypeOK, OneLoad, NEW S \in SUBSET Printer, Request(S), NEW p
    PROVE  /\ p \notin S => /\ LoadsOf(p)' = LoadsOf(p)
                            /\ p \in stale' <=> p \in stale
           /\ p \in S => /\ \/ p \in stale'
                            \/ \A l \in LoadsOf(p)' : l.stage = "started"
                         /\ \E l \in LoadsOf(p)' : TRUE
           /\ \A l \in LoadsOf(p)' : l \in LoadsOf(p) \/ l = NewLoad(p)
  <1>1. /\ active' = active \union (S \ active)
        /\ loads' = loads \union {NewLoad(q) : q \in S \ active}
        /\ stale' = (stale \ (S \ active)) \union
               {q \in S \intersect active : \E l \in LoadsOf(q) : HasRead(l)}
    BY DEF Request, NewLoad
  <1>2. \A q : NewLoad(q).printer = q /\ NewLoad(q).stage = "started"
    BY DEF NewLoad
  <1>3. \A l : l \in LoadsOf(p)' <=>
               l \in LoadsOf(p) \/ (p \in S \ active /\ l = NewLoad(p))
    BY <1>1, <1>2 DEF LoadsOf
  <1>4. p \in stale' <=> \/ p \in stale /\ p \notin S \ active
                         \/ /\ p \in S \intersect active
                            /\ \E l \in LoadsOf(p) : HasRead(l)
    BY <1>1
  <1>5. CASE p \notin S
    <2>1. LoadsOf(p)' = LoadsOf(p)
      BY <1>3, <1>5
    <2>2. QED
      BY <1>4, <1>5, <2>1
  <1>6. CASE p \in S /\ p \in active
    <2>1. \E l \in LoadsOf(p)' : TRUE
      BY <1>3, <1>6 DEF OneLoad, LoadsOf
    <2>2. QED
      BY <1>3, <1>4, <1>6, <2>1 DEF HasRead
  <1>7. CASE p \in S /\ p \notin active
    <2>1. LoadsOf(p) = {}
      BY <1>7 DEF OneLoad, LoadsOf
    <2>2. QED
      BY <1>2, <1>3, <1>7, <2>1
  <1>8. QED
    BY <1>5, <1>6, <1>7

\* Whatever requests printers that have a row, and hands on only the names
\* of those or of printers that have none.
LEMMA Asked ==
    ASSUME TypeOK, OneLoad, NEW S \in SUBSET Printer, Request(S),
           NEW p \in Printer, Kept(p), phase # "new",
           server'[p] = server[p], RowsNamed(p)' = RowsNamed(p),
           p \in S => RowsNamed(p) # {} \/ p \in ghost,
           \/ p \in S \/ RowsNamed(p) = {} \/ (Announced(p) => Announced(p)'),
           ComesOrGoes(p)' <=> ComesOrGoes(p), p \in ghost' <=> p \in ghost
    PROVE  Kept(p)'
  <1>1. /\ p \notin S => /\ LoadsOf(p)' = LoadsOf(p)
                         /\ p \in stale' <=> p \in stale
        /\ p \in S => /\ \/ p \in stale'
                         \/ \A l \in LoadsOf(p)' : l.stage = "started"
                      /\ \E l \in LoadsOf(p)' : TRUE
        /\ \A l \in LoadsOf(p)' : l \in LoadsOf(p) \/ l = NewLoad(p)
    BY Requested
  <1>2. Fresh(p)'
    <2>1. CASE p \in S
      BY <1>1, <2>1 DEF Fresh, Undelivered
    <2>2. CASE p \notin S /\ RowsNamed(p) = {}
      BY <1>1, <2>2 DEF Kept, Fresh, Matching, Undelivered
    <2>3. CASE p \notin S /\ (Announced(p) => Announced(p)')
      BY <1>1, <2>3 DEF Kept, Fresh, Current, Undelivered
    <2>4. QED
      BY <2>1, <2>2, <2>3
  <1>3. Matching(p)'
    BY <1>1 DEF Kept, Matching, Present, Undelivered
  <1>4. Versioned(p)'
    <2>1. /\ NewLoad(p).info.version = 0
          /\ NewLoad(p).attributes.version = 0
          /\ NewLoad(p).stage = "started"
      BY DEF NewLoad, NoData
    <2>2. server[p].version \in Nat
      BY DEF TypeOK, Data
    <2>3. QED
      BY <1>1, <2>1, <2>2 DEF Kept, Versioned
  <1>5. QED
    BY <1>2, <1>3, <1>4 DEF Kept

-----------------------------------------------------------------------------
(* Every step keeps what is known of each printer: first CUPS and the bus. *)

LEMMA EarlyStep ==
    ASSUME TypeOK, Early, [Next]_vars
    PROVE  Early'
  <1>1. CASE ListPrinters
    <2>1. \A q : ProxyRow(q).type = "proxy"
      BY DEF ProxyRow
    <2>2. \A i \in DOMAIN rows' : rows'[i].type = "proxy"
      BY <1>1, <2>1 DEF ListPrinters
    <2>3. QED
      BY <1>1, <2>2 DEF ListPrinters, Early
  <1>2. CASE Subscribe
    BY <1>2 DEF Subscribe, Early
  <1>3. ASSUME NEW q \in Printer, Server(q)
        PROVE  Early'
    BY <1>3 DEF Server, ServerAdd, ServerDelete, ServerModify, Modify, Announce, Early
  <1>4. ASSUME NEW l \in loads, LoadStep(l)
        PROVE  Early'
    <2>1. phase \notin {"new", "listed"}
      BY DEF Early
    <2>2. UNCHANGED <<phase, bus>>
      BY <1>4 DEF LoadStep, Loader, LoaderReadsInfo, LoaderReadsAttributes,
                  PrinterLoaded, OnPrinterLoaded
    <2>3. QED
      BY <2>1, <2>2 DEF Early
  <1>5. ASSUME NEW q \in Printer, Deliver(q)
        PROVE  Early'
    <2>1. Up /\ bus # <<>> /\ UNCHANGED phase
      BY <1>5 DEF Deliver, PrinterAdded, PrinterDeleted, PrinterSignalled, Delivered
    <2>2. QED
      BY <2>1 DEF Early, Up
  <1>6. CASE LimiterEmits
    BY <1>6 DEF LimiterEmits, Early, Up
  <1>7. ASSUME NEW q \in Printer,
               ReadRow(q) \/ LoadPrinter(q) \/ SetAndRefresh(q)
        PROVE  Early'
    BY <1>7 DEF ReadRow, LoadPrinter, RequestIfProxy, SetAndRefresh, Modify,
                Announce, Early, Up
  <1>8. CASE UNCHANGED vars
    BY <1>8 DEF vars, Early
  <1>9. QED
    BY <1>1, <1>2, <1>3, <1>4, <1>5, <1>6, <1>7, <1>8 DEF Next

\* A signal at the end of the bus that says what CUPS has just done, of p, or
\* anything, of another printer.
LEMMA LastAppended ==
    ASSUME TypeOK, NEW p, LastKnown(p), NEW s \in Signal, bus' = Append(bus, s),
           s.printer = p /\ s.kind # "Modified"
             => (Present(p)' <=> s.kind = "Added"),
           s.printer # p \/ s.kind = "Modified" => (Present(p)' <=> Present(p))
    PROVE  LastKnown(p)'
  <1>1. /\ Len(bus) \in Nat
        /\ DOMAIN bus = 1..Len(bus)
        /\ DOMAIN bus' = 1..(Len(bus) + 1)
        /\ \A i \in 1..Len(bus) : bus'[i] = bus[i]
        /\ bus'[Len(bus) + 1] = s
    BY AppendProperties DEF TypeOK
  <1>2. SUFFICES ASSUME NEW i \in DOMAIN bus',
                        bus'[i].printer = p /\ bus'[i].kind # "Modified",
                        \A j \in DOMAIN bus' :
                          j > i /\ bus'[j].printer = p => bus'[j].kind = "Modified"
                 PROVE  Present(p)' <=> bus'[i].kind = "Added"
    BY DEF LastKnown
  <1>3. CASE i = Len(bus) + 1
    BY <1>1, <1>2, <1>3
  <1>4. CASE i # Len(bus) + 1
    <2>1. i \in DOMAIN bus /\ bus'[i] = bus[i]
      BY <1>1, <1>4
    <2>2. Len(bus) + 1 \in DOMAIN bus' /\ Len(bus) + 1 > i
      BY <1>1, <2>1
    <2>3. s.printer = p => s.kind = "Modified"
      BY <1>1, <1>2, <2>2
    <2>4. \A j \in DOMAIN bus : j \in DOMAIN bus' /\ bus'[j] = bus[j]
      BY <1>1
    <2>5. \A j \in DOMAIN bus :
            j > i /\ bus[j].printer = p => bus[j].kind = "Modified"
      BY <1>2, <2>4
    <2>6. Present(p) <=> bus[i].kind = "Added"
      BY <1>2, <2>1, <2>5 DEF LastKnown
    <2>7. QED
      BY <2>1, <2>3, <2>6
  <1>5. QED
    BY <1>3, <1>4

LEMMA LastTail ==
    ASSUME TypeOK, NEW p, LastKnown(p), bus # <<>>, bus' = Tail(bus),
           Present(p)' <=> Present(p)
    PROVE  LastKnown(p)'
  <1>1. /\ Len(bus) \in Nat
        /\ DOMAIN bus = 1..Len(bus)
        /\ DOMAIN bus' = 1..(Len(bus) - 1)
        /\ \A i \in 1..(Len(bus) - 1) : bus'[i] = bus[i + 1]
    BY HeadTailProperties, EmptySeq DEF TypeOK
  <1>2. SUFFICES ASSUME NEW i \in DOMAIN bus',
                        bus'[i].printer = p /\ bus'[i].kind # "Modified",
                        \A j \in DOMAIN bus' :
                          j > i /\ bus'[j].printer = p => bus'[j].kind = "Modified"
                 PROVE  Present(p)' <=> bus'[i].kind = "Added"
    BY DEF LastKnown
  <1>3. i + 1 \in DOMAIN bus /\ bus'[i] = bus[i + 1]
    BY <1>1
  <1>4. \A j \in DOMAIN bus : j > i + 1 =>
          j - 1 \in DOMAIN bus' /\ j - 1 > i /\ bus'[j - 1] = bus[j]
    BY <1>1
  <1>5. \A j \in DOMAIN bus :
          j > i + 1 /\ bus[j].printer = p => bus[j].kind = "Modified"
    BY <1>2, <1>4
  <1>6. QED
    BY <1>2, <1>3, <1>5 DEF LastKnown

\* What a change of q does.
LEMMA ServerShape ==
    ASSUME TypeOK, NEW q \in Printer,
           \/ ServerAdd(q) \/ ServerDelete(q) \/ Modify(q)
    PROVE  /\ \E kind \in {"Added", "Modified", "Deleted"} :
                /\ Announce(kind, q)
                /\ kind = "Modified" => Present(q) /\ Present(q)'
                /\ kind # "Modified" => (Present(q)' <=> kind = "Added")
                /\ kind # "Modified" => MissedChange(q)
           /\ \A p \in Printer \ {q} : server'[p] = server[p]
           /\ server'[q].version = server[q].version + 1
           /\ stale' = IF phase = "deaf" THEN stale \union {q} ELSE stale
           /\ Modify(q) \/ MissedChange(q)
  <1>1. \A c \in Content \union {Absent} : Change(q, c) =>
          /\ \A p \in Printer \ {q} : server'[p] = server[p]
          /\ server'[q].version = server[q].version + 1
          /\ server'[q].content = c
    BY DEF Change, TypeOK
  <1>2. CASE ServerAdd(q)
    BY <1>1, <1>2, SyncAssumption DEF ServerAdd, MissedChange, Present
  <1>3. CASE ServerDelete(q)
    BY <1>1, <1>3 DEF ServerDelete, MissedChange, Present
  <1>4. CASE Modify(q)
    BY <1>1, <1>4, SyncAssumption DEF Modify, Present
  <1>5. QED
    BY <1>2, <1>3, <1>4

\* What a step puts on the bus or takes off it.
LEMMA BusShape ==
    ASSUME TypeOK, [Next]_vars
    PROVE  \/ UNCHANGED <<bus, server>>
           \/ bus # <<>> /\ bus' = Tail(bus) /\ UNCHANGED server
           \/ \E q \in Printer : ServerAdd(q) \/ ServerDelete(q) \/ Modify(q)
  <1>1. ASSUME NEW q \in Printer, Server(q)
        PROVE  ServerAdd(q) \/ ServerDelete(q) \/ Modify(q)
    BY <1>1 DEF Server, ServerModify
  <1>2. ASSUME NEW q \in Printer, Deliver(q)
        PROVE  bus # <<>> /\ bus' = Tail(bus) /\ UNCHANGED server
    BY <1>2 DEF Deliver, PrinterAdded, PrinterDeleted, PrinterSignalled, Delivered
  <1>3. ASSUME NEW q \in Printer,
               ReadRow(q) \/ LoadPrinter(q) \/ SetAndRefresh(q)
        PROVE  UNCHANGED <<bus, server>> \/ Modify(q)
    BY <1>3 DEF ReadRow, LoadPrinter, RequestIfProxy, SetAndRefresh
  <1>4. QED
    BY <1>1, <1>2, <1>3
    DEF Next, vars, ListPrinters, Subscribe, LoadStep, Loader, LoaderReadsInfo,
        LoaderReadsAttributes, PrinterLoaded, OnPrinterLoaded, LimiterEmits

LEMMA LastKnownStep ==
    ASSUME TypeOK, Early, NEW p \in Printer, LastKnown(p), [Next]_vars
    PROVE  LastKnown(p)'
  <1>1. CASE UNCHANGED <<bus, server>>
    BY <1>1 DEF LastKnown, Present
  <1>2. CASE bus # <<>> /\ bus' = Tail(bus) /\ UNCHANGED server
    BY <1>2, LastTail DEF Present
  <1>3. ASSUME NEW q \in Printer, ServerAdd(q) \/ ServerDelete(q) \/ Modify(q)
        PROVE  LastKnown(p)'
    <2>1. PICK kind \in {"Added", "Modified", "Deleted"} :
            /\ Announce(kind, q)
            /\ kind = "Modified" => Present(q) /\ Present(q)'
            /\ kind # "Modified" => (Present(q)' <=> kind = "Added")
      BY <1>3, ServerShape
    <2>2. p # q => (Present(p)' <=> Present(p))
      BY <1>3, ServerShape DEF Present
    <2>3. CASE phase = "running"
      <3>1. /\ [kind |-> kind, printer |-> q] \in Signal
            /\ bus' = Append(bus, [kind |-> kind, printer |-> q])
        BY <2>1, <2>3 DEF Signal, Announce
      <3>2. QED
        BY <2>1, <2>2, <3>1, LastAppended
    <2>4. CASE phase # "running"
      <3>1. bus' = <<>>
        BY <2>1, <2>4 DEF Announce, Early
      <3>2. QED
        BY <3>1 DEF LastKnown
    <2>5. QED
      BY <2>3, <2>4
  <1>4. QED
    BY <1>1, <1>2, <1>3, BusShape

-----------------------------------------------------------------------------
(* Then the requests, the loads and the rows. *)

\* What a change of q leaves of what is known of p, the rows aside.
LEMMA BusKept ==
    ASSUME TypeOK, Early, NEW q \in Printer, NEW p,
           ServerAdd(q) \/ ServerDelete(q) \/ Modify(q), UNCHANGED pending
    PROVE  /\ Announced(p) => Announced(p)'
           /\ ComesOrGoes(p) => ComesOrGoes(p)'
           /\ p # q => (ComesOrGoes(p)' <=> ComesOrGoes(p))
           /\ phase = "running" => Announced(q)'
  <1>1. PICK kind \in {"Added", "Modified", "Deleted"} :
          /\ Announce(kind, q)
          /\ kind = "Modified" => Present(q) /\ Present(q)'
    BY ServerShape
  <1>2. CASE phase = "running"
    <2> DEFINE s == [kind |-> kind, printer |-> q]
    <2>1. s \in Signal /\ bus' = Append(bus, s) /\ s.printer = q /\ s.kind = kind
      BY <1>1, <1>2 DEF Signal, Announce
    <2> HIDE DEF s
    <2>2. \A x : /\ InBus(x)' <=> InBus(x) \/ s.printer = x
                 /\ ComesOrGoes(x)' <=>
                      ComesOrGoes(x) \/ (s.printer = x /\ s.kind # "Modified")
      BY <2>1, BusAppended
    <2>3. QED
      BY <1>1, <2>1, <2>2 DEF Announced, InBus
  <1>3. CASE phase # "running"
    <2>1. bus' = bus
      BY <1>1, <1>3 DEF Announce
    <2>2. QED
      BY <1>3, <2>1 DEF Announced, ComesOrGoes
  <1>4. QED
    BY <1>2, <1>3

\* A signal of q is delivered.
LEMMA TailKept ==
    ASSUME TypeOK, NEW q \in Printer, NEW kind, Delivered(kind, q), NEW p
    PROVE  /\ p # q => (InBus(p)' <=> InBus(p))
           /\ p # q \/ kind = "Modified" => (ComesOrGoes(p)' <=> ComesOrGoes(p))
           /\ LastKnown(q) /\ kind # "Modified" /\ ~ComesOrGoes(q)'
                => (Present(q)' <=> kind = "Added")
  <1>1. /\ bus # <<>> /\ bus' = Tail(bus) /\ UNCHANGED <<phase, server>>
        /\ Head(bus).printer = q /\ Head(bus).kind = kind
    BY DEF Delivered
  <1>2. /\ InBus(p) <=> InBus(p)' \/ Head(bus).printer = p
        /\ ComesOrGoes(p) <=>
             ComesOrGoes(p)' \/ (Head(bus).printer = p /\ Head(bus).kind # "Modified")
    BY <1>1, BusTail
  <1>3. LastKnown(q) /\ kind # "Modified" /\ ~ComesOrGoes(q)'
          => (Present(q) <=> kind = "Added")
    BY <1>1, LastIsKnown
  <1>4. QED
    BY <1>1, <1>2, <1>3 DEF Present

\* A change of CUPS is signalled, lost, or seen by reading later.
LEMMA ServerKeeps ==
    ASSUME Sound, NEW p \in Printer, Kept(p), NEW q \in Printer, Server(q)
    PROVE  Kept(p)'
  <1>1. /\ ServerAdd(q) \/ ServerDelete(q) \/ Modify(q)
        /\ UNCHANGED <<phase, pending, loads, rows>>
        /\ TypeOK /\ Early
    BY DEF Server, ServerAdd, ServerDelete, ServerModify, Sound
  <1>2. LoadsOf(p)' = LoadsOf(p) /\ RowsNamed(p)' = RowsNamed(p)
    BY <1>1 DEF LoadsOf, RowsNamed
  <1>3. /\ Announced(p) => Announced(p)'
        /\ ComesOrGoes(p) => ComesOrGoes(p)'
        /\ p # q => (ComesOrGoes(p)' <=> ComesOrGoes(p))
        /\ phase = "running" => Announced(q)'
    BY <1>1, BusKept
  <1>4. /\ p # q => server'[p] = server[p]
        /\ server'[q].version = server[q].version + 1
        /\ stale' = IF phase = "deaf" THEN stale \union {q} ELSE stale
    BY <1>1, ServerShape
  <1>5. p # q => (p \in ghost' <=> p \in ghost)
    BY DEF Server, ServerAdd, ServerDelete, ServerModify, MissedChange
  <1>6. CASE p # q
    BY <1>1, <1>2, <1>3, <1>4, <1>5, <1>6, Framed
  <1>7. CASE p = q
    <2>1. Fresh(p)'
      <3>1. CASE phase = "running"
        BY <1>1, <1>3, <1>7, <3>1 DEF Fresh
      <3>2. CASE phase = "deaf"
        BY <1>4, <1>7, <3>2 DEF Fresh
      <3>3. CASE phase \in {"new", "listed"}
        <4>1. LoadsOf(p) = {}
          BY <1>1, <3>3 DEF Early, LoadsOf
        <4>2. \A r \in RowsNamed(p) : r.type = "proxy"
          BY <1>1, <3>3 DEF Early, RowsNamed
        <4>3. QED
          BY <1>2, <4>1, <4>2 DEF Fresh
      <3>4. QED
        BY <1>1, <3>1, <3>2, <3>3 DEF TypeOK, Phase
    <2>2. Matching(p)'
      <3>1. PICK kind \in {"Added", "Modified", "Deleted"} :
              /\ Announce(kind, q)
              /\ kind = "Modified" => Present(q) /\ Present(q)'
              /\ kind # "Modified" => MissedChange(q)
        BY <1>1, ServerShape
      <3>2. CASE kind = "Modified"
        <4>1. p \in ghost' <=> p \in ghost
          <5>1. Change(q, Absent) => ~Present(q)'
            BY <1>1 DEF Change, TypeOK, Present
          <5>2. ServerModify(q)
            BY <3>1, <3>2, <5>1 DEF Server, ServerAdd, ServerDelete
          <5>3. QED
            BY <5>2 DEF ServerModify
        <4>2. QED
          BY <1>1, <1>2, <1>3, <1>7, <3>1, <3>2, <4>1 DEF Kept, Matching
      <3>3. CASE kind # "Modified" /\ phase \in {"listed", "deaf"}
        BY <1>7, <3>1, <3>3 DEF MissedChange, Matching
      <3>4. CASE kind # "Modified" /\ phase = "running"
        <4>1. /\ [kind |-> kind, printer |-> q] \in Signal
              /\ bus' = Append(bus, [kind |-> kind, printer |-> q])
          BY <3>1, <3>4 DEF Announce, Signal
        <4>2. ComesOrGoes(p)'
          BY <1>1, <1>7, <3>4, <4>1, BusAppended
        <4>3. p \in ghost' <=> p \in ghost
          BY <3>1, <3>4 DEF MissedChange
        <4>4. QED
          BY <1>1, <1>2, <4>2, <4>3 DEF Kept, Matching
      <3>5. CASE kind # "Modified" /\ phase = "new"
        <4>1. LoadsOf(p) = {}
          BY <1>1, <3>5 DEF Early, LoadsOf
        <4>2. QED
          BY <1>1, <1>2, <3>5, <4>1 DEF Matching
      <3>6. QED
        BY <1>1, <3>2, <3>3, <3>4, <3>5 DEF TypeOK, Phase
    <2>3. Versioned(p)'
      <3>1. server[p].version \in Nat
        BY <1>1 DEF TypeOK, Data
      <3>2. /\ \A r \in RowsNamed(p) : /\ r.info.version \in Nat
                                       /\ r.attributes.version \in Nat
            /\ \A l \in LoadsOf(p) : /\ l.info.version \in Nat
                                     /\ l.attributes.version \in Nat
        <4>1. \A r \in Row : r.info.version \in Nat /\ r.attributes.version \in Nat
          BY DEF Row, Data
        <4>2. \A r \in RowsNamed(p) : r \in Row
          BY <1>1 DEF TypeOK, RowsNamed
        <4>3. \A l \in Load : l.info.version \in Nat /\ l.attributes.version \in Nat
          BY DEF Load, Data
        <4>4. \A l \in LoadsOf(p) : l \in Load
          BY <1>1 DEF TypeOK, LoadsOf
        <4>5. QED
          BY <4>1, <4>2, <4>3, <4>4
      <3>3. QED
        BY <1>2, <1>4, <1>7, <3>1, <3>2 DEF Kept, Versioned
    <2>4. QED
      BY <2>1, <2>2, <2>3 DEF Kept
  <1>8. QED
    BY <1>6, <1>7

-----------------------------------------------------------------------------
(* A load goes on, and is applied. *)

LEMMA LoadTaken ==
    ASSUME OneLoad, NEW l \in loads, NEW k, k.printer = l.printer,
           loads' = (loads \ {l}) \union {k}, NEW p
    PROVE  /\ LoadsOf(l.printer) = {l}
           /\ LoadsOf(p)' = IF p = l.printer THEN {k} ELSE LoadsOf(p)
  BY DEF OneLoad, LoadsOf

LEMMA LoadVersions ==
    ASSUME TypeOK
    PROVE  /\ \A l \in loads : l.info.version \in Nat /\ l.attributes.version \in Nat
           /\ \A p : \A r \in RowsNamed(p) :
                r.info.version \in Nat /\ r.attributes.version \in Nat
           /\ \A p \in Printer : server[p].version \in Nat
  <1>1. \A l \in Load : l.info.version \in Nat /\ l.attributes.version \in Nat
    BY DEF Load, Data
  <1>2. \A r \in Row : r.info.version \in Nat /\ r.attributes.version \in Nat
    BY DEF Row, Data
  <1>3. \A p : \A r \in RowsNamed(p) : r \in Row
    BY DEF TypeOK, RowsNamed
  <1>4. \A p \in Printer : server[p].version \in Nat
    BY DEF TypeOK, Data
  <1>5. \A l \in loads : l \in Load
    BY DEF TypeOK
  <1>6. QED
    BY <1>1, <1>2, <1>3, <1>4, <1>5

\* What a loader reads is what CUPS says.
LEMMA ReadKeeps ==
    ASSUME Sound, NEW p \in Printer, Kept(p), NEW l \in loads, Loader(l)
    PROVE  Kept(p)'
  <1>1. /\ UNCHANGED <<phase, server, bus, pending, active, rows, stale, ghost>>
        /\ TypeOK /\ OneLoad /\ Early /\ l \in Load
    BY DEF Loader, LoaderReadsInfo, LoaderReadsAttributes, Sound, TypeOK
  <1>2. PICK k : /\ loads' = (loads \ {l}) \union {k}
                 /\ k.printer = l.printer
                 /\ k.info = l.info \/ k.info = server[l.printer]
                 /\ \/ k.attributes = server[l.printer]
                    \/ k.attributes = l.attributes
                 /\ \/ l.stage = "started" /\ k.stage = "named"
                       /\ k.info = server[l.printer]
                    \/ l.stage = "named" /\ k.stage = "queued"
                       /\ k.info = l.info /\ k.attributes = server[l.printer]
    <2>1. CASE LoaderReadsInfo(l)
      <3> DEFINE k == [l EXCEPT !.stage = "named",
                                !.name = LoadedName(l.printer,
                                    IF Present(l.printer) THEN l.printer
                                                          ELSE NoName),
                                !.info = server[l.printer]]
      <3>1. loads' = (loads \ {l}) \union {k} /\ l.stage = "started"
        BY <2>1 DEF LoaderReadsInfo
      <3>2. /\ k.printer = l.printer /\ k.stage = "named"
            /\ k.info = server[l.printer] /\ k.attributes = l.attributes
        BY <1>1 DEF Load
      <3>3. QED
        <4> HIDE DEF k
        <4> QED
          BY <3>1, <3>2
    <2>2. CASE LoaderReadsAttributes(l)
      <3> DEFINE k == [l EXCEPT !.stage = "queued",
                                !.attributes = server[l.printer]]
      <3>1. loads' = (loads \ {l}) \union {k} /\ l.stage = "named"
        BY <2>2 DEF LoaderReadsAttributes
      <3>2. /\ k.printer = l.printer /\ k.stage = "queued"
            /\ k.info = l.info /\ k.attributes = server[l.printer]
        BY <1>1 DEF Load
      <3>3. QED
        <4> HIDE DEF k
        <4> QED
          BY <3>1, <3>2
    <2>3. QED
      BY <2>1, <2>2 DEF Loader
  <1>3. /\ LoadsOf(l.printer) = {l}
        /\ LoadsOf(p)' = IF p = l.printer THEN {k} ELSE LoadsOf(p)
    BY <1>1, <1>2, LoadTaken
  <1>4. /\ RowsNamed(p)' = RowsNamed(p) /\ (Announced(p)' <=> Announced(p))
        /\ ComesOrGoes(p)' <=> ComesOrGoes(p)
    BY <1>1 DEF RowsNamed, Announced, ComesOrGoes
  <1>5. CASE p # l.printer
    BY <1>1, <1>3, <1>4, <1>5, Framed
  <1>6. CASE p = l.printer
    <2>1. LoadsOf(p) = {l} /\ LoadsOf(p)' = {k}
      BY <1>3, <1>6
    <2>2. Fresh(p)'
      BY <1>1, <1>2, <1>4, <1>6, <2>1 DEF Kept, Fresh, Current, Undelivered
    <2>3. Matching(p)'
      BY <1>1, <1>2, <1>4, <1>6, <2>1 DEF Kept, Matching, Present, Undelivered
    <2>4. Versioned(p)'
      BY <1>1, <1>2, <1>4, <1>6, <2>1, LoadVersions DEF Kept, Versioned
    <2>5. QED
      BY <2>2, <2>3, <2>4 DEF Kept
  <1>7. QED
    BY <1>5, <1>6

\* printerLoaded, seen from the rows of the loaded printer.
LEMMA LoadedRows ==
    ASSUME TypeOK, UniqueRows, OneLoad, NEW l \in loads, PrinterLoaded(l), NEW p
    PROVE  /\ l.name = l.printer /\ l.printer \in Printer
           /\ LoadedRow(l) \in Row
           /\ p # l.printer => RowsNamed(p)' = RowsNamed(p)
           /\ \/ RowsNamed(l.printer)' = {LoadedRow(l)}
              \/ /\ rows' = rows
                 /\ RowsNamed(l.printer) = {RowOf(l.printer)}
                 /\ DeepCompare(RowOf(l.printer), l)
  <1>1. l.name = l.printer /\ l \in Load /\ l.printer \in Printer
    BY DEF PrinterLoaded, OneLoad, HasRead, TypeOK, Load
  <1>2. LoadedRow(l) \in Row /\ LoadedRow(l).name = l.printer
    BY <1>1 DEF LoadedRow, Row, Load
  <1>3. CASE ~HasRow(l.printer)
    <2>1. rows' = Append(rows, LoadedRow(l))
      BY <1>1, <1>3 DEF PrinterLoaded
    <2>2. RowsNamed(l.printer) = {}
      BY <1>3, HasRowNamed
    <2>3. /\ RowsNamed(l.printer)' = RowsNamed(l.printer) \union {LoadedRow(l)}
          /\ p # l.printer => RowsNamed(p)' = RowsNamed(p)
      BY <1>2, <2>1, AppendedRows
    <2>4. QED
      BY <1>1, <1>2, <2>2, <2>3
  <1>4. CASE HasRow(l.printer) /\ DeepCompare(RowOf(l.printer), l)
    <2>1. rows' = rows
      BY <1>1, <1>4 DEF PrinterLoaded
    <2>2. RowsNamed(p)' = RowsNamed(p)
      BY <2>1 DEF RowsNamed
    <2>3. QED
      BY <1>1, <1>2, <1>4, <2>1, <2>2, RowOfNamed
  <1>5. CASE HasRow(l.printer) /\ ~DeepCompare(RowOf(l.printer), l)
    <2>1. rows' = [rows EXCEPT ![RowIndex(l.printer)] = LoadedRow(l)]
      BY <1>1, <1>5 DEF PrinterLoaded
    <2>2. /\ RowIndex(l.printer) \in 1..Len(rows)
          /\ rows[RowIndex(l.printer)].name = l.printer
      BY <1>5, RowIndexProps
    <2>3. /\ RowsNamed(l.printer)' = {LoadedRow(l)}
          /\ p # l.printer => RowsNamed(p)' = RowsNamed(p)
      BY <1>2, <2>1, <2>2, ReplacedRows
    <2>4. QED
      BY <1>1, <1>2, <2>3
  <1>6. QED
    BY <1>3, <1>4, <1>5

LEMMA AppliedKeeps ==
    ASSUME Sound, NEW p \in Printer, Kept(p), NEW l \in loads, PrinterLoaded(l)
    PROVE  Kept(p)'
  <1>1. /\ UNCHANGED <<phase, server, bus, pending, active, stale, ghost>>
        /\ TypeOK /\ UniqueRows /\ OneLoad /\ Early /\ l \in Load
        /\ l.stage = "queued" /\ phase # "new"
    BY DEF PrinterLoaded, Sound, TypeOK, Up
  <1> DEFINE k == [l EXCEPT !.stage = "delivered"]
  <1>2. loads' = (loads \ {l}) \union {k}
    BY DEF PrinterLoaded
  <1>3. /\ k.printer = l.printer /\ k.stage = "delivered"
        /\ k.info = l.info /\ k.attributes = l.attributes
    BY <1>1 DEF Load
  <1> HIDE DEF k
  <1>4. /\ LoadsOf(l.printer) = {l}
        /\ LoadsOf(p)' = IF p = l.printer THEN {k} ELSE LoadsOf(p)
    BY <1>1, <1>2, <1>3, LoadTaken
  <1>5. /\ p # l.printer => RowsNamed(p)' = RowsNamed(p)
        /\ \/ RowsNamed(l.printer)' = {LoadedRow(l)}
           \/ /\ rows' = rows
              /\ RowsNamed(l.printer) = {RowOf(l.printer)}
              /\ DeepCompare(RowOf(l.printer), l)
    BY <1>1, LoadedRows
  <1>6. /\ Announced(p)' <=> Announced(p)
        /\ ComesOrGoes(p)' <=> ComesOrGoes(p)
    BY <1>1 DEF Announced, ComesOrGoes
  <1>7. CASE p # l.printer
    BY <1>1, <1>4, <1>5, <1>6, <1>7, Framed
  <1>8. CASE p = l.printer
    <2>1. LoadsOf(p) = {l} /\ LoadsOf(p)' = {k}
      BY <1>4, <1>8
    <2>2. /\ LoadedRow(l).info = l.info
          /\ LoadedRow(l).attributes = l.attributes
      BY DEF LoadedRow
    <2>3. CASE RowsNamed(p)' = {LoadedRow(l)}
      <3>1. Fresh(p)'
        BY <1>1, <1>3, <1>6, <2>1, <2>2, <2>3 DEF Kept, Fresh, Current
      <3>2. Matching(p)'
        BY <1>1, <1>3, <1>6, <2>1, <2>3 DEF Kept, Matching, Present, Undelivered
      <3>3. Versioned(p)'
        BY <1>1, <1>3, <2>1, <2>2, <2>3 DEF Kept, Versioned
      <3>4. QED
        BY <3>1, <3>2, <3>3 DEF Kept
    <2>4. CASE /\ rows' = rows
               /\ RowsNamed(p) = {RowOf(p)}
               /\ DeepCompare(RowOf(p), l)
      <3>1. RowsNamed(p)' = RowsNamed(p)
        BY <2>4 DEF RowsNamed
      <3>2. Fresh(p)'
        BY <1>1, <1>3, <1>6, <2>1, <2>4, <3>1 DEF Kept, Fresh, Current, DeepCompare
      <3>3. Matching(p)'
        BY <1>1, <1>3, <1>6, <2>1, <3>1 DEF Kept, Matching, Present, Undelivered
      <3>4. Versioned(p)'
        BY <1>1, <1>3, <2>1, <3>1 DEF Kept, Versioned
      <3>5. QED
        BY <3>2, <3>3, <3>4 DEF Kept
    <2>5. QED
      BY <1>5, <1>8, <2>3, <2>4
  <1>9. QED
    BY <1>7, <1>8

LEMMA EndedKeeps ==
    ASSUME Sound, NEW p \in Printer, Kept(p), NEW l \in loads, OnPrinterLoaded(l)
    PROVE  Kept(p)'
  <1>1. /\ UNCHANGED <<phase, server, bus, pending, rows, stale, ghost>>
        /\ TypeOK /\ UniqueRows /\ OneLoad /\ Early /\ phase # "new"
        /\ l.stage = "delivered" /\ loads' = loads \ {l}
    BY DEF OnPrinterLoaded, Sound, Up
  <1>2. /\ RowsNamed(p)' = RowsNamed(p) /\ (Announced(p)' <=> Announced(p))
        /\ ComesOrGoes(p)' <=> ComesOrGoes(p)
    BY <1>1 DEF RowsNamed, Announced, ComesOrGoes
  <1>3. /\ \A m \in LoadsOf(p)' : m \in LoadsOf(p)
        /\ \A m \in LoadsOf(p) : Undelivered(m) => m \in LoadsOf(p)'
    BY <1>1 DEF LoadsOf, Undelivered
  <1>4. Fresh(p)'
    BY <1>1, <1>2, <1>3 DEF Kept, Fresh, Current, Undelivered
  <1>5. Matching(p)'
    BY <1>1, <1>2, <1>3 DEF Kept, Matching, Present, Undelivered
  <1>6. Versioned(p)'
    BY <1>1, <1>2, <1>3 DEF Kept, Versioned
  <1>7. QED
    BY <1>4, <1>5, <1>6 DEF Kept

-----------------------------------------------------------------------------
(* A signal is delivered, and the names of a batch are loaded again. *)

LEMMA AddedKeeps ==
    ASSUME Sound, NEW p \in Printer, Kept(p), LastKnown(p),
           NEW q \in Printer, PrinterAdded(q)
    PROVE  Kept(p)'
  <1>1. /\ TypeOK /\ UniqueRows /\ OneLoad /\ Early /\ phase # "new"
        /\ Delivered("Added", q) /\ Request({q}) /\ ghost' = ghost \ {q}
        /\ UNCHANGED <<phase, server, pending>>
    BY DEF PrinterAdded, Delivered, Sound, Up
  <1>2. /\ p # q => (Announced(p)' <=> Announced(p))
        /\ p # q => (ComesOrGoes(p)' <=> ComesOrGoes(p))
        /\ p = q /\ ~ComesOrGoes(q)' => Present(q)'
    BY <1>1, TailKept DEF Announced, InBus
  <1>3. /\ p # q => RowsNamed(p)' = RowsNamed(p)
        /\ p = q => /\ RowsNamed(p)' # {}
                    /\ \A r \in RowsNamed(p)' :
                         r \in RowsNamed(p) \/ r = ProxyRow(p)
    <2>1. CASE HasRow(q)
      <3>1. rows' = rows
        BY <2>1 DEF PrinterAdded
      <3>2. RowsNamed(p)' = RowsNamed(p)
        BY <3>1 DEF RowsNamed
      <3>3. QED
        BY <2>1, <3>2, HasRowNamed
    <2>2. CASE ~HasRow(q)
      <3>1. rows' = Append(rows, ProxyRow(q))
        BY <2>2 DEF PrinterAdded
      <3>2. ProxyRow(q) \in Row /\ ProxyRow(q).name = q
        BY DEF ProxyRow, Row, NoData, Data
      <3>3. RowsNamed(p)' = IF p = q THEN RowsNamed(p) \union {ProxyRow(q)}
                                     ELSE RowsNamed(p)
        BY <1>1, <3>1, <3>2, AppendedRows
      <3>4. QED
        BY <3>3
    <2>3. QED
      BY <2>1, <2>2
  <1>4. CASE p # q
    BY <1>1, <1>2, <1>3, <1>4, Asked
  <1>5. CASE p = q
    <2>1. /\ p \in stale' \/ \A l \in LoadsOf(p)' : l.stage = "started"
          /\ \E l \in LoadsOf(p)' : TRUE
          /\ \A l \in LoadsOf(p)' : l \in LoadsOf(p) \/ l = NewLoad(p)
      BY <1>1, <1>5, Requested
    <2>2. Fresh(p)'
      BY <2>1 DEF Fresh, Undelivered
    <2>3. Matching(p)'
      BY <1>2, <1>3, <1>5 DEF Matching
    <2>4. Versioned(p)'
      <3>1. /\ NewLoad(p).info.version = 0
            /\ NewLoad(p).attributes.version = 0
            /\ NewLoad(p).stage = "started"
            /\ ProxyRow(p).info.version = 0
            /\ ProxyRow(p).attributes.version = 0
        BY DEF NewLoad, ProxyRow, NoData
      <3>2. /\ server[p].version \in Nat
            /\ \A l \in LoadsOf(p) : l.attributes.version \in Nat
        BY <1>1, LoadVersions DEF LoadsOf
      <3>3. QED
        BY <1>1, <1>3, <1>5, <2>1, <3>1, <3>2 DEF Kept, Versioned
    <2>5. QED
      BY <2>2, <2>3, <2>4 DEF Kept
  <1>6. QED
    BY <1>4, <1>5

LEMMA DeletedKeeps ==
    ASSUME Sound, NEW p \in Printer, Kept(p), LastKnown(p),
           NEW q \in Printer, PrinterDeleted(q)
    PROVE  Kept(p)'
  <1>1. /\ TypeOK /\ UniqueRows /\ OneLoad /\ Early /\ phase # "new"
        /\ Delivered("Deleted", q)
        /\ ghost' = IF \E l \in LoadsOf(q) : Undelivered(l)
                    THEN ghost \union {q}
                    ELSE ghost \ {q}
        /\ UNCHANGED <<phase, server, pending, active, loads, stale>>
    BY DEF PrinterDeleted, Delivered, Sound, Up
  <1>2. /\ p # q => (Announced(p)' <=> Announced(p))
        /\ p # q => (ComesOrGoes(p)' <=> ComesOrGoes(p))
        /\ p = q /\ ~ComesOrGoes(q)' => ~Present(q)'
    BY <1>1, TailKept DEF Announced, InBus
  <1>3. LoadsOf(p)' = LoadsOf(p)
    BY <1>1 DEF LoadsOf
  <1>4. RowsNamed(p)' = IF p = q THEN {} ELSE RowsNamed(p)
    <2>1. CASE HasRow(q)
      <3>1. rows' = RemoveAt(rows, RowIndex(q))
        BY <2>1 DEF PrinterDeleted
      <3>2. RowIndex(q) \in 1..Len(rows) /\ rows[RowIndex(q)].name = q
        BY <1>1, <2>1, RowIndexProps
      <3>3. QED
        BY <1>1, <3>1, <3>2, RemovedRows
    <2>2. CASE ~HasRow(q)
      <3>1. rows' = rows
        BY <2>2 DEF PrinterDeleted
      <3>2. RowsNamed(p)' = RowsNamed(p)
        BY <3>1 DEF RowsNamed
      <3>3. QED
        BY <2>2, <3>2, HasRowNamed
    <2>3. QED
      BY <2>1, <2>2
  <1>5. CASE p # q
    <2>1. p \in ghost' <=> p \in ghost
      BY <1>1, <1>5
    <2>2. QED
      BY <1>1, <1>2, <1>3, <1>4, <1>5, <2>1, Framed
  <1>6. CASE p = q
    <2>1. p \notin ghost' => \A l \in LoadsOf(p) : ~Undelivered(l)
      BY <1>1, <1>6
    <2>2. Fresh(p)'
      BY <1>3, <1>4, <1>6, <2>1 DEF Fresh, Undelivered
    <2>3. Matching(p)'
      BY <1>2, <1>3, <1>4, <1>6, <2>1 DEF Matching, Undelivered
    <2>4. Versioned(p)'
      BY <1>1, <1>3, <1>4, <1>6 DEF Kept, Versioned
    <2>5. QED
      BY <2>2, <2>3, <2>4 DEF Kept
  <1>7. QED
    BY <1>5, <1>6

\* A batch of everything pending: a name in it is loaded, or has no row.
LEMMA BatchKeeps ==
    ASSUME Sound, NEW p \in Printer, Kept(p), phase # "new",
           NEW b \in SUBSET Printer, ModifiedBatch(b),
           UNCHANGED <<phase, server, rows, ghost>>,
           \/ p \in b
           \/ Announced(p) => Announced(p)',
           ComesOrGoes(p)' <=> ComesOrGoes(p)
    PROVE  Kept(p)'
  <1> DEFINE S == {q \in b : HasRow(q)}
  <1>1. Request(S) /\ S \in SUBSET Printer /\ TypeOK /\ OneLoad
    BY DEF ModifiedBatch, Sound
  <1>2. RowsNamed(p)' = RowsNamed(p)
    BY DEF RowsNamed
  <1>3. p \in S <=> p \in b /\ RowsNamed(p) # {}
    BY HasRowNamed
  <1> HIDE DEF S
  <1>4. QED
    BY <1>1, <1>2, <1>3, Asked

LEMMA SignalledKeeps ==
    ASSUME Sound, NEW p \in Printer, Kept(p), NEW q \in Printer,
           PrinterSignalled(q)
    PROVE  Kept(p)'
  <1>1. /\ TypeOK /\ UniqueRows /\ OneLoad /\ Early /\ phase # "new"
        /\ Delivered("Modified", q)
        /\ UNCHANGED <<phase, server, rows, ghost>>
    BY DEF PrinterSignalled, Delivered, Sound, Up
  <1>2. /\ p # q => (InBus(p)' <=> InBus(p))
        /\ ComesOrGoes(p)' <=> ComesOrGoes(p)
    BY <1>1, TailKept
  <1>3. CASE Limiter!Keep(q) /\ UNCHANGED <<active, loads, stale>>
    <2>1. pending' = pending \union {q}
      BY <1>3 DEF Limiter!Keep
    <2>2. Announced(p) => Announced(p)'
      BY <1>2, <2>1 DEF Announced, InBus
    <2>3. LoadsOf(p)' = LoadsOf(p) /\ RowsNamed(p)' = RowsNamed(p)
      BY <1>1, <1>3 DEF LoadsOf, RowsNamed
    <2>4. QED
      BY <1>1, <1>2, <1>3, <2>2, <2>3, Framed
  <1>4. ASSUME NEW b \in SUBSET Printer,
               Limiter!KeepAndHandOn(q, b), ModifiedBatch(b)
        PROVE  Kept(p)'
    <2>1. b = pending \union {q}
      BY <1>4 DEF Limiter!KeepAndHandOn
    <2>2. p \in b \/ (Announced(p) => Announced(p)')
      BY <1>2, <2>1 DEF Announced, InBus
    <2>3. QED
      BY <1>1, <1>2, <1>4, <2>2, BatchKeeps
  <1>5. QED
    BY <1>3, <1>4 DEF PrinterSignalled

LEMMA EmitKeeps ==
    ASSUME Sound, NEW p \in Printer, Kept(p), LimiterEmits
    PROVE  Kept(p)'
  <1>1. /\ phase # "new"
        /\ UNCHANGED <<phase, server, bus, rows, ghost>>
    BY DEF LimiterEmits, Up
  <1>2. PICK b \in SUBSET Printer : Limiter!HandOn(b) /\ ModifiedBatch(b)
    BY DEF LimiterEmits
  <1>3. b = pending
    BY <1>2 DEF Limiter!HandOn
  <1>4. /\ p \in b \/ (Announced(p) => Announced(p)')
        /\ ComesOrGoes(p)' <=> ComesOrGoes(p)
    BY <1>1, <1>3 DEF Announced, ComesOrGoes
  <1>5. QED
    BY <1>1, <1>2, <1>4, BatchKeeps

LEMMA RowRequestKeeps ==
    ASSUME Sound, NEW p \in Printer, Kept(p), NEW q \in Printer,
           RequestIfProxy(q)
    PROVE  Kept(p)'
  <1>1. /\ phase # "new" /\ Request({q}) /\ TypeOK /\ OneLoad
        /\ UNCHANGED <<phase, server, bus, pending, rows, ghost>>
    BY DEF RequestIfProxy, Up, Sound
  <1>2. RowsNamed(p)' = RowsNamed(p) /\ RowsNamed(q) # {}
    BY <1>1, HasRowNamed DEF RowsNamed, RequestIfProxy
  <1>3. /\ Announced(p) => Announced(p)'
        /\ ComesOrGoes(p)' <=> ComesOrGoes(p)
    BY <1>1 DEF Announced, ComesOrGoes
  <1>4. p \in {q} => RowsNamed(p) # {} \/ p \in ghost
    BY <1>2
  <1>5. QED
    BY <1>1, <1>2, <1>3, <1>4, Asked

\* A refresh reads the half of a row QPrinterInfo has.
LEMMA RefreshKeeps ==
    ASSUME Sound, NEW p \in Printer, Kept(p), NEW q \in Printer,
           SetAndRefresh(q)
    PROVE  Kept(p)'
  <1>1. /\ TypeOK /\ UniqueRows /\ OneLoad /\ Early
        /\ phase \in {"running", "deaf"} /\ HasRow(q) /\ RowOf(q).type = "cups"
        /\ UNCHANGED <<phase, pending, active, loads, ghost>>
        /\ Modify(q) \/ UNCHANGED <<server, bus, stale>>
    BY DEF SetAndRefresh, Sound, Up
  <1> DEFINE r == [RowOf(q) EXCEPT !.info = server'[q]]
  <1>2. /\ RowIndex(q) \in 1..Len(rows) /\ rows[RowIndex(q)].name = q
        /\ RowOf(q) \in Row
    <2>1. RowIndex(q) \in 1..Len(rows) /\ rows[RowIndex(q)].name = q
      BY <1>1, RowIndexProps
    <2>2. QED
      BY <1>1, <2>1, ElementOfSeq DEF RowOf, TypeOK
  <1>3. rows' = [rows EXCEPT ![RowIndex(q)] = r]
    BY <1>1, <1>2 DEF SetAndRefresh, RowOf, TypeOK
  <1>4. /\ r.name = q /\ r.info = server'[q] /\ r.type = "cups"
        /\ r.attributes = RowOf(q).attributes
    BY <1>1, <1>2 DEF Row, RowOf
  <1> HIDE DEF r
  <1>5. /\ RowsNamed(p)' = IF p = q THEN {r} ELSE RowsNamed(p)
        /\ RowsNamed(q) = {RowOf(q)}
    BY <1>1, <1>2, <1>3, <1>4, ReplacedRows, RowOfNamed
  <1>6. /\ Announced(p) => Announced(p)'
        /\ ComesOrGoes(p) => ComesOrGoes(p)'
        /\ p # q => (ComesOrGoes(p)' <=> ComesOrGoes(p))
        /\ Modify(q) /\ phase = "running" => Announced(q)'
        /\ ~Modify(q) => (ComesOrGoes(p)' <=> ComesOrGoes(p))
    <2>1. CASE Modify(q)
      BY <1>1, <2>1, BusKept
    <2>2. CASE ~Modify(q)
      BY <1>1, <2>2 DEF Announced, ComesOrGoes
    <2>3. QED
      BY <2>1, <2>2
  <1>7. LoadsOf(p)' = LoadsOf(p)
    BY <1>1 DEF LoadsOf
  <1>8. /\ p # q => server'[p] = server[p]
        /\ \/ server'[q] = server[q] /\ stale' = stale
           \/ /\ Modify(q)
              /\ server'[q].version = server[q].version + 1
              /\ stale' = IF phase = "deaf" THEN stale \union {q} ELSE stale
        /\ Present(q)' <=> Present(q)
    <2>1. CASE Modify(q)
      <3>1. Present(q)' <=> Present(q)
        BY <1>1, <2>1, SyncAssumption DEF Modify, Change, Present, TypeOK
      <3>2. QED
        BY <1>1, <2>1, <3>1, ServerShape
    <2>2. CASE UNCHANGED <<server, bus, stale>>
      BY <2>2 DEF Present
    <2>3. QED
      BY <1>1, <2>1, <2>2
  <1>9. CASE p # q
    <2>1. p \in stale => p \in stale'
      BY <1>8
    <2>2. QED
      BY <1>1, <1>5, <1>6, <1>7, <1>8, <1>9, <2>1, Framed
  <1>10. CASE p = q
    <2>1. Fresh(p)'
      <3>1. CASE Modify(q) /\ phase = "running"
        BY <1>6, <1>10, <3>1 DEF Fresh
      <3>2. CASE Modify(q) /\ phase = "deaf"
        BY <1>10, <3>2 DEF Modify, Fresh
      <3>3. CASE ~Modify(q)
        <4>1. UNCHANGED <<server, stale>>
          BY <1>1, <3>3
        <4>2. QED
          BY <1>1, <1>4, <1>5, <1>6, <1>7, <1>10, <4>1
          DEF Kept, Fresh, Current, Undelivered
      <3>4. QED
        BY <1>1, <3>1, <3>2, <3>3
    <2>2. Matching(p)'
      BY <1>1, <1>5, <1>6, <1>7, <1>8, <1>10 DEF Kept, Matching, Undelivered
    <2>3. Versioned(p)'
      <3>1. server[p].version \in Nat /\ server'[p].version \in Nat
        BY <1>1, <1>8, <1>10, LoadVersions
      <3>2. /\ \A l \in LoadsOf(p) : /\ l.info.version \in Nat
                                     /\ l.attributes.version \in Nat
            /\ RowOf(p).attributes.version \in Nat
        BY <1>1, <1>5, <1>10, LoadVersions DEF LoadsOf
      <3>3. server[p].version <= server'[p].version
        BY <1>8, <1>10, <3>1
      <3>4. QED
        BY <1>4, <1>5, <1>7, <1>10, <3>1, <3>2, <3>3 DEF Kept, Versioned
    <2>4. QED
      BY <2>1, <2>2, <2>3 DEF Kept
  <1>11. QED
    BY <1>9, <1>10

-----------------------------------------------------------------------------
(* Printers' constructor, and all steps together. *)

\* The names listed are those CUPS has, in whatever order.
LEMMA ListKeeps ==
    ASSUME Sound, NEW p \in Printer, Kept(p), ListPrinters
    PROVE  Kept(p)'
  <1>1. /\ TypeOK /\ Early /\ phase = "new" /\ phase' = "listed"
        /\ UNCHANGED <<server, bus, pending, active, loads, stale, ghost>>
    BY DEF ListPrinters, Sound
  <1> DEFINE listed == {q \in Printer : Present(q)}
  <1>2. PICK order \in SetToSeqs(listed) :
          rows' = [i \in DOMAIN order |-> ProxyRow(order[i])]
    BY DEF ListPrinters
  <1>3. IsFiniteSet(listed) /\ Cardinality(listed) \in Nat
    BY SyncAssumption, FS_Subset, FS_CardinalityType
  <1>4. /\ DOMAIN order = 1..Cardinality(listed)
        /\ \A i \in DOMAIN order : order[i] \in listed
        /\ \A q \in listed : \E i \in DOMAIN order : order[i] = q
    <2> DEFINE D == 1..Cardinality(listed)
    <2>1. /\ order \in [D -> listed]
          /\ \A i, j \in D : i # j => order[i] # order[j]
      BY <1>2 DEF SetToSeqs
    <2>2. order \in Injection(D, listed)
      BY <2>1 DEF Injection, IsInjective
    <2>3. Cardinality(D) = Cardinality(listed)
      BY <1>3, FS_Interval
    <2> HIDE DEF D, listed
    <2>4. order \in Surjection(D, listed)
      BY <1>3, <2>2, <2>3, FS_Injection
    <2>5. \A q \in listed : \E i \in D : order[i] = q
      BY <2>4 DEF Surjection
    <2>6. QED
      BY <2>1, <2>5 DEF D
  <1>5. LoadsOf(p) = {} /\ LoadsOf(p)' = {}
    BY <1>1 DEF Early, LoadsOf
  <1>6. /\ \A r \in RowsNamed(p)' : r = ProxyRow(p)
        /\ RowsNamed(p)' # {} <=> Present(p)
    <2>1. \A q : ProxyRow(q).name = q
      BY DEF ProxyRow
    <2>2. /\ DOMAIN rows' = DOMAIN order
          /\ \A i \in DOMAIN order : /\ rows'[i] = ProxyRow(order[i])
                                     /\ rows'[i].name = order[i]
      BY <1>2, <2>1
    <2>3. \A r \in RowsNamed(p)' : r = ProxyRow(p)
      <3>1. ASSUME NEW i \in DOMAIN rows', rows'[i].name = p
            PROVE  rows'[i] = ProxyRow(p)
        BY <2>2, <3>1
      <3>2. QED
        BY <3>1 DEF RowsNamed
    <2>4. Present(p) => RowsNamed(p)' # {}
      <3>1. ASSUME NEW i \in DOMAIN rows', rows'[i].name = p
            PROVE  rows'[i] \in RowsNamed(p)'
        BY <3>1 DEF RowsNamed
      <3>2. Present(p) => \E i \in DOMAIN rows' : rows'[i].name = p
        BY <1>4, <2>2
      <3>3. QED
        BY <3>1, <3>2
    <2>5. RowsNamed(p)' # {} => Present(p)
      <3>1. ASSUME NEW i \in DOMAIN rows', rows'[i].name = p
            PROVE  Present(p)
        BY <1>4, <2>2, <3>1
      <3>2. QED
        BY <3>1 DEF RowsNamed
    <2>6. QED
      BY <2>3, <2>4, <2>5
  <1>7. /\ ProxyRow(p).type = "proxy" /\ ProxyRow(p).info.version = 0
        /\ ProxyRow(p).attributes.version = 0 /\ server[p].version \in Nat
    BY <1>1, LoadVersions DEF ProxyRow, NoData
  <1>8. Fresh(p)'
    BY <1>5, <1>6, <1>7 DEF Fresh
  <1>9. Matching(p)'
    BY <1>1, <1>5, <1>6 DEF Matching, Present
  <1>10. Versioned(p)'
    BY <1>1, <1>5, <1>6, <1>7 DEF Versioned
  <1>11. QED
    BY <1>8, <1>9, <1>10 DEF Kept

\* The default printer is loaded; it has a row, or was added too late.
LEMMA SubscribeKeeps ==
    ASSUME Sound, NEW p \in Printer, Kept(p), Subscribe
    PROVE  Kept(p)'
  <1>1. /\ TypeOK /\ OneLoad /\ Early /\ phase = "listed" /\ phase' # "new"
        /\ UNCHANGED <<server, bus, pending, rows, ghost>>
    BY DEF Subscribe, Sound
  <1>2. /\ RowsNamed(p)' = RowsNamed(p) /\ (Announced(p)' <=> Announced(p))
        /\ ComesOrGoes(p)' <=> ComesOrGoes(p)
    BY <1>1 DEF RowsNamed, Announced, ComesOrGoes
  <1>3. CASE UNCHANGED <<active, loads, stale>>
    <2>1. LoadsOf(p)' = LoadsOf(p)
      BY <1>3 DEF LoadsOf
    <2>2. QED
      BY <1>1, <1>2, <1>3, <2>1, Framed
  <1>4. ASSUME NEW q \in Printer, Present(q), Request({q})
        PROVE  Kept(p)'
    <2>1. ~ComesOrGoes(p)
      BY <1>1 DEF Early, ComesOrGoes
    <2>2. p \in {q} => RowsNamed(p) # {} \/ p \in ghost
      BY <1>1, <1>4, <2>1 DEF Kept, Matching
    <2>3. QED
      BY <1>1, <1>2, <1>4, <2>2, Asked
  <1>5. QED
    BY <1>3, <1>4 DEF Subscribe

LEMMA KeptStep ==
    ASSUME Sound, NEW p \in Printer, Kept(p), LastKnown(p), [Next]_vars
    PROVE  Kept(p)'
  <1>1. ASSUME NEW q \in Printer, Deliver(q)
        PROVE  Kept(p)'
    BY <1>1, AddedKeeps, DeletedKeeps, SignalledKeeps DEF Deliver
  <1>2. ASSUME NEW l \in loads, LoadStep(l)
        PROVE  Kept(p)'
    BY <1>2, ReadKeeps, AppliedKeeps, EndedKeeps DEF LoadStep
  <1>3. ASSUME NEW q \in Printer,
               ReadRow(q) \/ LoadPrinter(q) \/ SetAndRefresh(q)
        PROVE  Kept(p)'
    BY <1>3, RowRequestKeeps, RefreshKeeps DEF ReadRow, LoadPrinter
  <1>4. CASE UNCHANGED vars
    <2>1. /\ LoadsOf(p)' = LoadsOf(p) /\ RowsNamed(p)' = RowsNamed(p)
          /\ Announced(p)' <=> Announced(p)
          /\ ComesOrGoes(p)' <=> ComesOrGoes(p)
      BY <1>4 DEF vars, LoadsOf, RowsNamed, Announced, ComesOrGoes
    <2>2. /\ phase' = phase /\ server'[p] = server[p]
          /\ p \in stale => p \in stale'
          /\ p \in ghost' <=> p \in ghost
      BY <1>4 DEF vars
    <2>3. QED
      BY <2>1, <2>2, Framed
  <1>5. QED
    BY <1>1, <1>2, <1>3, <1>4, ListKeeps, SubscribeKeeps, ServerKeeps, EmitKeeps
    DEF Next

SyncInv == Sound /\ \A p \in Printer : Kept(p) /\ LastKnown(p)

LEMMA SyncInit ==
    ASSUME Init
    PROVE  SyncInv
  <1>1. Sound
    BY DEF Init, Sound, TypeOK, UniqueRows, OneLoad, Early, Phase, Data
  <1>2. ASSUME NEW p \in Printer
        PROVE  Kept(p) /\ LastKnown(p)
    <2>1. LoadsOf(p) = {} /\ RowsNamed(p) = {} /\ DOMAIN bus = {}
      BY DEF Init, LoadsOf, RowsNamed
    <2>2. QED
      BY <2>1 DEF Init, Kept, Fresh, Matching, Versioned, LastKnown
  <1>3. QED
    BY <1>1, <1>2 DEF SyncInv

LEMMA SyncStep ==
    ASSUME SyncInv, [Next]_vars
    PROVE  SyncInv'
  <1>1. TypeOK /\ UniqueRows /\ OneLoad /\ Early
    BY DEF SyncInv, Sound
  <1>2. Sound'
    BY <1>1, TypeStep, RowsStep, LoadsStep, EarlyStep DEF Sound
  <1>3. \A p \in Printer : Kept(p)' /\ LastKnown(p)'
    BY <1>1, KeptStep, LastKnownStep DEF SyncInv
  <1>4. QED
    BY <1>2, <1>3 DEF SyncInv

\* What the invariant says of the rows, in their places.
LEMMA SyncIsCurrent ==
    ASSUME SyncInv
    PROVE  DataCurrent
  <1>1. SUFFICES ASSUME NEW p \in Printer \ (stale \union ghost)
                 PROVE
          /\ \A l \in LoadsOf(p) :
               /\ l.stage \in {"named", "queued"} =>
                    Current(p, l.info) \/ Announced(p)
               /\ l.stage = "queued" => Current(p, l.attributes) \/ Announced(p)
          /\ \A i \in DOMAIN rows :
               rows[i].name = p /\ rows[i].type = "cups" =>
                 \/ Current(p, rows[i].info) /\ Current(p, rows[i].attributes)
                 \/ Announced(p)
                 \/ \E l \in LoadsOf(p) : Undelivered(l)
    BY DEF DataCurrent
  <1>2. Fresh(p) /\ p \notin stale /\ p \notin ghost
    BY DEF SyncInv, Kept
  <1>3. \A i \in DOMAIN rows : rows[i].name = p => rows[i] \in RowsNamed(p)
    BY DEF RowsNamed
  <1>4. QED
    BY <1>2, <1>3 DEF Fresh

LEMMA SyncIsSettled ==
    ASSUME SyncInv
    PROVE  SettledInSync
  <1>1. SUFFICES ASSUME NEW p \in Printer \ ghost, Settled(p)
                 PROVE  /\ HasRow(p) <=> Present(p)
                        /\ HasRow(p) /\ RowOf(p).type = "cups" /\ p \notin stale =>
                             /\ Current(p, RowOf(p).info)
                             /\ Current(p, RowOf(p).attributes)
    BY DEF SettledInSync
  <1>2. /\ Fresh(p) /\ Matching(p) /\ TypeOK /\ UniqueRows
        /\ p \notin ghost /\ ~Announced(p) /\ LoadsOf(p) = {} /\ phase # "new"
    BY <1>1 DEF SyncInv, Sound, Kept, Settled, Up
  <1>3. ~ComesOrGoes(p)
    BY <1>2 DEF Announced, ComesOrGoes
  <1>4. HasRow(p) <=> Present(p)
    BY <1>2, <1>3, HasRowNamed DEF Matching
  <1>5. HasRow(p) => RowOf(p) \in RowsNamed(p)
    BY <1>2, RowOfNamed
  <1>6. QED
    BY <1>2, <1>4, <1>5 DEF Fresh

\* What one step makes of the row of a printer.
LEMMA RowStep ==
    ASSUME SyncInv, [Next]_vars, NEW p \in Printer,
           NEW r \in RowsNamed(p), NEW s \in RowsNamed(p)'
    PROVE  \/ s = r
           \/ \E l \in LoadsOf(p) : l.stage = "queued" /\ s = LoadedRow(l)
           \/ /\ s.type = "cups"
              /\ s.info.version >= r.info.version
              /\ s.attributes = r.attributes
  <1>1. TypeOK /\ UniqueRows /\ OneLoad /\ Early /\ HasRow(p)
    BY HasRowNamed DEF SyncInv, Sound
  <1>2. RowsNamed(p) = {r}
    BY <1>1, RowOfNamed
  <1>3. CASE rows' = rows
    <2>1. RowsNamed(p)' = RowsNamed(p)
      BY <1>3 DEF RowsNamed
    <2>2. QED
      BY <1>2, <2>1
  <1>4. CASE ListPrinters
    BY <1>1, <1>4 DEF ListPrinters, Early, HasRow
  <1>5. ASSUME NEW l \in loads, PrinterLoaded(l)
        PROVE  s = r \/ (l \in LoadsOf(p) /\ l.stage = "queued" /\ s = LoadedRow(l))
    <2>1. /\ p # l.printer => RowsNamed(p)' = RowsNamed(p)
          /\ \/ RowsNamed(l.printer)' = {LoadedRow(l)}
             \/ rows' = rows
      BY <1>1, <1>5, LoadedRows
    <2>2. CASE RowsNamed(p)' = RowsNamed(p)
      BY <1>2, <2>2
    <2>3. CASE p = l.printer /\ RowsNamed(l.printer)' = {LoadedRow(l)}
      BY <1>5, <2>3 DEF PrinterLoaded, LoadsOf
    <2>4. rows' = rows => RowsNamed(p)' = RowsNamed(p)
      BY DEF RowsNamed
    <2>5. QED
      BY <2>1, <2>2, <2>3, <2>4
  <1>6. ASSUME NEW q \in Printer, PrinterAdded(q)
        PROVE  s = r
    <2>1. CASE HasRow(q)
      <3>1. RowsNamed(p)' = RowsNamed(p)
        BY <1>6, <2>1 DEF PrinterAdded, RowsNamed
      <3>2. QED
        BY <1>2, <3>1
    <2>2. CASE ~HasRow(q)
      <3>1. rows' = Append(rows, ProxyRow(q)) /\ p # q
        BY <1>1, <1>6, <2>2 DEF PrinterAdded
      <3>2. ProxyRow(q) \in Row /\ ProxyRow(q).name = q
        BY DEF ProxyRow, Row, NoData, Data
      <3>3. RowsNamed(p)' = RowsNamed(p)
        BY <1>1, <3>1, <3>2, AppendedRows
      <3>4. QED
        BY <1>2, <3>3
    <2>3. QED
      BY <2>1, <2>2
  <1>7. ASSUME NEW q \in Printer, PrinterDeleted(q)
        PROVE  s = r
    <2>1. CASE HasRow(q)
      <3>1. rows' = RemoveAt(rows, RowIndex(q))
        BY <1>7, <2>1 DEF PrinterDeleted
      <3>2. RowIndex(q) \in 1..Len(rows)
        BY <1>1, <2>1, RowIndexProps
      <3>3. RowsNamed(p)' = {} \/ RowsNamed(p)' = RowsNamed(p)
        BY <1>1, <3>1, <3>2, RemovedRows
      <3>4. QED
        BY <1>2, <3>3
    <2>2. CASE ~HasRow(q)
      <3>1. RowsNamed(p)' = RowsNamed(p)
        BY <1>7, <2>2 DEF PrinterDeleted, RowsNamed
      <3>2. QED
        BY <1>2, <3>1
    <2>3. QED
      BY <2>1, <2>2
  <1>8. ASSUME NEW q \in Printer, SetAndRefresh(q)
        PROVE  \/ s = r
               \/ /\ s.type = "cups"
                  /\ s.info.version >= r.info.version
                  /\ s.attributes = r.attributes
    <2> DEFINE t == [RowOf(q) EXCEPT !.info = server'[q]]
    <2>1. /\ RowIndex(q) \in 1..Len(rows) /\ rows[RowIndex(q)].name = q
          /\ HasRow(q) /\ RowOf(q).type = "cups"
      BY <1>1, <1>8, RowIndexProps DEF SetAndRefresh
    <2>2. RowOf(q) \in Row
      BY <1>1, <2>1, ElementOfSeq DEF RowOf, TypeOK
    <2>3. rows' = [rows EXCEPT ![RowIndex(q)] = t]
      BY <1>1, <1>8, <2>1 DEF SetAndRefresh, RowOf, TypeOK
    <2>4. /\ t.name = q /\ t.info = server'[q] /\ t.type = "cups"
          /\ t.attributes = RowOf(q).attributes
      BY <2>1, <2>2 DEF Row, RowOf
    <2> HIDE DEF t
    <2>5. RowsNamed(p)' = IF p = q THEN {t} ELSE RowsNamed(p)
      BY <1>1, <2>1, <2>3, <2>4, ReplacedRows
    <2>6. CASE p # q
      BY <1>2, <2>5, <2>6
    <2>7. CASE p = q
      <3>1. s = t /\ r = RowOf(q)
        BY <1>1, <1>2, <2>1, <2>5, <2>7, RowOfNamed
      <3>2. \/ server'[p] = server[p]
            \/ server'[p].version = server[p].version + 1
        <4>1. CASE Modify(q)
          BY <1>1, <2>7, <4>1, ServerShape
        <4>2. CASE UNCHANGED server
          BY <4>2
        <4>3. QED
          BY <1>8, <4>1, <4>2 DEF SetAndRefresh
      <3>3. r.info.version <= server[p].version
        BY DEF SyncInv, Kept, Versioned
      <3>4. server[p].version \in Nat /\ r.info.version \in Nat
        BY <1>1, LoadVersions
      <3>5. QED
        BY <2>4, <2>7, <3>1, <3>2, <3>3, <3>4
    <2>8. QED
      BY <2>6, <2>7
  <1>9. QED
    BY <1>3, <1>4, <1>5, <1>6, <1>7, <1>8
    DEF Next, vars, Subscribe, Server, ServerAdd, ServerDelete, ServerModify,
        LoadStep, Loader, LoaderReadsInfo, LoaderReadsAttributes,
        OnPrinterLoaded, Deliver, PrinterSignalled, LimiterEmits, ReadRow,
        LoadPrinter, RequestIfProxy

LEMMA RowInOrder ==
    ASSUME SyncInv, [Next]_vars,
           NEW i \in DOMAIN rows, NEW j \in DOMAIN rows',
           rows[i].name = rows'[j].name
    PROVE  /\ rows[i].type = "cups" => rows'[j].type = "cups"
           /\ rows[i].attributes.version <= rows'[j].attributes.version
           /\ \/ rows[i].info.version <= rows'[j].info.version
              \/ Current(rows[i].name, rows'[j].info)
              \/ Announced(rows[i].name)
              \/ rows[i].name \in stale \union ghost
  <1>0. PICK p, r, s : p = rows[i].name /\ r = rows[i] /\ s = rows'[j]
    OBVIOUS
  <1>1. p \in Printer /\ r \in RowsNamed(p) /\ s \in RowsNamed(p)'
    <2>1. rows[i] \in Row
      BY ElementOfSeq DEF SyncInv, Sound, TypeOK
    <2>2. p \in Printer
      BY <1>0, <2>1 DEF Row
    <2>3. r \in RowsNamed(p)
      BY <1>0 DEF RowsNamed
    <2>4. rows'[j].name = p
      BY <1>0
    <2>5. s \in RowsNamed(p)'
      BY <1>0, <2>4 DEF RowsNamed
    <2>6. QED
      BY <2>2, <2>3, <2>5
  <1>2. /\ r.info.version \in Nat /\ r.attributes.version \in Nat
    BY <1>1, LoadVersions DEF SyncInv, Sound
  <1>3. Fresh(p) /\ Versioned(p)
    BY <1>1 DEF SyncInv, Kept
  <1>4. \/ s = r
        \/ \E l \in LoadsOf(p) : l.stage = "queued" /\ s = LoadedRow(l)
        \/ /\ s.type = "cups"
           /\ s.info.version >= r.info.version
           /\ s.attributes = r.attributes
    BY <1>1, RowStep
  <1>5. CASE s = r
    BY <1>0, <1>2, <1>5
  <1>6. ASSUME NEW l \in LoadsOf(p), l.stage = "queued", s = LoadedRow(l)
        PROVE  /\ s.type = "cups"
               /\ r.attributes.version <= s.attributes.version
               /\ Current(p, s.info) \/ Announced(p) \/ p \in stale \union ghost
    BY <1>1, <1>3, <1>6 DEF Fresh, Versioned, LoadedRow
  <1>7. CASE /\ s.type = "cups"
             /\ s.info.version >= r.info.version
             /\ s.attributes = r.attributes
    <2>1. s.info.version \in Nat
      <3>1. \A x \in Row : x.info.version \in Nat
        BY DEF Row, Data
      <3>2. rows'[j] \in Row
        BY SyncStep, ElementOfSeq DEF SyncInv, Sound, TypeOK
      <3>3. QED
        BY <1>0, <3>1, <3>2
    <2>2. QED
      BY <1>0, <1>2, <1>7, <2>1
  <1>8. QED
    BY <1>0, <1>4, <1>5, <1>6, <1>7

-----------------------------------------------------------------------------
(* The theorems. *)

\* No name is listed twice and requests and loads match, in every behaviour of
\* PrinterModel and PrinterCupsBackend::requestPrinter.  The three facts are
\* inductive only together: the names of rows come from loads.
THEOREM SyncInvariant == Spec => [](TypeOK /\ UniqueRows /\ OneLoad)
  <1>1. Init => TypeOK /\ UniqueRows /\ OneLoad
    BY DEF Init, TypeOK, UniqueRows, OneLoad, Phase, Data
  <1>2. TypeOK /\ UniqueRows /\ OneLoad /\ [Next]_vars
        => (TypeOK /\ UniqueRows /\ OneLoad)'
    BY TypeStep, RowsStep, LoadsStep
  <1>3. QED
    BY <1>1, <1>2, PTL DEF Spec

LEMMA SyncHolds == Spec => []SyncInv
  BY SyncInit, SyncStep, PTL DEF Spec

\* Whatever CUPS, the loaders and the user do, in whatever order: data read of
\* a printer is current, or will be read again, or belongs to one of the races
\* stale and ghost record.
THEOREM DataStaysCurrent == Spec => []DataCurrent
  BY SyncHolds, SyncIsCurrent, PTL

\* So that a printer nothing is under way for is listed just when CUPS has it,
\* with what CUPS says of it.  printerDeleted may find no row, a load none to
\* be applied to, and printerModified a printer that is gone: the invariant
\* ties rows, signals and loads together for one printer at a time.
THEOREM SettledIsInSync == Spec => []SettledInSync
  BY SyncHolds, SyncIsSettled, PTL

\* A load is never applied over attributes read later than its own.
THEOREM UpdatesComeInOrder == Spec => UpdatesInOrder
  <1>1. SyncInv /\ [Next]_vars
        => [\A i \in DOMAIN rows, j \in DOMAIN rows' :
              rows[i].name = rows'[j].name =>
                /\ rows[i].type = "cups" => rows'[j].type = "cups"
                /\ rows[i].attributes.version <= rows'[j].attributes.version
                /\ \/ rows[i].info.version <= rows'[j].info.version
                   \/ Current(rows[i].name, rows'[j].info)
                   \/ Announced(rows[i].name)
                   \/ rows[i].name \in stale \union ghost]_vars
    BY RowInOrder
  <1>2. QED
    BY <1>1, SyncHolds, PTL DEF Spec, UpdatesInOrder
=============================================================================
