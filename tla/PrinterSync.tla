---------------------------- MODULE PrinterSync ----------------------------
(***************************************************************************)
(* How the list of printers is kept in step with CUPS: PrinterModel        *)
(* (Printers/models/printermodel.cpp), the requests of PrinterCupsBackend  *)
(* (Printers/backend/backend_cups.cpp), the PrinterLoader each request     *)
(* runs in a thread of its own (Printers/cups/printerloader.cpp), and the  *)
(* start-up of Printers (Printers/printers/printers.cpp).                  *)
(*                                                                         *)
(* The main thread runs one handler at a time: it takes the next signal of *)
(* the notifier, or one of the two calls a loader has queued, in any order *)
(* that keeps each source's own.  CUPS and the loaders run beside it.      *)
(*                                                                         *)
(* What a printer's attributes say is abstract: a version, which goes up   *)
(* with every change, and the content Printer::deepCompare looks at.  The  *)
(* PDF printer, the last row PrinterModel's constructor adds, is left out: *)
(* no signal, request or load is ever about it.                            *)
(***************************************************************************)
EXTENDS Naturals, Sequences, FiniteSets, SequencesExt

CONSTANTS
    Printer,        \* the printer names CUPS may use
    Content,        \* what deepCompare can tell apart
    Absent,         \* the content QPrinterInfo reports for an unknown name
    NoName,         \* the empty printer name
    MaxVersion      \* bound: changes CUPS makes to each printer

ASSUME SyncAssumption ==
    /\ Absent \notin Content
    /\ NoName \notin Printer
    /\ MaxVersion \in Nat
    /\ IsFiniteSet(Printer)

VARIABLES
    phase,          \* how far Printers' constructor has come
    server,         \* CUPS: each printer's version and content
    bus,            \* notifier signals that have not been delivered
    pending,        \* m_signalHandler's names
    active,         \* m_activePrinterRequests
    loads,          \* the PrinterLoaders and the calls they have queued
    rows,           \* m_printers
    stale,          \* history: printers some news of which may be lost
    ghost           \* history: printers whose coming or going may be

vars == <<phase, server, bus, pending, active, loads, rows, stale, ghost>>

Limiter == INSTANCE Coalescer WITH Name <- Printer, owed <- pending,
                                   batch <- {}

\* "listed": PrinterModel has read the names CUPS has, and nothing reports
\* changes yet.  "running": subscribed.  "deaf": creating the subscription
\* failed, and createSubscription only returned -1.
Phase == {"new", "listed", "running", "deaf"}
Up == phase \in {"running", "deaf"}

Data == [version : Nat, content : Content \union {Absent}]
NoData == [version |-> 0, content |-> Absent]

Signal == [kind : {"Added", "Modified", "Deleted"}, printer : Printer]

\* The stages of a load: the thread is started; it has read the printer's
\* QPrinterInfo; it has read its attributes too and emitted loaded(), which
\* queued two calls; the first of them, PrinterModel::printerLoaded, is done
\* and the second, PrinterCupsBackend::onPrinterLoaded, is left.
\* loads is a set: there is one load of a printer at a time (OneLoad).
Stage == {"started", "named", "queued", "delivered"}
Load == [printer : Printer, stage : Stage, name : Printer \union {NoName},
         info : Data, attributes : Data]

\* A row: a Printer with its backend.  A proxy has only its name.
Row == [name : Printer, type : {"proxy", "cups"},
        info : Data, attributes : Data]

TypeOK ==
    /\ phase \in Phase
    /\ server \in [Printer -> Data]
    /\ bus \in Seq(Signal)
    /\ pending \subseteq Printer
    /\ active \subseteq Printer
    /\ loads \subseteq Load
    /\ rows \in Seq(Row)
    /\ stale \subseteq Printer
    /\ ghost \subseteq Printer

-----------------------------------------------------------------------------
Present(p) == server[p].content # Absent

\* getPrinterByName: the first row of that name.
HasRow(n) == \E i \in DOMAIN rows : rows[i].name = n
RowIndex(n) == SelectInSeq(rows, LAMBDA row : row.name = n)
RowOf(n) == rows[RowIndex(n)]

ProxyRow(p) ==
    [name |-> p, type |-> "proxy", info |-> NoData, attributes |-> NoData]

\* A load PrinterModel has not seen, and one that has read the server.
Undelivered(l) == l.stage # "delivered"
HasRead(l) == l.stage # "started"

LoadsOf(p) == {l \in loads : l.printer = p}

Init ==
    /\ phase = "new"
    /\ server \in [Printer ->
            [version : {1}, content : Content \union {Absent}]]
    /\ bus = <<>>
    /\ pending = {}
    /\ active = {}
    /\ loads = {}
    /\ rows = <<>>
    /\ stale = {}
    /\ ghost = {}

-----------------------------------------------------------------------------
(* The CUPS server. *)

\* With a subscription, every change is signalled after it is made.
Announce(kind, p) ==
    bus' = IF phase = "running"
           THEN Append(bus, [kind |-> kind, printer |-> p])
           ELSE bus

Change(p, content) ==
    /\ server[p].version < MaxVersion
    /\ server' = [server EXCEPT ![p] = [version |-> @.version + 1,
                                        content |-> content]]

\* Changes nothing will signal, and that are not seen by reading later.
MissedChange(p) ==
    /\ stale' = IF phase = "deaf" THEN stale \union {p} ELSE stale
    /\ ghost' = IF phase \in {"listed", "deaf"} THEN ghost \union {p} ELSE ghost

ServerAdd(p) ==
    /\ ~Present(p)
    /\ \E c \in Content : Change(p, c)
    /\ Announce("Added", p)
    /\ MissedChange(p)
    /\ UNCHANGED <<phase, pending, active, loads, rows>>

ServerDelete(p) ==
    /\ Present(p)
    /\ Change(p, Absent)
    /\ Announce("Deleted", p)
    /\ MissedChange(p)
    /\ UNCHANGED <<phase, pending, active, loads, rows>>

\* CUPS signals PrinterModified or PrinterStateChanged; PrinterModel connects
\* both to the same slot.  The content may be the same: only attributes
\* deepCompare does not look at have changed, or none have.
Modify(p) ==
    /\ Present(p)
    /\ \E c \in Content : Change(p, c)
    /\ Announce("Modified", p)
    /\ stale' = IF phase = "deaf" THEN stale \union {p} ELSE stale

\* An administrator or a print job changes p, or one of Printer's setters
\* that asks CUPS to and leaves it at that.
ServerModify(p) ==
    /\ Modify(p)
    /\ UNCHANGED <<phase, pending, active, loads, rows, ghost>>

-----------------------------------------------------------------------------
(* PrinterCupsBackend and PrinterLoader. *)

\* Mutant: requestPrinter without the test of m_activePrinterRequests.
RequestAlways(S) ==
    /\ active' = active \union S
    /\ loads' = loads \union
            {[printer |-> p, stage |-> "started", name |-> NoName,
              info |-> NoData, attributes |-> NoData] : p \in S}
    /\ stale' = stale \ S

\* requestPrinter for every name of S: a name with a request active is
\* dropped, for the others a loader is started.
Request(S) ==
    LET fresh == S \ active
        tooLate == {p \in S \intersect active :
                        \E l \in LoadsOf(p) : HasRead(l)}
    IN
    /\ active' = active \union fresh
    /\ loads' = loads \union
            {[printer |-> p, stage |-> "started", name |-> NoName,
              info |-> NoData, attributes |-> NoData] : p \in fresh}
    /\ stale' = (stale \ fresh) \union tooLate

\* PrinterLoader::load names the backend itself when QPrinterInfo reports
\* an unknown printer.
LoadedName(p, reported) == IF reported = NoName THEN p ELSE reported

\* load(), first half: QPrinterInfo::printerInfo.
LoaderReadsInfo(l) ==
    /\ l.stage = "started"
    /\ LET reported == IF Present(l.printer) THEN l.printer ELSE NoName IN
       loads' = (loads \ {l}) \union
            {[l EXCEPT !.stage = "named",
                       !.name = LoadedName(l.printer, reported),
                       !.info = server[l.printer]]}
    /\ UNCHANGED <<phase, server, bus, pending, active, rows, stale, ghost>>

\* load(), second half: the new Printer reads its attributes; loaded() is
\* emitted, and queues its two calls for the main thread.
LoaderReadsAttributes(l) ==
    /\ l.stage = "named"
    /\ loads' = (loads \ {l}) \union
            {[l EXCEPT !.stage = "queued",
                       !.attributes = server[l.printer]]}
    /\ UNCHANGED <<phase, server, bus, pending, active, rows, stale, ghost>>

\* Mutant: the request is not taken out of m_activePrinterRequests.
OnPrinterLoadedKeeps(l) ==
    /\ Up
    /\ l.stage = "delivered"
    /\ loads' = loads \ {l}
    /\ UNCHANGED <<phase, server, bus, pending, active, rows, stale, ghost>>

\* PrinterCupsBackend::onPrinterLoaded, the second call: the request is over.
OnPrinterLoaded(l) ==
    /\ Up
    /\ l.stage = "delivered"
    /\ loads' = loads \ {l}
    /\ active' = active \ {l.name}
    /\ UNCHANGED <<phase, server, bus, pending, rows, stale, ghost>>

-----------------------------------------------------------------------------
(* PrinterModel. *)

\* Mutant: deepCompare leaves the attributes read last out.
DeepCompareInfoOnly(row, l) ==
    /\ row.type = "cups"
    /\ row.info.content = l.info.content

\* Printer::deepCompare of a row and a loaded printer: all it looks at.
DeepCompare(row, l) ==
    /\ row.type = "cups"
    /\ row.info.content = l.info.content
    /\ row.attributes.content = l.attributes.content

LoadedRow(l) ==
    [name |-> l.name, type |-> "cups",
     info |-> l.info, attributes |-> l.attributes]

\* printerLoaded, the first call: update the row if it differs, or add one.
\* updateFrom copies the attributes and takes over the backend.
PrinterLoaded(l) ==
    /\ Up
    /\ l.stage = "queued"
    /\ loads' = (loads \ {l}) \union {[l EXCEPT !.stage = "delivered"]}
    /\ \/ /\ HasRow(l.name)
          /\ rows' = IF DeepCompare(RowOf(l.name), l)
                     THEN rows
                     ELSE [rows EXCEPT ![RowIndex(l.name)] = LoadedRow(l)]
       \/ /\ ~HasRow(l.name)
          /\ rows' = Append(rows, LoadedRow(l))
    /\ UNCHANGED <<phase, server, bus, pending, active, stale, ghost>>

\* The next signal of the notifier is delivered.
Delivered(kind, p) ==
    /\ Up
    /\ bus # <<>>
    /\ Head(bus) = [kind |-> kind, printer |-> p]
    /\ bus' = Tail(bus)
    /\ UNCHANGED <<phase, server>>

\* Mutant: the printer is loaded only when it is new to the model.
PrinterAddedLazily(p) ==
    /\ Delivered("Added", p)
    /\ \/ /\ HasRow(p)
          /\ UNCHANGED <<rows, active, loads, stale>>
       \/ /\ ~HasRow(p)
          /\ rows' = Append(rows, ProxyRow(p))
          /\ Request({p})
    /\ ghost' = ghost \ {p}
    /\ UNCHANGED pending

\* printerAdded: add a proxy unless there is a row, and load the printer.
PrinterAdded(p) ==
    /\ Delivered("Added", p)
    /\ rows' = IF HasRow(p) THEN rows ELSE Append(rows, ProxyRow(p))
    /\ Request({p})
    /\ ghost' = ghost \ {p}
    /\ UNCHANGED pending

\* Mutant: a deleted printer stays listed while a load of it is active.
PrinterDeletedUnlessActive(p) ==
    /\ Delivered("Deleted", p)
    /\ rows' = IF HasRow(p) /\ p \notin active
               THEN RemoveAt(rows, RowIndex(p)) ELSE rows
    /\ ghost' = IF \E l \in LoadsOf(p) : Undelivered(l)
                THEN ghost \union {p}
                ELSE ghost \ {p}
    /\ UNCHANGED <<pending, active, loads, stale>>

\* printerDeleted: remove the row, if there is one.
PrinterDeleted(p) ==
    /\ Delivered("Deleted", p)
    /\ rows' = IF HasRow(p) THEN RemoveAt(rows, RowIndex(p)) ELSE rows
    /\ ghost' = IF \E l \in LoadsOf(p) : Undelivered(l)
                THEN ghost \union {p}
                ELSE ghost \ {p}
    /\ UNCHANGED <<pending, active, loads, stale>>

\* printerModified, once for every name the limiter emits: load it again,
\* if the printer still has a row.
ModifiedBatch(b) == Request({p \in b : HasRow(p)})

\* m_signalHandler's slot keeps the name, or finds it overdue and emits.
PrinterSignalled(p) ==
    /\ Delivered("Modified", p)
    /\ \/ /\ Limiter!Keep(p)
          /\ UNCHANGED <<active, loads, stale>>
       \/ \E b \in SUBSET Printer :
              Limiter!KeepAndHandOn(p, b) /\ ModifiedBatch(b)
    /\ UNCHANGED <<rows, ghost>>

\* m_signalHandler's timer times out.
LimiterEmits ==
    /\ Up
    /\ \E b \in SUBSET Printer : Limiter!HandOn(b) /\ ModifiedBatch(b)
    /\ UNCHANGED <<phase, server, bus, rows, ghost>>

\* A proxy's row is asked for what only CUPS knows: data() for such a role,
\* or Printers::loadPrinter.
RequestIfProxy(p) ==
    /\ Up
    /\ HasRow(p)
    /\ RowOf(p).type = "proxy"
    /\ Request({p})
    /\ UNCHANGED <<phase, server, bus, pending, rows, ghost>>

ReadRow(p) == RequestIfProxy(p)
LoadPrinter(p) == RequestIfProxy(p)

\* Printer::setEnabled and setDefaultPageSize, through setData: CUPS makes the
\* change or refuses, and either way the backend's QPrinterInfo is read again
\* at once.  A proxy's backend does neither.
SetAndRefresh(p) ==
    /\ Up
    /\ HasRow(p)
    /\ RowOf(p).type = "cups"
    /\ Modify(p) \/ UNCHANGED <<server, bus, stale>>
    /\ rows' = [rows EXCEPT ![RowIndex(p)].info = server'[p]]
    /\ UNCHANGED <<phase, pending, active, loads, ghost>>

-----------------------------------------------------------------------------
(* Printers' constructor, one call on the main thread. *)

\* PrinterModel's constructor: a proxy for every name, in some order.
ListPrinters ==
    /\ phase = "new"
    /\ phase' = "listed"
    /\ LET listed == {p \in Printer : Present(p)} IN
       \E order \in SetToSeqs(listed) :
           rows' = [i \in DOMAIN order |-> ProxyRow(order[i])]
    /\ UNCHANGED <<server, bus, pending, active, loads, stale, ghost>>

\* The subscription is created, or is not; then the default printer, if
\* there is one, is loaded.
Subscribe ==
    /\ phase = "listed"
    /\ phase' \in {"running", "deaf"}
    /\ \/ UNCHANGED <<active, loads, stale>>
       \/ \E p \in Printer : Present(p) /\ Request({p})
    /\ UNCHANGED <<server, bus, pending, rows, ghost>>

-----------------------------------------------------------------------------
Server(p) == ServerAdd(p) \/ ServerDelete(p) \/ ServerModify(p)

Loader(l) == LoaderReadsInfo(l) \/ LoaderReadsAttributes(l)

LoadStep(l) == Loader(l) \/ PrinterLoaded(l) \/ OnPrinterLoaded(l)

Deliver(p) == PrinterAdded(p) \/ PrinterDeleted(p) \/ PrinterSignalled(p)

Next ==
    \/ ListPrinters
    \/ Subscribe
    \/ \E p \in Printer : Server(p)
    \/ \E l \in loads : LoadStep(l)
    \/ \E p \in Printer : Deliver(p)
    \/ LimiterEmits
    \/ \E p \in Printer : ReadRow(p) \/ LoadPrinter(p) \/ SetAndRefresh(p)

\* Threads run, the event loop serves every source, and the constructor
\* returns.  CUPS and the user owe nothing.
Fairness ==
    /\ WF_vars(ListPrinters)
    /\ WF_vars(Subscribe)
    /\ \A p \in Printer : WF_vars(\E l \in LoadsOf(p) : LoadStep(l))
    /\ WF_vars(\E p \in Printer : Deliver(p))
    /\ WF_vars(LimiterEmits)

Spec == Init /\ [][Next]_vars /\ Fairness
-----------------------------------------------------------------------------
(* Properties. *)

(***************************************************************************)
(* No printer is listed twice, though rows come from three places: the     *)
(* names listed at start-up, PrinterAdded signals, and loads that find no  *)
(* row because the printer was removed or never listed.                    *)
(***************************************************************************)
UniqueRows ==
    \A i, j \in DOMAIN rows : rows[i].name = rows[j].name => i = j

(***************************************************************************)
(* m_activePrinterRequests holds exactly the printers with a loader at     *)
(* work or a call of it queued, one for each: a name left behind would     *)
(* keep its printer from ever being loaded again, a name dropped early     *)
(* would let two loads of it run into each other.  It rests on the loaded  *)
(* printer having the name that was requested, even when CUPS no longer    *)
(* knows it (setPrinterNameInternal).                                      *)
(***************************************************************************)
OneLoad ==
    /\ \A p \in active : \E l \in loads : l.printer = p
    /\ \A l \in loads : l.printer \in active
    /\ \A l, m \in loads : l.printer = m.printer => l = m
    /\ \A l \in loads : HasRead(l) => l.name = l.printer

\* A signal about p is on its way, or waits in the limiter.
Announced(p) ==
    \/ p \in pending
    \/ \E i \in DOMAIN bus : bus[i].printer = p

\* What was read of p is what CUPS says now, as far as deepCompare goes.
Current(p, data) == data.content = server[p].content

(***************************************************************************)
(* Data read from CUPS is current, or a signal that will have it read      *)
(* again is on its way - unless a request for that printer was dropped     *)
(* while an earlier load, which had already read the server, was active,   *)
(* or nothing signals changes at all.  It is the reason dropping requests  *)
(* in requestPrinter is safe but for that case, which the code does have.  *)
(***************************************************************************)
DataCurrent ==
    \A p \in Printer \ (stale \union ghost) :
        /\ \A l \in LoadsOf(p) :
            /\ l.stage \in {"named", "queued"} =>
                 Current(p, l.info) \/ Announced(p)
            /\ l.stage = "queued" =>
                 Current(p, l.attributes) \/ Announced(p)
        /\ \A i \in DOMAIN rows :
            rows[i].name = p /\ rows[i].type = "cups" =>
              \/ Current(p, rows[i].info) /\ Current(p, rows[i].attributes)
              \/ Announced(p)
              \/ \E l \in LoadsOf(p) : Undelivered(l)

(***************************************************************************)
(* While it exists a row never goes back from loaded to proxy or to older  *)
(* attributes: a load that finishes late is never applied over a newer     *)
(* one.  What was refreshed after the user set something can go back, when *)
(* a load that read it before is applied; then a signal that will have it  *)
(* read again is on its way.                                               *)
(***************************************************************************)
UpdatesInOrder ==
    [][\A i \in DOMAIN rows, j \in DOMAIN rows' :
        rows[i].name = rows'[j].name =>
          /\ rows[i].type = "cups" => rows'[j].type = "cups"
          /\ rows[i].attributes.version <= rows'[j].attributes.version
          /\ \/ rows[i].info.version <= rows'[j].info.version
             \/ Current(rows[i].name, rows'[j].info)
             \/ Announced(rows[i].name)
             \/ rows[i].name \in stale \union ghost]_vars

\* Nothing is under way for p.
Settled(p) == Up /\ ~Announced(p) /\ LoadsOf(p) = {}

(***************************************************************************)
(* When nothing is under way for a printer, it is listed just when CUPS    *)
(* has it and a loaded row says what CUPS says, but for three races the    *)
(* code has: a request dropped too late (stale), a printer deleted while   *)
(* it is being loaded, which printerLoaded lists again (ghost), and one    *)
(* added or deleted between the listing and the subscription (ghost).      *)
(***************************************************************************)
SettledInSync ==
    \A p \in Printer \ ghost : Settled(p) =>
        /\ HasRow(p) <=> Present(p)
        /\ HasRow(p) /\ RowOf(p).type = "cups" /\ p \notin stale =>
             /\ Current(p, RowOf(p).info)
             /\ Current(p, RowOf(p).attributes)

(***************************************************************************)
(* A printer whose PrinterAdded signal arrives while no request for it is  *)
(* active is loaded some time, whatever else happens to it meanwhile.      *)
(***************************************************************************)
AddedIsLoaded ==
    \A p \in Printer :
        /\ Up
        /\ bus # <<>>
        /\ Head(bus) = [kind |-> "Added", printer |-> p]
        /\ p \notin active
        ~> HasRow(p) /\ RowOf(p).type = "cups"

(***************************************************************************)
(* Once CUPS stops changing, everything settles for good: every request    *)
(* ends, so that a printer can be requested again, and no chain of         *)
(* signals, batches and loads keeps itself going.                          *)
(***************************************************************************)
Settles == <>[](\A p \in Printer : Settled(p))
=============================================================================
