------------------------------ MODULE JobSync ------------------------------
(***************************************************************************)
(* How the list of print jobs is kept in step with CUPS: JobModel          *)
(* (Printers/models/jobmodel.cpp), the JobLoader each request for a job's  *)
(* extended attributes runs in a thread (Printers/cups/jobloader.cpp), and *)
(* the slots of Printers that give a job its printer and have it loaded    *)
(* (Printers/printers/printers.cpp).                                       *)
(*                                                                         *)
(* The D-Bus signals of cupsd's notifier are broadcast: a subscription of  *)
(* another process, or one an earlier run of this one never cancelled, has *)
(* every event signalled once more, by a notifier process of its own.      *)
(*                                                                         *)
(* The rows of PrinterModel (module PrinterSync) are here the set of their *)
(* names: a row comes, or goes, at any time.                               *)
(***************************************************************************)
EXTENDS Naturals, Sequences, FiniteSets, SequencesExt

CONSTANTS
    Printer,        \* the printer names
    Job,            \* the job ids
    PrinterOf,      \* the printer each job is for
    Own,            \* the subscription Printers creates
    Subscription,   \* that one and those of others
    Worlds,         \* the jobs and subscriptions a behaviour may have
    MaxChanges      \* bound: changes CUPS makes to the jobs

ASSUME JobAssumption ==
    /\ PrinterOf \in [Job -> Printer]
    /\ Worlds \subseteq [jobs : SUBSET Job, subscriptions : SUBSET Subscription]
    /\ \A w \in Worlds : /\ Own \in w.subscriptions
                         /\ IsFiniteSet(w.jobs) /\ IsFiniteSet(w.subscriptions)
    /\ MaxChanges \in Nat

VARIABLES
    phase,          \* how far Printers' constructor has come
    server,         \* CUPS: each job's state, pages printed, and changes
    bus,            \* for each subscription, signals not delivered yet
    pending,        \* m_signalHandler's names
    printers,       \* names of PrinterModel's rows
    active,         \* m_activeJobRequests
    loads,          \* the JobLoaders and the calls they have queued
    rows,           \* m_jobs
    stale,          \* history: jobs an overtaken load was applied to
    missed          \* history: jobs changed before the subscription

vars == <<phase, server, bus, pending, printers, active, loads, rows, stale,
          missed>>

Limiter == INSTANCE Coalescer WITH Name <- Printer, owed <- pending,
                                   batch <- {}

\* The jobs and the subscriptions of this behaviour.
Jobs == DOMAIN server
Subscriptions == DOMAIN bus

\* As in PrinterSync; "crashed" is a null pointer that was used.
Phase == {"new", "listed", "running", "deaf", "crashed"}
Up == phase \in {"running", "deaf"}

\* CUPS lists a job while its state is one of Open.
Open == {"pending", "held", "processing"}
State == Open \union {"unknown", "done"}

\* What a signal or a load says of a job.  A load that fails says "unknown",
\* and the defaults of printerGetJobAttributes.
Report == [state : State, pages : Nat]

\* Signals come of a state CUPS has.
Said == [state : Open \union {"done"}, pages : Nat]

JobSignal == [kind : {"Created", "State", "Completed"}, job : Jobs,
              report : Said]
PrinterSignal == [kind : {"PrinterState"}, printer : Printer]

\* overtaken is history: a signal said more since the job was read.
Load == [job : Jobs, stage : {"started", "queued", "delivered"},
         report : Report, overtaken : BOOLEAN]

\* printer is m_printer: null, the Printer of PrinterModel's row, or one whose
\* row has gone since.
Row == [job : Jobs, printer : {"null", "listed", "gone"}, report : Said]

TypeOK ==
    /\ phase \in Phase
    /\ \E w \in Worlds :
           /\ server \in [w.jobs -> [report : Report, changes : Nat]]
           /\ bus \in [w.subscriptions -> Seq(JobSignal \union PrinterSignal)]
    /\ pending \subseteq Printer
    /\ printers \subseteq Printer
    /\ active \subseteq Jobs
    /\ loads \subseteq Load
    /\ rows \in Seq(Row)
    /\ stale \subseteq Jobs
    /\ missed \subseteq Jobs

-----------------------------------------------------------------------------
StateOf(j) == server[j].report.state
Unread == [state |-> "unknown", pages |-> 0]

\* getJob: the first row of that job, 0 if there is none.
HasRow(j) == \E i \in DOMAIN rows : rows[i].job = j
FirstOf(seq, j) == SelectInSeq(seq, LAMBDA row : row.job = j)
RowOf(j) == rows[FirstOf(rows, j)]

NewRow(j, report) == [job |-> j, printer |-> "null", report |-> report]

LoadsOf(j) == {l \in loads : l.job = j}

Init ==
    /\ phase = "new"
    /\ \E w \in Worlds :
           /\ server = [j \in w.jobs |-> [report |-> Unread, changes |-> 0]]
           /\ bus = [s \in w.subscriptions |-> <<>>]
    /\ pending = {}
    /\ printers = {}
    /\ active = {}
    /\ loads = {}
    /\ rows = <<>>
    /\ stale = {}
    /\ missed = {}

-----------------------------------------------------------------------------
(* The CUPS server. *)

\* Each subscription there is has the signal sent.  The notifier's interface
\* is connected before the jobs are listed, the own subscription made after.
Announce(signal) ==
    LET signalling == IF phase = "running" THEN Subscriptions
                                           ELSE Subscriptions \ {Own} IN
    bus' = [s \in Subscriptions |->
               IF s \in signalling THEN Append(bus[s], signal) ELSE bus[s]]

Change(j, report) ==
    /\ phase # "crashed"
    /\ MapThenSumSet(LAMBDA i : server[i].changes, Jobs) < MaxChanges
    /\ server' = [server EXCEPT ![j] = [report |-> report,
                                        changes |-> @.changes + 1]]
    /\ missed' = IF phase = "listed" THEN missed \union {j} ELSE missed

ChangeState(j, kind, to) ==
    LET report == [state |-> to, pages |-> server[j].report.pages] IN
    /\ Change(j, report)
    /\ Announce([kind |-> kind, job |-> j, report |-> report])
    /\ UNCHANGED <<phase, pending, printers, active, loads, rows, stale>>

ServerCreates(j) ==
    /\ StateOf(j) = "unknown"
    /\ \E to \in {"pending", "held"} : ChangeState(j, "Created", to)

ServerMoves(j) ==
    /\ StateOf(j) \in Open
    /\ \E to \in Open \ {StateOf(j)} : ChangeState(j, "State", to)

ServerCompletes(j) ==
    /\ StateOf(j) \in Open
    /\ ChangeState(j, "Completed", "done")

\* A page is printed: of the job's signals none, only the printer's state.
ServerPrintsPage(j) ==
    /\ StateOf(j) = "processing"
    /\ Change(j, [server[j].report EXCEPT !.pages = @ + 1])
    /\ Announce([kind |-> "PrinterState", printer |-> PrinterOf[j]])
    /\ UNCHANGED <<phase, pending, printers, active, loads, rows, stale>>

-----------------------------------------------------------------------------
(* Requests for extended attributes, and their loaders. *)

\* Mutant: requestJobExtendedAttributes without the test of
\* m_activeJobRequests.
RequestAlways(S) ==
    /\ active' = active \union S
    /\ loads' = loads \union
            {[job |-> j, stage |-> "started", report |-> Unread,
              overtaken |-> FALSE] : j \in S}

\* requestJobExtendedAttributes for every job of S, those with a request
\* active excepted.
Request(S) ==
    /\ active' = active \union S
    /\ loads' = loads \union
            {[job |-> j, stage |-> "started", report |-> Unread,
              overtaken |-> FALSE] : j \in S \ active}

\* Printers::jobAdded for every job of S, on the rows seq: jobs of a listed
\* printer get it and are loaded.  It is getJob's row that does.
JobsAdded(seq, S, listed) ==
    LET added == {j \in S : PrinterOf[j] \in listed} IN
    /\ rows' = [i \in DOMAIN seq |->
                   IF seq[i].job \in added /\ i = FirstOf(seq, seq[i].job)
                   THEN [seq[i] EXCEPT !.printer = "listed"]
                   ELSE seq[i]]
    /\ Request(added)

\* load(): the attributes are read, or reading them fails; loaded() queues two
\* calls for the main thread.
LoaderReads(l) ==
    /\ phase # "crashed"
    /\ l.stage = "started"
    /\ \E report \in {server[l.job].report, Unread} :
           loads' = (loads \ {l}) \union
               {[l EXCEPT !.stage = "queued", !.report = report]}
    /\ UNCHANGED <<phase, server, bus, pending, printers, active, rows, stale,
                   missed>>

\* PrinterJob::loadAttributes: the pages, and the state if there is one.
LoadAttributes(row, report) ==
    [row EXCEPT !.report =
        [state |-> IF report.state = "unknown" THEN row.report.state
                                               ELSE report.state,
         pages |-> report.pages]]

\* updateJob, the first call.
UpdateJob(l) ==
    /\ Up
    /\ l.stage = "queued"
    /\ loads' = (loads \ {l}) \union {[l EXCEPT !.stage = "delivered"]}
    /\ \/ /\ ~HasRow(l.job)
          /\ UNCHANGED <<phase, rows, stale>>
       \/ /\ HasRow(l.job)
          /\ RowOf(l.job).printer = "null"
          /\ phase' = "crashed"
          /\ UNCHANGED <<rows, stale>>
       \/ /\ HasRow(l.job)
          /\ RowOf(l.job).printer # "null"
          /\ rows' = [rows EXCEPT ![FirstOf(rows, l.job)] =
                          LoadAttributes(@, l.report)]
          /\ stale' = IF l.report.state = "unknown" THEN stale
                      ELSE IF l.overtaken THEN stale \union {l.job}
                      ELSE stale \ {l.job}
          /\ UNCHANGED phase
    /\ UNCHANGED <<server, bus, pending, printers, active, missed>>

\* Mutant: the request is not taken out of m_activeJobRequests.
OnJobLoadedKeeps(l) ==
    /\ Up
    /\ l.stage = "delivered"
    /\ loads' = loads \ {l}
    /\ UNCHANGED <<phase, server, bus, pending, printers, active, rows, stale,
                   missed>>

\* onJobLoaded, the second call: the request is over.
OnJobLoaded(l) ==
    /\ Up
    /\ l.stage = "delivered"
    /\ loads' = loads \ {l}
    /\ active' = active \ {l.job}
    /\ UNCHANGED <<phase, server, bus, pending, printers, rows, stale, missed>>

-----------------------------------------------------------------------------
(* JobModel's slots. *)

Delivered(s, signal) ==
    /\ Up
    /\ bus[s] # <<>>
    /\ signal = Head(bus[s])
    /\ bus' = [bus EXCEPT ![s] = Tail(@)]
    /\ UNCHANGED <<phase, server, printers, missed>>

\* Mutant: nothing is connected to the insertion of a row.
JobCreatedOnly(s, signal) ==
    /\ Delivered(s, signal)
    /\ signal.kind = "Created"
    /\ rows' = Append(rows, NewRow(signal.job, signal.report))
    /\ UNCHANGED <<pending, active, loads, stale>>

\* jobCreated: a row is appended, and its insertion runs jobAdded.
JobCreated(s, signal) ==
    /\ Delivered(s, signal)
    /\ signal.kind = "Created"
    /\ JobsAdded(Append(rows, NewRow(signal.job, signal.report)),
                 {signal.job}, printers)
    /\ UNCHANGED <<pending, stale>>

\* Mutant: jobState takes over the pages only.
JobStatePages(s, signal) ==
    /\ Delivered(s, signal)
    /\ signal.kind = "State"
    /\ rows' = IF HasRow(signal.job)
               THEN [rows EXCEPT ![FirstOf(rows, signal.job)].report.pages =
                                     signal.report.pages]
               ELSE rows
    /\ UNCHANGED <<pending, active, loads, stale>>

\* jobState: the row takes over what the signal says.
JobState(s, signal) ==
    /\ Delivered(s, signal)
    /\ signal.kind = "State"
    /\ \/ /\ HasRow(signal.job)
          /\ rows' = [rows EXCEPT ![FirstOf(rows, signal.job)].report =
                                      signal.report]
       \/ /\ ~HasRow(signal.job)
          /\ UNCHANGED rows
    /\ loads' = {IF l.job = signal.job /\ l.stage = "queued"
                 THEN [l EXCEPT !.overtaken = TRUE] ELSE l : l \in loads}
    /\ stale' = stale \ {signal.job}
    /\ UNCHANGED <<pending, active>>

\* Mutant: a job is not removed while a request for it is active.
JobCompletedUnlessActive(s, signal) ==
    /\ Delivered(s, signal)
    /\ signal.kind = "Completed"
    /\ rows' = IF HasRow(signal.job) /\ signal.job \notin active
               THEN RemoveAt(rows, FirstOf(rows, signal.job))
               ELSE rows
    /\ UNCHANGED <<pending, active, loads, stale>>

\* jobCompleted: the row is removed.
JobCompleted(s, signal) ==
    /\ Delivered(s, signal)
    /\ signal.kind = "Completed"
    /\ \/ /\ HasRow(signal.job)
          /\ rows' = RemoveAt(rows, FirstOf(rows, signal.job))
       \/ /\ ~HasRow(signal.job)
          /\ UNCHANGED rows
    /\ UNCHANGED <<pending, active, loads, stale>>

\* jobSignalPrinterModified for each printer of b: jobAdded for its pending
\* and processing jobs.
ForceJobRefresh(b) ==
    JobsAdded(rows,
              {rows[i].job : i \in {k \in DOMAIN rows :
                  /\ PrinterOf[rows[k].job] \in b
                  /\ rows[k].report.state \in {"pending", "processing"}}},
              printers)

PrinterSignalled(s, signal) ==
    /\ Delivered(s, signal)
    /\ signal.kind = "PrinterState"
    /\ \/ /\ Limiter!Keep(signal.printer)
          /\ UNCHANGED <<active, loads, rows>>
       \/ \E b \in SUBSET Printer :
              Limiter!KeepAndHandOn(signal.printer, b) /\ ForceJobRefresh(b)
    /\ UNCHANGED stale

LimiterEmits ==
    /\ Up
    /\ \E b \in SUBSET Printer : Limiter!HandOn(b) /\ ForceJobRefresh(b)
    /\ UNCHANGED <<phase, server, bus, printers, stale, missed>>

-----------------------------------------------------------------------------
(* PrinterModel's rows. *)

\* Printers::printerAdded: the jobs of the new row's printer that have none
\* get it.
PrinterListed(p) ==
    /\ Up
    /\ p \notin printers
    /\ printers' = printers \union {p}
    /\ JobsAdded(rows,
                 {rows[i].job : i \in {k \in DOMAIN rows :
                     /\ PrinterOf[rows[k].job] = p
                     /\ RowOf(rows[k].job).printer = "null"}},
                 {p})
    /\ UNCHANGED <<phase, server, bus, pending, stale, missed>>

\* The row is removed.  Its Printer lives on in the jobs that hold it.
PrinterUnlisted(p) ==
    /\ Up
    /\ p \in printers
    /\ printers' = printers \ {p}
    /\ rows' = [i \in DOMAIN rows |->
                   IF PrinterOf[rows[i].job] = p /\ rows[i].printer = "listed"
                   THEN [rows[i] EXCEPT !.printer = "gone"] ELSE rows[i]]
    /\ UNCHANGED <<phase, server, bus, pending, active, loads, stale, missed>>

-----------------------------------------------------------------------------
(* Printers' constructor, one call on the main thread. *)

\* The printers CUPS has then are listed, then the open jobs.  The jobs' pages
\* are left to the loads.
ListJobs ==
    /\ phase = "new"
    /\ phase' = "listed"
    /\ printers' \in SUBSET Printer
    /\ \E order \in SetToSeqs({j \in Jobs : StateOf(j) \in Open}) :
           rows' = [i \in DOMAIN order |->
               NewRow(order[i], [state |-> StateOf(order[i]), pages |-> 0])]
    /\ UNCHANGED <<server, bus, pending, active, loads, stale, missed>>

\* Mutant: to catch what was missed the jobs are listed again, and rows there
\* are not looked for.
SubscribeRelists ==
    /\ phase = "listed"
    /\ phase' \in {"running", "deaf"}
    /\ \E order \in SetToSeqs({j \in Jobs : StateOf(j) \in Open}) :
           JobsAdded(rows \o [i \in DOMAIN order |->
                         NewRow(order[i], server[order[i]].report)],
                     Jobs, printers)
    /\ UNCHANGED <<server, bus, pending, printers, stale, missed>>

\* Every job listed gets its printer and is loaded; the subscription is
\* created, or is not.
Subscribe ==
    /\ phase = "listed"
    /\ phase' \in {"running", "deaf"}
    /\ JobsAdded(rows, {rows[i].job : i \in DOMAIN rows}, printers)
    /\ UNCHANGED <<server, bus, pending, printers, stale, missed>>

-----------------------------------------------------------------------------
Server(j) ==
    \/ ServerCreates(j)
    \/ ServerMoves(j)
    \/ ServerCompletes(j)
    \/ ServerPrintsPage(j)

LoadStep(l) == LoaderReads(l) \/ UpdateJob(l) \/ OnJobLoaded(l)

Deliver(s) ==
    bus[s] # <<>> /\
    LET signal == Head(bus[s]) IN
    \/ JobCreated(s, signal)
    \/ JobState(s, signal)
    \/ JobCompleted(s, signal)
    \/ PrinterSignalled(s, signal)

Next ==
    \/ ListJobs
    \/ Subscribe
    \/ \E j \in Jobs : Server(j)
    \/ \E l \in loads : LoadStep(l)
    \/ \E s \in Subscriptions : Deliver(s)
    \/ LimiterEmits
    \/ \E p \in Printer : PrinterListed(p) \/ PrinterUnlisted(p)

\* As in PrinterSync: threads run and the event loop serves every source.
Fairness ==
    /\ WF_vars(ListJobs)
    /\ WF_vars(Subscribe)
    /\ \A j \in Job : WF_vars(\E l \in LoadsOf(j) : LoadStep(l))
    /\ \A s \in Subscription : WF_vars(s \in Subscriptions /\ Deliver(s))
    /\ WF_vars(LimiterEmits)

Spec == Init /\ [][Next]_vars /\ Fairness
-----------------------------------------------------------------------------
(* Properties. *)

(***************************************************************************)
(* A job is listed once for each subscription that signals it, so once if  *)
(* there are no others; jobs come from the listing at start-up and from    *)
(* JobCreated signals, and jobCreated looks for no row before it adds one. *)
(***************************************************************************)
ListedOnce ==
    \A j \in Jobs :
        Cardinality({i \in DOMAIN rows : rows[i].job = j})
            <= Cardinality(Subscriptions)

(***************************************************************************)
(* m_activeJobRequests holds exactly the jobs with a loader at work or a   *)
(* call of it queued, one for each.                                        *)
(***************************************************************************)
OneLoad ==
    /\ \A j \in active : \E l \in loads : l.job = j
    /\ \A l \in loads : l.job \in active
    /\ \A l, m \in loads : l.job = m.job => l = m

(***************************************************************************)
(* Every job of a listed printer has a printer, whichever of the two came  *)
(* first: jobCreated's comment has it that inserting the row sets it.      *)
(***************************************************************************)
JobsHavePrinters ==
    \A i \in DOMAIN rows :
        phase \in {"running", "deaf"} /\ PrinterOf[rows[i].job] \in printers
            => rows[i].printer # "null"

(***************************************************************************)
(* With no subscription but the own, jobs have their printers and a loaded *)
(* job finds one in its row: loadAttributes uses m_printer without a test, *)
(* and the row may be another than the one the load was requested for.     *)
(***************************************************************************)
FoundAlone ==
    Subscriptions = {Own} => JobsHavePrinters /\ phase # "crashed"

\* A signal of a change of j's state is on its way.
Announced(j) ==
    \E s \in Subscriptions : \E i \in DOMAIN bus[s] :
        bus[s][i].kind # "PrinterState" /\ bus[s][i].job = j

(***************************************************************************)
(* The state a job's row shows is the one CUPS has or a signal of the      *)
(* change is on its way - unless the change came between the listing and   *)
(* the subscription, or a load that read the job before a signal was       *)
(* applied after it, which the code does not prevent.                      *)
(***************************************************************************)
StateCurrent ==
    \A j \in Jobs \ (stale \union missed) :
        phase = "running" /\ HasRow(j)
            => RowOf(j).report.state = StateOf(j) \/ Announced(j)

(***************************************************************************)
(* When no signal of a job is on its way it is listed just when CUPS has   *)
(* it open, however many times its creation and completion were signalled  *)
(* and in whatever order the signals of two subscriptions came.            *)
(***************************************************************************)
ListedWhileOpen ==
    \A j \in Jobs \ missed :
        phase = "running" /\ ~Announced(j)
            => (HasRow(j) <=> StateOf(j) \in Open)

(***************************************************************************)
(* A job CUPS has done with leaves the list some time.                     *)
(***************************************************************************)
DoneJobsGo ==
    \A j \in Job :
        phase = "running" /\ j \in Jobs \ missed /\ StateOf(j) = "done"
            ~> ~HasRow(j) \/ phase = "crashed"

(***************************************************************************)
(* Once CUPS stops changing, everything comes to rest: every request ends, *)
(* failed reads and jobs that are gone included, no refresh forces         *)
(* another, and none waits for ever on one that was dropped.               *)
(***************************************************************************)
Settles ==
    <>[](/\ active = {}
         /\ pending = {}
         /\ \A s \in Subscriptions : bus[s] = <<>>) \/ <>(phase = "crashed")
=============================================================================
