------------------------------ MODULE PrintQueue ------------------------------
(***************************************************************************)
(* The jobs of PrintJob in CUPS' queue and their rows in JobModel: a row   *)
(* is told of by JobCreated, gets its printer at once and its options when *)
(* its attributes are read (PrinterJob::loadAttributes), as places in the  *)
(* lists its printer has then.  The JobFilters of the active, the paused   *)
(* and the queued jobs, ordered by creation time, and the one each Printer *)
(* has of its own jobs show the rows.                                      *)
(*                                                                         *)
(* Printers are listed all the time, and a load of attributes is one step: *)
(* JobSync has their comings, goings and interleavings.                    *)
(***************************************************************************)
EXTENDS PrintJob

CONSTANT
    BlankIsTrue     \* what CUPS makes of landscape, which makeDest gives no value

ASSUME BlankAssumption == BlankIsTrue \in BOOLEAN

VARIABLES
    state,          \* CUPS: the state of each job
    created,        \* CUPS: when each job was created, in seconds
    told,           \* CUPS: the jobs JobCreated has told of
    rows,           \* JobModel's m_jobs
    view,           \* the rows each filter shows, by their jobs
    count           \* the count each filter has announced last

queueVars == <<state, created, told, rows, view, count>>
vars == <<jobVars, queueVars>>

Job == DOMAIN jobs
Shows == [active |-> "Processing", paused |-> "Held", queued |-> "Pending"]
Filter == DOMAIN Shows \cup Printer
States == {"Pending", "Held", "Processing", "Completed"}

-----------------------------------------------------------------------------
(* The filters *)

HasRow(list, id) == \E i \in DOMAIN list: list[i].id = id
RowOf(list, id) == list[CHOOSE i \in DOMAIN list: list[i].id = id]

\* JobFilter::filterAcceptsRow
FilterAcceptsRow(filter, row) ==
    IF filter \in Printer THEN row.printer = filter
    ELSE row.state = Shows[filter]

\* JobFilter::lessThan.  A time that is not known is before all others.
LessThan(a, b) == a.time < b.time \/ (a.time = b.time /\ a.id < b.id)

\* A Printer's filter is not sorted and keeps JobModel's order.
Before(filter, a, b) ==
    IF filter \in Printer THEN a.id < b.id ELSE LessThan(a, b)

\* What a filter shows after a row came, went or changed: that row finds its
\* place anew, the others keep theirs.
Shown(filter, list, id) ==
    LET others == RemoveFirst(view[filter], id)
        row == RowOf(list, id)
        before == SelectLastInSeq(others, LAMBDA other:
                      Before(filter, RowOf(list, other), row))
    IN  IF HasRow(list, id) /\ FilterAcceptsRow(filter, row)
        THEN InsertAt(others, before + 1, id)
        ELSE others

\* Mutant: the filters are not told.
RowChangesSilently(list, id) ==
    /\ rows' = list
    /\ view' = IF HasRow(rows, id) /\ HasRow(list, id) THEN view
               ELSE [filter \in Filter |-> Shown(filter, list, id)]

\* dataChanged, rowsInserted and rowsRemoved of one row of JobModel.
RowChanges(list, id) ==
    /\ rows' = list
    /\ view' = [filter \in Filter |-> Shown(filter, list, id)]

\* Mutant: the count is announced when a job comes, not when it goes.
CountAnnouncedLate ==
    count' = [filter \in Filter |-> IF Len(view'[filter]) > Len(view[filter])
                                    THEN Len(view'[filter]) ELSE count[filter]]

\* JobModel::countChanged, which onSourceModelChanged connects to each
\* filter's own.
CountChanged == count' = [filter \in Filter |-> Len(view'[filter])]

-----------------------------------------------------------------------------
(* CUPS *)

\* A job that is taken is pending; two may be created in one second.
Taken ==
    IF Len(jobs') = Len(jobs) THEN UNCHANGED <<state, created>>
    ELSE /\ state' = Append(state, "Pending")
         /\ LET last == IF created = <<>> THEN 1 ELSE Last(created)
            IN  \E time \in {last, last + 1}: created' = Append(created, time)

\* Printers::holdJob and releaseJob: CUPS holds what is pending and releases
\* what is held, and refuses the rest.
HoldJob(id) ==
    /\ state[id] = "Pending"
    /\ state' = [state EXCEPT ![id] = "Held"]

ReleaseJob(id) ==
    /\ state[id] = "Held"
    /\ state' = [state EXCEPT ![id] = "Pending"]

CancelJob(id) ==
    /\ state[id] # "Completed"
    /\ state' = [state EXCEPT ![id] = "Completed"]

Processes(id) ==
    /\ state[id] = "Pending"
    /\ state' = [state EXCEPT ![id] = "Processing"]

Completes(id) ==
    /\ state[id] = "Processing"
    /\ state' = [state EXCEPT ![id] = "Completed"]

JobMoves(id) ==
    /\ world.moves
    /\ HoldJob(id) \/ ReleaseJob(id) \/ CancelJob(id) \/ Processes(id) \/ Completes(id)
    /\ UNCHANGED <<jobVars, created, told, rows, view, count>>

-----------------------------------------------------------------------------
(* JobModel and its rows *)

\* The job of JobCreated, whose printer rowsInserted makes Printers set: it has
\* the printer's copies, and landscape as the constructor finds it.
NewRow(id, landscape) ==
    [id |-> id, printer |-> jobs[id].printer, color |-> 0, quality |-> 0,
     duplex |-> 0, twoSided |-> FALSE, copies |-> printer[jobs[id].printer].copies,
     landscape |-> landscape, ranges |-> 0, state |-> "Pending", time |-> 0,
     known |-> FALSE, moved |-> FALSE, shrunk |-> FALSE]

JobCreated ==
    /\ world.queue
    /\ told < Len(jobs)
    /\ told' = told + 1
    /\ \E landscape \in world.garbage:
          RowChanges(Append(rows, NewRow(told + 1, landscape)), told + 1)
    /\ CountChanged
    /\ UNCHANGED <<jobVars, state, created>>

Replaced(row) == [i \in DOMAIN rows |-> IF rows[i].id = row.id THEN row
                                        ELSE rows[i]]

JobState(id) ==
    /\ HasRow(rows, id)
    /\ state[id] # "Completed"
    /\ RowChanges(Replaced([RowOf(rows, id) EXCEPT !.state = state[id]]), id)
    /\ UNCHANGED <<jobVars, state, created, told, count>>

JobCompleted(id) ==
    /\ HasRow(rows, id)
    /\ state[id] = "Completed"
    /\ RowChanges(RemoveFirstMatch(rows, LAMBDA row: row.id = id), id)
    /\ CountChanged
    /\ UNCHANGED <<jobVars, state, created, told>>

PpdChoiceToDuplexMode(choice) ==
    IF choice = "DuplexTumble" THEN "short"
    ELSE IF choice = "DuplexNoTumble" THEN "long" ELSE "none"

\* Of the known options for the quality the last one the job has counts.
QualityRead(quality) ==
    LET has == {i \in DOMAIN QualityOptions:
                  quality[QualityOptions[i]] # NoQuality}
    IN  IF has = {} THEN NoQuality.name
        ELSE quality[QualityOptions[CHOOSE i \in has:
                                      \A j \in has: j <= i]].name

\* getAttributeValue makes a list of several values only, and a range that is
\* no list is passed over.
RangesRead(ranges) == IF ranges > 1 THEN ranges ELSE 0

\* IppClient::printerGetJobAttributes: what is read, or nothing if CUPS does
\* not answer or the lock is not to be had within five seconds.
Answer(id, fails) ==
    IF fails THEN {}
    ELSE {[color |-> jobs[id].color, duplex |-> jobs[id].duplex,
           quality |-> jobs[id].quality, copies |-> jobs[id].copies,
           landscape |-> jobs[id].landscape /\ BlankIsTrue,
           ranges |-> RangesRead(jobs[id].ranges), time |-> created[id]]}

\* printerGetJobAttributes of the backend: what is missing gets a default.
Attributes(answer) ==
    IF answer = {}
    THEN [color |-> "", duplex |-> "", quality |-> "", copies |-> 1,
          landscape |-> FALSE, ranges |-> 0, time |-> 0]
    ELSE LET read == CHOOSE read \in answer: TRUE
         IN  [color |-> read.color, duplex |-> read.duplex,
              quality |-> QualityRead(read.quality),
              copies |-> read.copies, landscape |-> read.landscape,
              ranges |-> read.ranges, time |-> read.time]

\* The loops of loadAttributes: the last place that fits, or the old one.
PlaceOf(list, Fits(_), old) ==
    LET places == {i \in DOMAIN list: Fits(list[i])}
    IN  IF places = {} THEN old
        ELSE (CHOOSE i \in places: \A j \in places: j <= i) - 1

\* Mutant: two-sided is not set with the duplex mode.
LoadAttributesOneSided(row, attributes) ==
    LET p == printer[row.printer]
        mode == PpdChoiceToDuplexMode(attributes.duplex)
    IN  [row EXCEPT
           !.color = PlaceOf(p.colors, LAMBDA c: c = attributes.color, @),
           !.duplex = PlaceOf(p.modes, LAMBDA m: m = mode, @),
           !.quality = PlaceOf(p.qualities,
                               LAMBDA q: q.name = attributes.quality, @),
           !.copies = attributes.copies,
           !.landscape = attributes.landscape,
           !.ranges = attributes.ranges,
           !.time = attributes.time]

\* loadAttributes
LoadAttributes(row, attributes) ==
    LET p == printer[row.printer]
        mode == PpdChoiceToDuplexMode(attributes.duplex)
    IN  [row EXCEPT
           !.color = PlaceOf(p.colors, LAMBDA c: c = attributes.color, @),
           !.duplex = PlaceOf(p.modes, LAMBDA m: m = mode, @),
           !.twoSided = IF mode \in Range(p.modes) THEN mode # "none" ELSE @,
           !.quality = PlaceOf(p.qualities,
                               LAMBDA q: q.name = attributes.quality, @),
           !.copies = attributes.copies,
           !.landscape = attributes.landscape,
           !.ranges = attributes.ranges,
           !.time = attributes.time]

\* updateJob, with what a JobLoader has read.
UpdateJob(id, fails) ==
    /\ HasRow(rows, id)
    /\ LET row == LoadAttributes(RowOf(rows, id), Attributes(Answer(id, fails)))
       IN  RowChanges(
             Replaced([row EXCEPT !.state = IF fails THEN @ ELSE state[id],
                                  !.known = ~fails, !.moved = FALSE]), id)
    /\ UNCHANGED <<jobVars, state, created, told, count>>

\* The places JobModel::data looks up for the roles of a row.
DataInRange(row) ==
    LET p == printer[row.printer]
    IN  /\ row.color \in 0..Len(p.colors) - 1
        /\ row.quality \in 0..Len(p.qualities) - 1
        /\ row.duplex \in 0..Len(p.modes) - 1

\* What becomes of the rows' places when a printer gets new lists (history).
PrinterLoaded(p, fails) ==
    /\ Load(p, fails)
    /\ rows' = [i \in DOMAIN rows |->
                  IF rows[i].printer # p \/ SameLists(printer[p], printer'[p])
                  THEN rows[i]
                  ELSE [rows[i] EXCEPT
                          !.moved = TRUE,
                          !.shrunk = @ \/ \E f \in Fields:
                             Len(printer'[p][f]) < Len(printer[p][f])]]
    /\ UNCHANGED <<state, created, told, view, count>>

-----------------------------------------------------------------------------
Chooses ==
    /\ \/ \E p \in Printer: SetPrinter(p)
       \/ SetColorModel \/ SetQuality \/ SetDuplexMode
       \/ \E landscape \in BOOLEAN: SetLandscape(landscape)
       \/ \E ranges \in Ranges: SetPrintRange(ranges)
       \/ \E copies \in Copies: SetCopies(copies)
       \/ \E landscape \in BOOLEAN: CreateJob(landscape)
    /\ UNCHANGED queueVars

Prints ==
    /\ \E takes \in BOOLEAN:
          \/ PrintFile(takes)
          \/ \E p \in Printer, landscape \in BOOLEAN:
                PrintTestPage(p, landscape, takes)
    /\ Taken
    /\ UNCHANGED <<told, rows, view, count>>

Administers ==
    /\ \E p \in Printer:
          \/ \E s \in Settings[p]: Administer(p, s)
          \/ SetData(p)
    /\ UNCHANGED queueVars

Init ==
    /\ JobInit
    /\ state = <<>> /\ created = <<>> /\ told = 0
    /\ rows = <<>>
    /\ view = [filter \in Filter |-> <<>>]
    /\ count = [filter \in Filter |-> 0]

Next ==
    \/ Chooses
    \/ Prints
    \/ Administers
    \/ \E p \in Printer, fails \in world.fails: PrinterLoaded(p, fails)
    \/ JobCreated
    \/ \E id \in Job:
          \/ JobMoves(id)
          \/ JobState(id)
          \/ JobCompleted(id)
          \/ \E fails \in world.fails: UpdateJob(id, fails)

Spec == Init /\ [][Next]_vars

-----------------------------------------------------------------------------
Row == [id: Nat, printer: Printer, color: Int, quality: Int, duplex: Int,
        twoSided: BOOLEAN, copies: Copies, landscape: BOOLEAN, ranges: Ranges,
        state: States, time: Nat, known: BOOLEAN, moved: BOOLEAN, shrunk: BOOLEAN]

TypeOK ==
    /\ JobTypeOK
    /\ state \in Seq(States) /\ Len(state) = Len(jobs)
    /\ created \in Seq(Nat) /\ Len(created) = Len(jobs)
    /\ told \in 0..Len(jobs)
    /\ rows \in Seq(Row)
    /\ view \in [Filter -> Seq(Nat)]
    /\ count \in [Filter -> Nat]

\* A job goes to the printer with what the user chose or was shown as the
\* default, as long as the printer's lists were not replaced under it and it was
\* not given another printer once it had been printed; what an earlier job left
\* in the destination comes on top of that, and only if there was one
\* (printerjob.cpp:106-131, 218-224, backend_cups.cpp:347-385).
PrintsAsMeant ==
    [][\A p \in Printer, takes \in BOOLEAN:
         PrintFile(takes) /\ job.printer = p /\ Len(jobs') > Len(jobs) /\ ~moved
         => LET sent == Last(jobs')
            IN  /\ sent.color = meant.color
                /\ PpdChoiceToDuplexMode(sent.duplex) = meant.duplex
                /\ sent.copies = meant.copies
                /\ meant.quality # NoQuality
                      => sent.quality[meant.quality.option] = meant.quality
                /\ ~used[p] =>
                     /\ sent.landscape \in meant.landscape
                     /\ sent.ranges = meant.ranges
                     /\ \A o \in Option \ {meant.quality.option}:
                           sent.quality[o] = NoQuality]_vars

\* Whether the job says it is two-sided as the mode it would be printed with is.
SidesAgree == job.twoSided <=> ModeOf(job) # "none"

\* It does at first, and a step that sets the mode brings the two together.
\* They come apart only when a load replaces the modes of the job's printer, of
\* which the job is not told, or when a job that was printed is given another
\* printer, for which it keeps its place (printerjob.cpp:218-224, 341-360).
TwoSidedAgrees ==
    [][SidesAgree \/ job'.duplex # job.duplex =>
         \/ SidesAgree'
         \/ \E p \in Printer: /\ job.printer = p
                              /\ printer'[p].modes # printer[p].modes
         \/ job.jobId > 0 /\ job'.printer # job.printer]_vars

\* The lists of the row's printer may lack what the job asks for, which is then
\* shown as something else they have.
ShowsChosen(row) ==
    LET sent == jobs[row.id]
        mode == PpdChoiceToDuplexMode(sent.duplex)
        p == printer[row.printer]
        qualities == {sent.quality[o]: o \in Option} \ {NoQuality}
        names == IF qualities = {} THEN {NoQuality.name}
                 ELSE {q.name: q \in qualities}
    IN  /\ sent.color \in Range(p.colors) => ColorOf(row) = sent.color
        /\ mode \in Range(p.modes) =>
              ModeOf(row) = mode /\ (row.twoSided <=> mode # "none")
        /\ names \subseteq {q.name: q \in Range(p.qualities)}
              => QualityOf(row).name \in names

\* A single range is shown as all pages.
ShowsSent(row) ==
    LET sent == jobs[row.id]
    IN  /\ row.copies = sent.copies
        /\ row.landscape <=> sent.landscape /\ BlankIsTrue
        /\ row.ranges = IF sent.ranges = 1 THEN 0 ELSE sent.ranges
        /\ ~row.moved => ShowsChosen(row)

\* Once its attributes were read a row shows the copies, the orientation and the
\* page ranges CUPS was given for the job, but all pages for a single range.
\* The colour model, the mode and a name of the qualities it was given, one of
\* which an earlier job may have left, it shows as long as its printer has the
\* lists they were read with, if these have them (printerjob.cpp:148-209,
\* backend_cups.cpp:444-571, ippclient.cpp:1060-1070).
QueueShowsSent ==
    \A i \in DOMAIN rows: rows[i].known => ShowsSent(rows[i])

\* JobModel::data takes the names of a job's options from its printer's lists
\* without looking at their length: the places are in range once the printer
\* is loaded, unless a list became shorter (jobmodel.cpp:245-303).
RolesInRange ==
    \A i \in DOMAIN rows:
      printer[rows[i].printer].loaded /\ ~rows[i].shrunk => DataInRange(rows[i])

\* Each filter shows the rows it accepts and no other, each once and in its
\* order, after any sequence of signals and reads (jobmodel.cpp:90-205,
\* 463-531).
FiltersExact ==
    \A filter \in Filter:
      LET shown == view[filter]
      IN  /\ Range(shown) = {rows[i].id: i \in {k \in DOMAIN rows:
                                   FilterAcceptsRow(filter, rows[k])}}
          /\ \A i, j \in DOMAIN shown: i < j =>
                Before(filter, RowOf(rows, shown[i]), RowOf(rows, shown[j]))

\* The count a Printer's own filter announced is the number of its jobs; the
\* filters of a state announce theirs only when jobs come or go
\* (jobmodel.cpp:419-427).
CountsAnnounced == \A p \in Printer: count[p] = Len(view[p])
===============================================================================
