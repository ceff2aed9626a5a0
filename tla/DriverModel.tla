----------------------------- MODULE DriverModel ----------------------------
(***************************************************************************)
(* The drivers a printer can be added with (models/drivermodel.cpp): the   *)
(* list a PrinterDriverLoader reads from CUPS in a thread of its own, and  *)
(* the part of it that matches a filter, which QtConcurrent computes in    *)
(* other threads and QFutureWatcher reports to the main thread.            *)
(*                                                                         *)
(* A pattern is split into words that a driver's make and model must all   *)
(* contain.  Of that only two things matter here: which drivers a pattern  *)
(* matches, and that what matches a pattern matches what it is a           *)
(* continuation of, as its last word got longer or words were added.       *)
(***************************************************************************)
EXTENDS Naturals, FiniteSets

CONSTANTS
    Driver,         \* printer drivers
    Catalogues,     \* the sets of drivers CUPS may answer with
    Pattern,        \* filters that are not empty
    NoFilter,       \* the empty filter
    Matched,        \* Matched[p]: the drivers whose make and model fits p
    Continues,      \* pairs <<p, q>>: q starts with p
    MaxLoads,       \* bound: loads under way at a time
    MaxTyped        \* bound: calls of setFilter

ASSUME DriverAssumption ==
    /\ Catalogues \subseteq SUBSET Driver
    /\ NoFilter \notin Pattern
    /\ Matched \in [Pattern -> SUBSET Driver]
    /\ Continues \subseteq Pattern \X Pattern
    /\ \A p, q \in Pattern :
           <<p, q>> \in Continues => Matched[q] \subseteq Matched[p]
    /\ MaxLoads \in Nat /\ MaxTyped \in Nat

VARIABLES
    original,       \* m_originalDrivers
    drivers,        \* m_drivers, what is shown
    filter,         \* m_filter
    search,         \* the future of m_watcher
    loaders,        \* how many loads are under way
    begun,          \* filterBegin was emitted and no filterComplete since
    reloaded,       \* history: a load came since the filter was set
    overtaken,      \* history: a search under way met a load or an empty filter
                    \* and replaces what they showed, or the drivers that the
                    \* last search took for the results of one were not
    typed           \* how many times setFilter was called

driverVars == <<original, drivers, filter, search, loaders, begun, reloaded,
                overtaken, typed>>

Future == [step: {"none", "running", "finished"}, results: SUBSET Driver,
           canceled: BOOLEAN]
NoFuture == [step |-> "none", results |-> {}, canceled |-> FALSE]

DriverTypeOK ==
    /\ original \in SUBSET Driver
    /\ drivers \in SUBSET Driver
    /\ filter \in Pattern \cup {NoFilter}
    /\ search \in Future
    /\ loaders \in 0..MaxLoads
    /\ begun \in BOOLEAN
    /\ reloaded \in BOOLEAN /\ overtaken \in BOOLEAN
    /\ typed \in 0..MaxTyped

DriverInit ==
    /\ original = {} /\ drivers = {}
    /\ filter = NoFilter
    /\ search = NoFuture
    /\ loaders = 0
    /\ begun = FALSE
    /\ reloaded = FALSE /\ overtaken = FALSE
    /\ typed = 0

\* The drivers of a list that fit a filter.
Filtered(list, p) == IF p = NoFilter THEN list ELSE list \cap Matched[p]

Searching == search.step # "none"

-----------------------------------------------------------------------------
\* setModel()
SetModel(list) ==
    /\ drivers' = list
    /\ begun' = FALSE

\* Mutant: the smaller list is searched whatever the last filter was.
SearchedAlways(p) == IF drivers # {} THEN drivers ELSE original

\* The drivers are taken for what fits the filter, of which p is more.
Narrows(p) == filter # NoFilter /\ drivers # {} /\ <<filter, p>> \in Continues

\* The list a pattern is looked for in.
Searched(p) == IF Narrows(p) THEN drivers ELSE original

\* m_watcher.cancel(), if the future is running.
Canceled == [search EXCEPT !.canceled = @ \/ search.step = "running"]

\* Mutant: the future is not watched.
SetFutureUnwatched(p) == search' = NoFuture

\* A new future replaces the one that was watched, and what that had posted.
SetFuture(p) ==
    search' = [step |-> "running", results |-> Filtered(Searched(p), p),
               canceled |-> FALSE]

\* setFilter() with an empty pattern.  A future that was canceled, or that
\* has finished and is yet to be taken notice of, is still watched.
ClearFilter ==
    /\ SetModel(original)
    /\ filter' = NoFilter
    /\ search' = Canceled
    /\ reloaded' = FALSE
    /\ overtaken' = Searching

\* setFilter() with any other.
SetPattern(p) ==
    /\ SetFuture(p)
    /\ filter' = p
    /\ begun' = TRUE
    /\ reloaded' = FALSE
    /\ overtaken' = (Narrows(p) /\ (overtaken \/ Searching))
    /\ UNCHANGED drivers

SetFilter ==
    /\ typed < MaxTyped
    /\ typed' = typed + 1
    /\ ClearFilter \/ \E p \in Pattern : SetPattern(p)
    /\ UNCHANGED <<original, loaders>>

\* The threads of QtConcurrent are through.
SearchDone ==
    /\ search.step = "running"
    /\ search' = [search EXCEPT !.step = "finished"]
    /\ UNCHANGED <<original, drivers, filter, loaders, begun, reloaded,
                   overtaken, typed>>

\* filterFinished().  The results of a future that was canceled are none.
FilterFinished ==
    /\ search.step = "finished"
    /\ search' = NoFuture
    /\ SetModel(IF search.canceled THEN {} ELSE search.results)

SearchReported ==
    /\ FilterFinished
    /\ UNCHANGED <<original, filter, loaders, reloaded, overtaken, typed>>

-----------------------------------------------------------------------------
\* Printers::prepareToAddPrinter() and load().
PrepareToAddPrinter ==
    /\ IF drivers = {}
       THEN loaders < MaxLoads /\ loaders' = loaders + 1
       ELSE UNCHANGED loaders
    /\ UNCHANGED <<original, drivers, filter, search, begun, reloaded, overtaken,
                   typed>>

\* printerDriversLoaded(), which shows them all, whatever the filter.
PrinterDriversLoaded(list) ==
    /\ original' = list
    /\ SetModel(list)
    /\ reloaded' = TRUE
    /\ overtaken' = Searching

\* A loader is through: it has the drivers or, when CUPS refuses, an error
\* that nothing is connected to.
LoaderDone ==
    /\ loaders > 0
    /\ loaders' = loaders - 1
    /\ \/ \E list \in Catalogues : PrinterDriversLoaded(list)
       \/ UNCHANGED <<original, drivers, begun, reloaded, overtaken>>
    /\ UNCHANGED <<filter, search, typed>>

DriverBackground == SearchDone \/ SearchReported \/ LoaderDone

-----------------------------------------------------------------------------
\* When no search is under way, what is shown is what fits the filter, also
\* when the user went on typing and setFilter searched the smaller list
\* (drivermodel.cpp:115).  Once a load has come since the filter was set, and
\* prepareToAddPrinter asks for one whenever nothing fits, it is every driver
\* there is, though the filter is still set (drivermodel.cpp:162-166).
\* Excepted is what `overtaken` names: a load or an empty filter came while a
\* search was under way, whose results then replace theirs; or the smaller list
\* was searched while it was not what fits the filter, as its search had not
\* ended or was itself excepted.  A search of the whole list, and a load or an
\* empty filter at rest, set that right.
FilterShown ==
    ~Searching /\ ~overtaken
        => drivers = IF reloaded THEN original ELSE Filtered(original, filter)

\* A search in the smaller list finds what a search in the whole one would
\* (drivermodel.cpp:117), whatever has gone before.
SmallerListSuffices ==
    [][typed' # typed /\ filter' # NoFilter
         => search'.results = Filtered(original, filter')]_driverVars

\* Each filterBegin is followed by a filterComplete, however calls overlap:
\* what a user interface shows in between does not stay for ever.
FilterCompletes == begun ~> ~begun
=============================================================================
