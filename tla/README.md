# A TLA+ verification of ubuntu-ui-extras

`ubuntu-ui-extras` is a set of QML components with C++ behind them: a library
for printers (`Printers/`, over CUPS), a photo editor (`PhotoEditor.qml`,
`plugin/photoeditor/`), a bar of tabs (`TabsBar.qml`) and examples. All paths
below are relative to `src/modules/Ubuntu/Components/Extras/`.

The components keep state that several actors change: the main thread's event
loop, loader and edit threads, CUPS and its other clients, D-Bus signals, the
user and the host application. The modules here model that; `PROJECT.json` maps
each definition to the lines it models and lists hazards, runs, mutants,
findings and theorems.

Contents: [1 inventory](#1-inventory), [2 plan](#2-plan),
[3 modules](#3-modules), [4 runs](#4-runs-bounds-and-what-they-show),
[5 fairness](#5-fairness), [6 findings](#6-findings), [7 proofs](#7-proofs),
[8 limits](#8-what-is-not-modelled).

## 1 Inventory

### Printers

| part | state | operations | who else changes it |
|---|---|---|---|
| `SignalRateLimiter` | names pending, time of the oldest, a timer | two slots, timeout | the wall clock |
| `PrinterModel` | `m_printers`, rows that are proxies or loaded | printerAdded, printerModified, printerDeleted, printerLoaded | CUPS signals, `PrinterLoader` threads |
| `PrinterCupsBackend` | `m_activePrinterRequests`, `m_activeJobRequests`, open destinations and PPDs | request..., on...Loaded, one call per IPP request | loaders use it from their threads |
| `PrinterLoader`, `JobLoader` | one thread each | load | CUPS |
| `JobModel` | `m_jobs` | jobCreated, jobState, jobCompleted, forceJobRefresh, updateJob | CUPS signals, loaders, rows of `PrinterModel` |
| `Printers` | the models, the subscription | constructor, jobAdded, printerAdded, loadPrinter, addPrinter, removePrinter, provisionPrinter, default printer | signals of the models |
| `IppClient` | `m_internalStatus`, a connection | a function per IPP request | CUPS, its other clients |
| `Printer` | what a row shows | load, deepCompare, updateFrom, setters | `PrinterModel` replaces what it holds |
| `PrinterJob` | options of a print, as indices into its printer's lists | setters, loadAttributes, loadDefaults, printFile | the printer being replaced or removed |
| `DriverModel` | all drivers, those shown, the filter, a future and its watcher | prepareToAddPrinter, load, setFilter, filterFinished | `PrinterDriverLoader`, QtConcurrent |
| `DeviceModel` | devices found, whether it searches | load, deviceLoaded, deviceSearchFinished | `DeviceSearcher` |
| `JobFilter`, `PrinterFilter` | sort keys, a filter, the rows it shows | sort, accept, count | source models |
| `PrinterPdfBackend`, `PrinterBackend` | none | defaults, write a file | - |

How they interact: CUPS announces changes over D-Bus. `PrinterModel` and
`JobModel` put what concerns a printer through a `SignalRateLimiter` and ask
the backend to load it again; a request starts a thread, or is dropped if one
for that name or job is active. The thread reads CUPS in several calls and its
result is queued for the main thread: once for the model and once for the
backend, which then forgets the request. Jobs need a `Printer`, which
`Printers` finds them when a row of either model is inserted. What the user
sets goes to CUPS in synchronous requests, of one `IppClient`.

Correct means: each printer and job is listed once, and while CUPS has it; one
load at a time; what is shown is what CUPS says or news of it is on its way;
nothing goes back to what it was before; everything comes to rest; a printer
added works, and a failure is reported as one; a job is printed with what was
chosen, and what the queue shows of it is what was printed.

### Photo editor

| part | state | operations | who else changes it |
|---|---|---|---|
| `EditStack.qml` | session directory, `items`, `level`, reverted, pristine file | startEditingSession, endEditingSession, checkpoint, undo, redo, revertToPristine | the file system |
| `PhotoData`, `PhotoEditThread` | `m_busy`, the thread, the file | asyncEdit, run, finishEditing, refreshFromDisk | the thread writes the file being shown |
| `PhotoEditor.qml`, `ActionsBar`, `ExposureAdjuster`, cropper | which tool is open, opacities | open, close, the tools' signals | the host application |
| `PhotoCaches` | `.original` and `.enhanced` copies | cache, restore, overwrite, discard | nobody: nothing calls it |
| `Orientation`, `Imaging`, `PhotoMetadata`, `PhotoImageProvider` | none to speak of | pure functions of pictures and metadata | - |
| `CropInteractor`, `CropOverlay`, `GraphicsRoutines` | the frame, pan and zoom, an animation | resizeFrame, updatePan, the crop it asks for | the animation moves what is dragged |

Correct means: what is shown and saved is the version the undo stack says; the
very first original is not lost by saving, over any number of sessions; an
edit that starts ends; closing at any moment harms nothing; what is cropped is
what was framed, and a turn to the right turns what is shown to the right.

### Tabs, examples, the rest

`TabsBar` shows a model of tabs and drags them between windows (`DragHelper`
runs a nested event loop); the model itself is not in the repository.
`Example/Printers.qml` shows in which order an application calls the library.
`plugin.cpp`, `i18n.cpp` and `components.cpp` register things once.

## 2 Plan

In order of importance. Built:

1. **`Coalescer`, `SignalRateLimiter`** - the debounce everything is loaded
   through, as an abstract promise and its implementation.
2. **`PrinterSync`**, **`JobSync`** - the two lists and their loads, over
   `Coalescer`.
3. **`EditHistory`, `EditSession`** - the undo stack with its files, thread,
   tools, host, crashes and a full disk, over an abstract history.
4. **`DriverModel`, `DeviceModel`, composed in `AddPrinter`**.
5. **`PrinterAdmin`** - adding, removing and setting printers.
6. **`PrintJob`, composed in `PrintQueue`** - options as indices into lists that
   are replaced under them, the destination `makeDest` keeps, reading a job's
   options back, and the filters of the queue.
7. **`Orientation`, `CropOverlay`, composed in `PhotoCrop`** - the eight
   orientations as matrices, the frame's drags and animation, and what a crop
   and a turn do to what is shown.

Left, in order:

8. `EditSession` with a second photo, whose session an edit of the first may
   save into.
9. Composition of `PrinterSync` and `JobSync`: the rows of one are a set in the
   other.
10. `PrinterFilter`, which sorts like `JobFilter`.

Theorems left: none of a property a passing run checks, but for liveness (see
[7](#7-proofs)). With each of the modules above come the theorems about it: for
9, that a job's printer is one `PrinterModel` lists.

## 3 Modules

Each `MCx` module gives `x` the values TLC checks it with, each `xProofs` holds
its theorems. Definitions headed `Mutant:` are variants with a plausible bug:
each property is broken by one, which shows it says something of the code.

### Coalescer and SignalRateLimiter

`Coalescer`: names go in one at a time (`Keep`, `KeepAndHandOn`) and come out in
batches (`HandOn`); none is lost, invented, or owed for ever. `SignalRateLimiter`
(`printer/signalratelimiter.cpp`): `OnPrinterModified` and
`OnPrinterStateChanged` add a name and restart the timer, or emit all if the
oldest is more than four intervals old (`Overdue`); `Timeout` is the timer's.
Two clocks: the timer's is monotonic (`Tick` ages `left` and `waited`), the test
uses `QDateTime::currentDateTime()`, which `SetClock` can set. The model keeps
ages, not times. `waited`, `setBack` and `setAhead` are history.

### PrinterSync

The rows (`rows`), `m_activePrinterRequests` (`active`), the loaders with what
they have read and queued (`loads`), undelivered D-Bus signals (`bus`), the
limiter (`pending`, an instance of `Coalescer`) and CUPS (`server`: a version and
a content for each printer). An action is a handler of the main thread, a read
of a loader, or a change CUPS makes. A load reads info and attributes in two
steps (`LoaderReadsInfo`, `LoaderReadsAttributes`), because that is where CUPS
can change in between; its result is delivered in two calls (`PrinterLoaded`,
`OnPrinterLoaded`), because the second is what makes new requests possible.
`DeepCompare` compares the content only, as the code compares some fields only.

Three races are in the code and in the model; history variables name the
printers they may have happened to, and the properties exempt those and no others:
`stale` - a request was dropped though the active load had read the server
already; `ghost` - a printer was deleted while it was loaded, and
`printerLoaded` lists it again, or came or went between listing and
subscribing. If the subscription fails (`phase = "deaf"`) nothing is announced.

Left out: the PDF row (no signal is ever about it), role conversions, and the
state message a `Printer` takes for itself (`Printer::onPrinterStateChanged`),
which is no part of what is compared.

### JobSync

As `PrinterSync`, for jobs: `JobCreated`, `JobState`, `JobCompleted`,
`ForceJobRefresh`, `Request`, `LoaderReads`, `OnJobLoaded`. `printers` is the set
of rows of `PrinterModel`, which come and go freely. A row's `printer` is null,
listed, or one whose row is gone. `bus` has a queue for each subscription:
notifier signals are broadcast on D-Bus, so a subscription of somebody else,
or one a run left behind, signals everything once more. The phase `"crashed"` is
`loadAttributes` using a null `m_printer`. `Worlds` has the jobs and the
subscriptions a behaviour may have, chosen in `Init`. `stale` names jobs a load was
applied to after a later signal, which nothing in the code prevents; `missed`
those that changed before the subscription.

### EditHistory and EditSession

`EditHistory` is the abstract undo history: versions and a position.
`EditSession` has the files (`photo`, `pristine`, `current`, `snap`), the fields
of `EditStack`, the edit thread, the tools and the host. A picture is the
sequence of edits made to the very first original, so that "is the original"
and "is the version of this level" can be said. The thread loads, opens, writes
and ends in separate steps (a file being written is `Torn`), and
`EditFinished` is what the main thread does when the thread's signal arrives.

`call` is how far `open` or `endEditingSession` has come. `open` makes the
session (`StartEditingSession`), then sets `photoData.path` (`SetPath`), then
reads the orientation; `endEditingSession` has a step per file: pristine,
truncate, write, clear. In between the edit thread may ask for `m_photo->file()`,
which is what `path` names: the session's file, none yet, or the file of a
session that ended (`"gone"`). Metadata that is not there is used unlooked at by
`refreshFromDisk` and the thread: `dead` is the process that did
(`MetadataOf` says when).

`host.calls` says when the host closes the editor: at rest only, or also with a
tool or the revert prompt open, or under the edit thread. `crashes` lets the
process die at any step; what remains is the disk. `fails` is how often the
process may find no room: every copy of `EditStack.qml`, the session directory
and the thread's save may fail (`CopyOf`, `NoRoom`), and nothing looks at their
results. A copy that fails leaves no file where there was none and a torn one
where there was one; an editor whose directory could not be made is shown
without a session (`session = "failed"`). `failures` is history. All bounds are
in `Hosts`, from which `Init` takes one.

Left out: several photos, formats without metadata. The host does not open
a photo a crash left half written. An exposure of zero encodes the same picture
again.

### DriverModel, DeviceModel, AddPrinter

`DriverModel`: the drivers CUPS has (`original`), those shown, the filter, and the
future that filters with its watcher (`search`). The semantics of QFutureWatcher
are those the code relies on: setting a new future drops what the old one had
posted; a cancelled future has no results, and is still reported as finished.
Patterns are abstract: `Matched` gives the drivers one fits, `Continues` the
pairs of which the second begins with the first, assumed to fit no more drivers.
`reloaded` and `overtaken` are history. `reloaded`: a load came since the filter
was set, and `printerDriversLoaded` shows every driver whatever the filter; as
`prepareToAddPrinter` loads whenever nothing is shown, a filter that fits
nothing and a page opened again are enough. `overtaken`: a load or an empty
filter came while a search was running, whose results then replace theirs, or
the smaller list was searched before it was what fits the filter.

`DeviceModel`: the list, the guard `m_isSearching`, the searcher's thread and its
queued signals. A device is wanted if its URI has something after the scheme.

`AddPrinter` composes the two as the page in `Example/Printers.qml` does.
`DeviceModel` is the one that only clears if the backend is not CUPS's; here it is.

### PrinterAdmin

A call of `Printers` or of a setter is the sequence of requests it makes, one
action each; `call` is where the main thread is. CUPS answers each request `ok`,
`refused` or `lost` (carried out, and the caller told it failed). All go through
one `IppClient`, whose `status` is set by its own checks of arguments and never
by CUPS's answers. Other clients act between two requests (`Other`). Rows follow
CUPS between calls: `RowFollows` summarises `PrinterSync`, so a row may be old.
Rows are loaded ones, as the setters of a proxy do nothing.

The fields `answer`, `returned`, `clean`, `changed` and `inStep` of `call` are
history. Two behaviours are kept as the code has them though they look
unintended: the case of `CopiesRole` falls through to `SharedRole`
(`printermodel.cpp:354`), and an invalid name given to removePrinter or
setDefaultPrinterName sets no message (`ippclient.cpp:843`).

### PrintJob and PrintQueue

`PrintJob`: the job being prepared (`job`) has places in its printer's lists of
colour models, qualities and duplex modes; the loaded `printer` follows CUPS
(`server`) and its lists are replaced in place, which nothing tells the job.
Printing adds the job's options to the destination the backend has kept since
the printer was loaded (`dest`), so what one job sets comes with the next.
`landscape` has two values as long as the code never initialised it. `meant` and
`moved` are history: what the user chose or was shown as the default, and
whether the lists changed since. `Setting` is what CUPS may say of a printer at
all, in terms of the colour models (`Color`) and the names of choices (`Name`);
`Settings`, what it says in a run, is a part of it (`SettingsAssumption`), with
the defaults among what is offered (`Offers`).

`PrintQueue` puts the jobs CUPS took into `JobModel`'s rows: `JobCreated`,
`JobState`, `JobCompleted` and `UpdateJob`, which reads the attributes back:
copies, orientation and ranges as they are, the others as places. `makeDest`
gives landscape no value, and `BlankIsTrue` is what CUPS makes of that. The
filters of the active, paused and queued jobs and
the one each `Printer` has are sequences of jobs; `RowChanges` says where a row
that changed goes in each, and when a count is announced. Printers are listed
all the time here, and a load is one step: `JobSync` and `PrinterSync` have
their interleavings.

Kept as the code has it: a single page range is read back as none, and shown as
all pages, as `getAttributeValue` makes a list of several values only; a proxy
has no duplex modes; and `deepCompare` does not compare the lists, so that new
ones come only with another change.

### Orientation, CropOverlay and PhotoCrop

`Orientation`: a picture is what is at each of its places; `Correction`,
`ToTransform` and `RotateOrientation` are those of `orientation.cpp`, as matrices;
`Shows` is external: the image reader of the viewer. `CropOverlay`: the frame,
measured on the photo in whole units, and the zoom. A drag (`resizeFrame`) moves
one or two of the frame's sides, cut first at the photo's border and then at the
least size, in the order the code does it; `DragCompleted` starts the animation that
fits a frame that grew, whose steps (`Interpolated`) may come between those of
another drag. `areEqual` compares the frame on the screen with where the drag
began: while the photo stays that is decided by the frame; once it was zoomed or
put elsewhere (`Shifted`) a frame of the same size may or may not be equal
(`Equal`).
`PhotoCrop` composes them: an edit turns the pixels upright by the orientation
`PhotoData` remembers, changes and saves them, and resets the tag; the crop takes
the frame's part, cut to pixels. Photos differ in format, tag, size and grain
(units per pixel), and bring their own bounds.

Left out: where the frame stands on the screen, a viewport that is resized, the
matte, colours.

## 4 Runs, bounds and what they show

| run | instance | shows |
|---|---|---|
| SignalRateLimiter | 2 names, interval 2, lateness 1, clock set by 1 or 9 either way | how long a name waits, how often batches go out; `Coalescer` is implemented |
| PrinterSync | 1 printer, 4 changes, 2 contents | one load each, what is shown is current or announced, order of updates, liveness |
| JobSync | 2 jobs of 1 printer with the own subscription, or 1 job with two; 3 changes | jobs are listed while open, once for each subscription, loaded one at a time, with the state CUPS has; liveness |
| JobSyncNoPrinter | 1 job, two subscriptions | *violation*, see findings |
| EditSession | a host that waits, 2 levels and 1 edit or 1 level and 2 edits; one that closes at any time, crashes, a write that fails, 1 level, 1 edit | the stack and its files agree, what is never lost, what the process dies of, `EditHistory` is implemented, edits end |
| EditSessionTool | 2 levels, host also with a tool open | *violation* |
| AddPrinter | 2 drivers, 3 patterns, 2 loads, 3 filters; 3 devices | lists are what was asked for, searches end |
| AddPrinterHurried | the same | *violation* |
| PrinterAdmin | 2 names, 3 calls, 1 change by others, 2 copies | results of calls, default printer, what can revive a printer |
| PrinterAdminRefused | the same | *violation* |
| PrintQueue | 2 printers; worlds for options, replaced lists and states | what is printed, what parts the two-sided flag from the mode, what is read back, filters and counts |
| PhotoCrop | 4 by 4 viewport, least frame 2; photos of up to 4 by 2 | the frame, the crop, turns |

Why the bounds are enough to be interesting:

* SignalRateLimiter: 9 ticks is more than the four intervals of the overdue
  test, so setting the clock can cause and prevent an overdue batch.
* PrinterSync: handlers, requests and rows are per name, and the theorem
  `SyncInvariant` has one load and one row for each of any set of printers. Four
  changes let one printer be deleted and added again while a load of each of
  two earlier versions is on its way; two contents let a change be undone.
* JobSync: two jobs share a printer that is listed and unlisted. With three
  changes one is created, moved and completed, or held, or prints a page; with
  two subscriptions the second's signals come at any time after the first's.
  `JobsFindPrinters` has any number of jobs, printers and changes.
* EditSession: two levels allow an edit after an undo (a cut stack) and undo and
  redo of a version between two others, one of them an exposure of zero; two
  edits a session on a photo that an earlier one changed and saved. The theorems
  have any number of both.
  With crashes, one level is enough for a pristine file and a revert; the one
  write that fails may be any, after each crash anew.
* AddPrinter: `h`, its continuation `hp` and `c`, that fits other drivers; three
  filters are what it takes to have a running search replaced and continued.
* PrinterAdmin: three calls of up to four requests, e.g. a rejected name, then
  adding, then a setter on what another client has deleted. The names are
  symmetric; no liveness is checked in that run.
* PrintQueue: one world chooses three times, prints two jobs and a test page (a
  destination is used twice, by a job after another); one replaces the lists
  of a printer after a choice, by shorter ones, and reads the job back; one has
  two jobs in every state and order, with times that are not known yet. The two
  printers have lists in another order, empty ones, and two quality options.
* PhotoCrop: `Turned` has all orientations of a photo that is not square, with
  and without metadata, and two edits; `Framed` all orientations in half
  pixels, one drag; `Animated` two drags that meet the animation; `Strained`
  four drags along one side, which is what a frame less than the least takes.

`CHECK_DEADLOCK FALSE` is set where a behaviour really ends: the program has
nothing to do when nothing changes any more (JobSync, PrinterAdmin), or the
bounds on choices and edits are used up (PrintQueue, PhotoCrop).

## 5 Fairness

* SignalRateLimiter: time goes on and the event loop serves the timer.
* PrinterSync, JobSync: the constructor runs to its end, each loader's thread
  runs, D-Bus delivers each source's next signal, the limiter's timer fires.
  Weak fairness of each: threads are scheduled and the event loop takes every
  source in turn. CUPS need not do anything.
* EditSession: weak fairness of the thread and of the steps of `open` and
  `endEditingSession`, which are uninterrupted functions. Strong fairness of
  `EditFinished`: it is a queued call, which the host's closing and opening
  postpones but cannot keep back for ever, as the event loop serves calls in
  the order they were posted. Users, host and crashes: none.
* AddPrinter: the threads end and the main thread takes their signals. A load of
  drivers is not assumed to end.
* PrinterAdmin, PrintQueue, PhotoCrop: none, no liveness is claimed.

## 6 Findings

Disagreements between the code and what its comments say, each shown by a run.

* **JobSyncNoPrinter** (`models/jobmodel.cpp:87`): a job that is signalled as
  created twice gets a second row, and the handler that is to set that row's
  printer finds the first; the row has none.
* **EditSessionTool** (`PhotoEditor/EditStack.qml:68`): revert, change the
  exposure, close with the tool open. The photo saved is not the original, and
  the pristine copy is removed as if it were.
* **AddPrinterHurried** (`models/drivermodel.cpp:115`): a pattern typed while the
  search of another is running is looked for in that one's predecessor's
  results.
* **PrinterAdminRefused** (`cups/ippclient.cpp:709`): a request CUPS refuses is
  reported as a success, because only the objections of IppClient are.

Met while modelling, and kept in the models as the code has them; the properties
say where they hold in spite of them:

* `resizeFrame` looks at the photo's border before the least size
  (`PhotoEditor/CropOverlay.qml:498`), and a zoom makes the frame less than that
  on the photo: pulled by its left or top, such a frame leaves the photo.
  `strained` marks the drag. The comment at `PhotoEditor/CropInteractor.qml:38`
  promises that every element of the rectangle to crop is between 0 and 1, which
  is not so then.
* A drag that meets the animation and ends on the screen where it began leaves a
  frame that is not fit (`CropOverlay.qml:523`); `returned` marks it.
* Drivers loaded after a filter was set are all shown under it
  (`drivermodel.cpp:162`); `reloaded` marks it.
* A job with a single page range is shown with all pages (`ippclient.cpp:1064`,
  `printerjob.cpp:180`).
* `m_is_two_sided` is not looked at again when the lists are replaced, nor the
  places when a printed job is given another printer (`printerjob.cpp:218`,
  `341`).
* No copy's result is looked at in `EditStack.qml`, nor whether a file has
  metadata in `refreshFromDisk` and the edit thread: a write that fails, and an
  editor closed under an edit or the prompt, can end the process
  (`DiesOfMishaps`).
* A crop of less than a pixel keeps the whole photo or saves nothing, and resets
  the orientation all the same (`photo-edit-thread.cpp:92`).
* `toTransform` corrects orientations 5 and 7 by each other's transform
  (`orientation.cpp:116`), and mirrored photos turn to the left.
* `m_landscape` is read uninitialised unless it is set (`printerjob.h:163`), a
  printer's `deepCompare` leaves its lists out, setting copies of a row shares
  the printer (`printermodel.cpp:356` has no break).

## 7 Proofs

Every theorem holds for all values of the constants that satisfy the named
assumptions of the module; no theorem needs the bounds of the runs.

| theorem | states | assumptions beyond the module's |
|---|---|---|
| `LimiterInvariant`, `LimiterBound`, `LimiterRate` | types and `TimerInv`, `PendingBound`, `RateLimited` | - |
| `LimiterCoalesces` | each step of the limiter is one of `Coalescer` or none | - |
| `SyncInvariant` | types, `UniqueRows`, `OneLoad` of PrinterSync | - |
| `DataStaysCurrent`, `SettledIsInSync`, `UpdatesComeInOrder` | `DataCurrent`, `SettledInSync`, `UpdatesInOrder` | - |
| `JobTypes`, `JobLoadsAreOne`, `JobsFindPrinters` | types, `OneLoad`, `FoundAlone` of JobSync | for the last the property has no subscription but the own |
| `JobsListedOnce`, `ListedWhileJobOpen`, `JobStateCurrent` | `ListedOnce`, `ListedWhileOpen`, `StateCurrent` | - |
| `SessionTypes` | types of EditSession | - |
| `FirstOriginalKept` | `OriginalKept` | `HostWaits`, in the property |
| `HistoryKept` | `HistorySpec`: EditSession implements EditHistory | `HostWaits`, in the mapping |
| `ShownIsLevel`, `DeadOfMishaps`, `FirstOriginalDropped` | `AtLevel`, `DiesOfMishaps`, `OnlyRevertDrops` | -: any host, crashes and failing writes |
| `PageTypes`, `DriversFitFilter`, `DevicesOfOneSearch` | types, `FilterShown`, `DevicesOfSearch` | - |
| `AdminTypes`, `FailedCallsChangeNothing`, `AddedPrinterWorks`, `DefaultIsOnly`, `GoneStaysGone` | types and the properties of PrinterAdmin | - |
| `QueueTypes`, `JobsPrintAsMeant`, `SidesComeApart` | types, `PrintsAsMeant`, `TwoSidedAgrees` | - |
| `QueueShowsWhatWasSent`, `RolesAreInRange`, `FiltersAreExact`, `CountsAreAnnounced` | `QueueShowsSent`, `RolesInRange`, `FiltersExact`, `CountsAnnounced` | - |
| `FrameStaysOnPhoto`, `FrameIsFit`, `TurnsAreSeen`, `CropIsFramed` | `FrameOnPhoto`, `FitOrUser`, `ShownTurnsRight`, `CropShowsFrame` | - |

The inductive invariants and why they are needed:

* **SignalRateLimiter**: `PendingBound` compares real time with an interval, the
  code compares wall-clock time. `TimerInv` ties them: the ages differ by what
  the clock was set by, and time waited plus time left is at most five
  intervals plus what it was set back by. `LimiterCoalesces` needs of it that
  the timer runs while names are pending: a timeout then has a batch to hand on,
  which is `Coalescer`'s step.
* **PrinterSync**: types, unique rows and `OneLoad` are inductive together: a load's
  name must be that of its request (`HasRead(l) => l.name = l.printer`), or
  removing it from `active` would remove another's. Lemmas: the shape of a step
  (what it does to loads and to rows) first, then one lemma for each of the
  three parts.
  `DataCurrent` alone is not inductive: a load is applied to a row, so what a load
  has read must be current, too, or announced (`Fresh`), from the moment it reads
  on. That an announced printer will be read again needs a row to ask for it,
  so `Matching` says that a printer is listed just when CUPS has it, but while a
  signal of its coming or going is on the bus, and `LastKnown` that the last of
  these tells the truth. `Versioned` orders what rows, loads and CUPS have, which
  `UpdatesInOrder` needs. `Early` says that before the subscription nothing is
  on the bus. All of this (`Kept`) is about one printer, and so each action is
  proved once for the printer it is about and once for any other (`Framed`).
* **JobSync**: `Typed` has the types and `OneLoad` together, as a load is of its
  request's job whatever CUPS and the rows do meanwhile. `AloneInv` is about the
  own subscription alone. A job has one row because its creation is signalled
  once (`CreatedOnce`), after CUPS has it, and nobody knows a job before that:
  `Unseen` are the jobs CUPS has not created or whose creation is on its way,
  and no row and no load is of one (`SeenOnly`). As nothing makes a job unseen
  again, `JobCreated` finds no row and no load of its job; so the row
  `jobAdded` finds is the new one. A load is begun only for a job whose row
  finds its printer in the same step, and a printer, once found, is kept
  (`LoadsFindPrinters`), also when its own row goes. With a second
  subscription `CreatedOnce` is false: that is finding JobSyncNoPrinter.
  For any subscriptions rows are counted: `Count` says that a job's rows and the
  subscriptions yet to tell of its creation are together no more than the
  subscriptions, and once CUPS is done with it no more than those yet to tell of
  its completion, each of which takes one row away. It rests on `Feed`: in each
  subscription's signals a job's creation comes first, its completion last, each
  once, and the last of them has CUPS' state. The counting uses cardinalities
  of sets of places, and `JobAssumption` that there are finitely many
  subscriptions. `StateInv` adds that a row, and a load no signal has overtaken,
  has CUPS' state or a signal is on its way, for `StateCurrent`.
* **EditSession**, for any host: `AnyInv`. As long as no write failed a session's
  files are there and its path names the one that is edited once `open` has set
  it, and only a host that closes the editor under an edit or the prompt leaves
  either behind (`Intact`): that is what `DiesOfMishaps` needs, as the process
  dies of a file that is not there. Whatever failed, the level shown is one of
  the items (`Placed`), what the thread has loaded is a picture and what it is
  writing is torn (`ThreadSound`), and without a current file there is no
  snapshot (`FilesThere`): with these `AtLevel` is kept by every step that restores
  (`RestoringKeepsAny`), checkpoints or reverts, all of which put one of `Held` in
  the session's place (`Puts`).
  When the original is lost is said by `LostForGood`: a pristine file that is
  not the original, or a changed photo without one, means that neither the
  session nor the thread has it either, so that nothing can make it the pristine
  file later. A thread of a session before may save into this one; it counts as
  a place where the original may be, until the photo has been written over
  (`ThreadHasCurrent`: what it saves is what is shown, or nothing is modified).
  `PristineSeen` ties the flag to the file up to the copy of the original,
  `BeforeWriting` says what is left when the photo is about to be truncated.
* **EditSession**, for a host that waits: `SessionInv` adds to `AnyInv`, with
  `failures = 0`, where the first original is at every stage of saving (`Kept`),
  that the pristine file is the original (`PristineKnown`), that reverting put it in
  the session's first snapshot (`RevertedTo`), which makes removing the pristine
  copy right at level 0 (`AtLevel` gives that the file saved is that snapshot), and
  that no tool is open while the editor opens or closes. Without `HostWaits` the
  theorem is false: that is finding EditSessionTool.
* **EditSession**, types and refinement: a picture read from a file must be one the
  bound allows, so `LoadFits` says that whoever is going to save an edit has room
  for it. For `HistoryKept` the invariants above are enough: the snapshots up to
  `count` are pictures (`SessionHistory`), which makes them EditHistory's list, and
  each stage of an edit, an undo, a redo and a revert either changes neither
  list nor place or is EditHistory's step.
* **DriverModel**: the drivers shown are those of the filter, or every one there is
  since a load, or the search has what will be those of the filter (`SearchFits`),
  unless one was overtaken; the smaller list is enough because a continuation
  fits no more (`SmallerList`). **DeviceModel**: `finished` is the last signal of a search, one
  search is on at a time, and what was reported is listed or waits.
* **PrinterAdmin**: `Control` says for each step of a call what its fields are, that
  a setter works on a listed row, that a clean adding has switched on what it has
  passed, and that nothing can turn a success into a failure later.

* **PhotoCrop**: `CropInv` has the frame within the photo unless it was
  strained, the frames an animation goes between within it too, and a zoom that
  is that of the frame whenever nothing moves. `Pictured` says that the picture
  is a function on its places and that `orientation` is the file's tag between
  edits, which is all a turn and a crop need; the first
  part of `PhotoCropProofs` has the algebra: transforming by two matrices in turn
  is transforming by their product, what a part of a transformed picture is, and
  that each correction undoes what the viewer shows but for 5 and 7.
* **PrintJob** (`PrepareInv`): `PrinterInv` says that a printer's defaults are in
  its lists (`Listed`), which `loadDefaults` looks them up in, and that a
  destination nothing was printed with has no options. `JobInv` says that the
  job's places name what is meant as long as `moved` is false, which gives
  `PrintsAsMeant` at the step that sends the job. `TwoSidedAgrees` is about a
  step, and shown for each action: all but `SetPrinter`, `SetDuplexMode`,
  `CreateJob` and a load leave the job's place and modes alone (`SidesStay`).
  `Listed` of the quality needs that `FlattenSeq` has every part of every list in
  it; as it is a fold, `JoinsExist` shows by natural induction that a function as
  its definition wants exists, and `FlattenHasParts` what it contains.
* **PrintQueue**: `RowOK` says that a row has the printer of its job, that its places
  are in range while no list became shorter (the first place of no modes at all
  excepted, which is why `RolesInRange` needs a loaded printer), and that it
  shows what was sent if its attributes were read (`RowRead`): copies,
  orientation and ranges for good, the rest while the lists stay (`moved`). What
  is read of the qualities is the name of one the job was given (`QualityIsRead`).
  The rows are in the order of their jobs (`Increasing`), so that each job has
  one row, and the filters' order is strict. A change of a row takes it out of what a
  filter shows and puts it in again behind the last that is before it:
  `RemovedSorted` and `InsertedSorted` say that this keeps a sorted sequence
  sorted, `ShownIsExact` that the filter then shows just what it accepts, and as
  many as before if it accepts the row as before. That is why counts need be
  announced only when jobs come or go: a `Printer`'s filter goes by the row's
  printer, which never changes.

Only model-checked: liveness (`AddedIsLoaded`, `Settles` of PrinterSync and of JobSync,
`DoneJobsGo`, `EditEnds`, `FilterCompletes`, `DeviceSearchEnds`) and the part of
`CoalescerSpec` that says that nothing is owed for ever. They need fairness and
ENABLED, which the provers do not have. Every other property of the passing
runs is a theorem; the violations of section 6 are TLC's.

## 8 What is not modelled

`PROJECT.json` lists every part with the reason. In short:

* `Imaging` and `ExposureAdjuster`'s colours: floating-point tables without
  control state, out of TLC's reach. A turn or a crop is modelled pixel by
  pixel, a change of colour as one that moves none.
* `PhotoCaches`: nothing in the repository calls its steps, so that their order
  would be a guess.
* `TabsBar`, `DragHelper`: tabs are a list model of the host, dragging is the
  window system's; neither is in the repository.
* `PrinterFilter`: set up once and sorting like `JobFilter`, which is modelled.
* Conversions of attributes and their wording, dates and thumbnails of photos,
  the matte and where things stand on the screen, registration, packaging.
* A second photo in the editor, a viewport resized while it is cropped.
* The data race the code has, the one `IppClient` and its destinations used by
  several loader threads at once: `PrinterSync` and `JobSync` take a loader's
  read for one that CUPS answers.

CUPS, D-Bus, Qt's event loop, QtConcurrent and the file system are modelled from
how the code uses them, and marked external in the map.
