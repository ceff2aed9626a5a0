------------------------------- MODULE PrintJob -------------------------------
(***************************************************************************)
(* A job that is being prepared: PrinterJob keeps the places of its colour *)
(* model, quality and duplex mode in the lists of its Printer, which a     *)
(* loaded printer replaces in place (Printer::updateFrom).  To print, the  *)
(* printer's backend adds the job's options to the destination it has got  *)
(* from CUPS once and keeps (PrinterCupsBackend::makeDest, getDest).       *)
(*                                                                         *)
(* A page range is the number of ranges in it.  Collate, order, title and  *)
(* fit-to-page are set like copies and are left out, as is what else of a  *)
(* printer is loaded (PrinterSync, PrinterAdmin).  A load is one step: its *)
(* interleavings are PrinterSync's.                                        *)
(***************************************************************************)
EXTENDS Integers, Sequences, SequencesExt

CONSTANTS
    Printer,        \* the names of the printers
    NoPrinter,
    Settings,       \* what CUPS may say of each printer
    QualityOptions, \* m_knownQualityOptions
    Color,          \* the colour models
    NoColor,        \* ColorModel()
    Name,           \* the names of the choices of quality
    NoQuality,      \* PrintQuality(), which belongs to no option
    Worlds,         \* bounds of a behaviour: what is done in it, how often
    MaxCopies,      \* bound: copies of a job
    MaxRanges       \* bound: page ranges of a job

VARIABLES
    server,         \* CUPS: the PPD and the defaults of each printer
    printer,        \* the Printer of each row of PrinterModel
    dest,           \* the options m_dests keeps of the printer's backend
    job,            \* the PrinterJob the user prepares
    jobs,           \* CUPS: the jobs it took, by jobId
    used,           \* history: the printer's destination has been printed with
    meant,          \* history: what the user chose, or was shown as default
    moved,          \* history: the printer's lists changed since
    changes,        \* how often CUPS' settings were changed
    choices,        \* how often the user has chosen something
    world           \* the bounds of this behaviour

cups == <<server, changes, world>>
printing == <<dest, jobs, used>>
preparing == <<job, meant, moved, choices>>
jobVars == <<cups, printer, printing, preparing>>

Option == Range(QualityOptions)
Quality == [option: Option, name: Name]
Mode == {"none", "long", "short"}
Copies == 1..MaxCopies
Ranges == 0..MaxRanges
Setting == [colors: Seq(Color), color: Color, names: [Option -> Seq(Name)],
            name: [Option -> Name], modes: Seq(Mode), duplex: Mode,
            copies: Copies]

\* Of a printer CUPS says: its colour models and their default, for each
\* option of quality its choices and their default, the duplex modes Qt finds
\* and the default one, and the copies.  A default is among what is offered.
Offers(s) ==
    /\ IF s.colors = <<>> THEN s.color = NoColor ELSE s.color \in Range(s.colors)
    /\ \A o \in Option: s.names[o] # <<>> => s.name[o] \in Range(s.names[o])
    /\ IF s.modes = <<>> THEN s.duplex = "none" ELSE s.duplex \in Range(s.modes)

ASSUME SettingsAssumption ==
    /\ NoPrinter \notin Printer
    /\ NoColor \in Color
    /\ NoQuality.option \notin Option
    /\ QualityOptions \in Seq(Option)
    /\ MaxCopies \in Nat \ {0} /\ MaxRanges \in Nat
    /\ \A p \in Printer: \A s \in Settings[p]: s \in Setting /\ Offers(s)
    /\ Worlds \subseteq [choices: Nat, changes: Nat, jobs: Nat,
                        queue: BOOLEAN, moves: BOOLEAN,
                        tests: SUBSET Printer, garbage: SUBSET BOOLEAN,
                        fails: SUBSET BOOLEAN]

NoOptions == [landscape |-> FALSE, ranges |-> 0,
              quality |-> [o \in Option |-> NoQuality]]

-----------------------------------------------------------------------------
(* Printer and its backends *)

\* A Printer on a PrinterBackend that knows its name only.
Proxy == [loaded |-> FALSE, colors |-> <<NoColor>>, color |-> NoColor,
          qualities |-> <<NoQuality>>, quality |-> NoQuality,
          modes |-> <<>>, duplex |-> "none", copies |-> 1]

\* printerGetOptions: the choices of all known options for the quality in one
\* list; the default is that of the last option the PPD has.
SupportedPrintQualities(s) ==
    FlattenSeq([i \in DOMAIN QualityOptions |->
        [k \in DOMAIN s.names[QualityOptions[i]] |->
            [option |-> QualityOptions[i],
             name |-> s.names[QualityOptions[i]][k]]]])

DefaultPrintQuality(s) ==
    LET has == {i \in DOMAIN QualityOptions: s.names[QualityOptions[i]] # <<>>}
        last == QualityOptions[CHOOSE i \in has: \A j \in has: j <= i]
    IN  IF has = {} THEN NoQuality ELSE [option |-> last, name |-> s.name[last]]

\* A list that is empty gets the default.
OrDefault(list, default) == IF list = <<>> THEN <<default>> ELSE list

\* supportedDuplexModes of the CUPS backend.
SupportedDuplexModes(s) == OrDefault(s.modes, "none")

\* updateCopies: copies-default is asked for apart from the PPD, which may
\* fail and is then taken for one.
CopiesRead(s, fails) == IF fails THEN 1 ELSE s.copies

\* Mutant: a printer without a list of colour models is left without one.
LoadedAsRead(s, fails) ==
    [loaded |-> TRUE, colors |-> s.colors, color |-> s.color,
     qualities |-> OrDefault(SupportedPrintQualities(s), DefaultPrintQuality(s)),
     quality |-> DefaultPrintQuality(s),
     modes |-> SupportedDuplexModes(s), duplex |-> s.duplex,
     copies |-> CopiesRead(s, fails)]

\* Printer::loadAttributes
Loaded(s, fails) ==
    [loaded |-> TRUE, colors |-> OrDefault(s.colors, s.color), color |-> s.color,
     qualities |-> OrDefault(SupportedPrintQualities(s), DefaultPrintQuality(s)),
     quality |-> DefaultPrintQuality(s),
     modes |-> SupportedDuplexModes(s), duplex |-> s.duplex,
     copies |-> CopiesRead(s, fails)]

\* Printer::deepCompare looks at the defaults, not at the lists.
DeepCompare(a, b) ==
    /\ a.loaded = b.loaded
    /\ a.color = b.color
    /\ a.quality = b.quality
    /\ a.duplex = b.duplex
    /\ a.copies = b.copies

\* The place of a value in a list, or -1.
IndexOf(list, value) ==
    IF \E i \in DOMAIN list: list[i] = value
    THEN (CHOOSE i \in DOMAIN list:
              list[i] = value /\ \A j \in 1..i - 1: list[j] # value) - 1
    ELSE -1

\* The value at a place of a list, or another one.
At(list, place, otherwise) ==
    IF place > -1 /\ place < Len(list) THEN list[place + 1] ELSE otherwise

Fields == {"colors", "qualities", "modes"}
SameLists(a, b) == \A f \in Fields: a[f] = b[f]

\* printerLoaded: the row's printer takes over everything, the backend with
\* its destination included, unless deepCompare finds no difference.
Load(p, fails) ==
    LET new == Loaded(server[p], fails)
    IN  /\ ~DeepCompare(printer[p], new)
        /\ printer' = [printer EXCEPT ![p] = new]
        /\ dest' = [dest EXCEPT ![p] = NoOptions]
        /\ used' = [used EXCEPT ![p] = FALSE]
        /\ moved' = (moved \/ (job.printer = p /\ ~SameLists(printer[p], new)))
        /\ UNCHANGED <<cups, job, jobs, meant, choices>>

\* Somebody gives a printer another PPD or other defaults.
Administer(p, s) ==
    /\ changes < world.changes
    /\ changes' = changes + 1 /\ UNCHANGED world
    /\ server' = [server EXCEPT ![p] = s]
    /\ UNCHANGED <<printer, printing, preparing>>

\* The setters of Printer: what is asked for must be in the printer's list and
\* not its default; CUPS takes it if its PPD has it.
SetDefaultColorModel(p, color) ==
    /\ color # printer[p].color
    /\ color \in Range(server[p].colors)
    /\ Administer(p, [server[p] EXCEPT !.color = color])

SetDefaultPrintQuality(p, quality) ==
    /\ quality # printer[p].quality
    /\ quality.option \in Option
    /\ quality.name \in Range(server[p].names[quality.option])
    /\ Administer(p, [server[p] EXCEPT !.name[quality.option] = quality.name])

SetDefaultDuplexMode(p, mode) ==
    /\ mode # printer[p].duplex
    /\ mode \in Range(server[p].modes)
    /\ Administer(p, [server[p] EXCEPT !.duplex = mode])

\* PrinterModel::setData takes a place in the lists of the row's printer.
SetData(p) ==
    \/ \E color \in Range(printer[p].colors): SetDefaultColorModel(p, color)
    \/ \E quality \in Range(printer[p].qualities):
          SetDefaultPrintQuality(p, quality)
    \/ \E mode \in Range(printer[p].modes): SetDefaultDuplexMode(p, mode)

-----------------------------------------------------------------------------
(* PrinterJob *)

ColorOf(j) == IF j.printer = NoPrinter THEN NoColor
              ELSE At(printer[j.printer].colors, j.color, NoColor)
QualityOf(j) == IF j.printer = NoPrinter THEN NoQuality
                ELSE At(printer[j.printer].qualities, j.quality, NoQuality)
ModeOf(j) == IF j.printer = NoPrinter THEN "none"
             ELSE At(printer[j.printer].modes, j.duplex, "none")

\* Mutant: the quality keeps its place in the list of the last printer.
DefaultsButQuality(j, p) ==
    LET place == IndexOf(p.modes, p.duplex)
    IN  [j EXCEPT !.color = IndexOf(p.colors, p.color),
                  !.duplex = place,
                  !.twoSided = (At(p.modes, place, "none") # "none")]

\* Mutant: a mode in the same place as before is taken for the same mode.
DefaultsByPlace(j, p) ==
    LET place == IndexOf(p.modes, p.duplex)
    IN  [j EXCEPT !.color = IndexOf(p.colors, p.color),
                  !.duplex = place,
                  !.twoSided = IF place = j.duplex THEN @
                               ELSE At(p.modes, place, "none") # "none",
                  !.quality = IndexOf(p.qualities, p.quality)]

\* loadDefaults, of a job that is not in the queue.
Defaults(j, p) ==
    LET place == IndexOf(p.modes, p.duplex)
    IN  [j EXCEPT !.color = IndexOf(p.colors, p.color),
                  !.duplex = place,
                  !.twoSided = (At(p.modes, place, "none") # "none"),
                  !.quality = IndexOf(p.qualities, p.quality)]

\* onPrinterAboutToChange: copies are the new printer's unless the user has
\* asked for another number than the old one's.
CopiesWith(j, p) ==
    IF j.printer = NoPrinter \/ j.copies = printer[j.printer].copies
    THEN p.copies ELSE j.copies

\* setPrinter
WithPrinter(j, p) ==
    LET there == [j EXCEPT !.printer = p, !.copies = CopiesWith(j, printer[p])]
    IN  IF j.jobId <= 0 THEN Defaults(there, printer[p]) ELSE there

SetPrinter(p) ==
    /\ choices < world.choices
    /\ job.printer # p
    /\ job' = WithPrinter(job, p)
    /\ choices' = choices + 1
    /\ moved' = (job.jobId > 0)
    /\ meant' = IF job.jobId > 0 THEN meant
                ELSE [meant EXCEPT !.color = printer[p].color,
                                   !.quality = printer[p].quality,
                                   !.duplex = printer[p].duplex,
                                   !.copies = job'.copies]
    /\ UNCHANGED <<cups, printer, printing>>

Choose ==
    /\ choices < world.choices
    /\ job.printer # NoPrinter
    /\ choices' = choices + 1
    /\ UNCHANGED <<cups, printer, printing, moved>>

SetColorModel ==
    /\ Choose
    /\ \E place \in DOMAIN printer[job.printer].colors:
          /\ job' = [job EXCEPT !.color = place - 1]
          /\ meant' = [meant EXCEPT !.color = printer[job.printer].colors[place]]

SetQuality ==
    /\ Choose
    /\ \E place \in DOMAIN printer[job.printer].qualities:
          /\ job' = [job EXCEPT !.quality = place - 1]
          /\ meant' = [meant EXCEPT
                         !.quality = printer[job.printer].qualities[place]]

SetDuplexMode ==
    /\ Choose
    /\ \E place \in DOMAIN printer[job.printer].modes:
          LET mode == printer[job.printer].modes[place]
          IN  /\ job' = [job EXCEPT !.duplex = place - 1,
                                    !.twoSided = (mode # "none")]
              /\ meant' = [meant EXCEPT !.duplex = mode]

\* setLandscape, setPrintRange and setPrintRangeMode, setCopies
SetLandscape(landscape) ==
    /\ Choose
    /\ job' = [job EXCEPT !.landscape = landscape]
    /\ meant' = [meant EXCEPT !.landscape = {landscape}]

SetPrintRange(ranges) ==
    /\ Choose
    /\ job' = [job EXCEPT !.ranges = ranges]
    /\ meant' = [meant EXCEPT !.ranges = ranges]

SetCopies(copies) ==
    /\ Choose
    /\ job' = [job EXCEPT !.copies = copies]
    /\ meant' = [meant EXCEPT !.copies = copies]

\* Utils
DuplexModeToPpdChoice ==
    [none |-> "None", long |-> "DuplexNoTumble", short |-> "DuplexTumble"]

\* makeDest: what the destination keeps of this job's options.
MakeDest(kept, j) ==
    LET quality == QualityOf(j)
    IN  [landscape |-> kept.landscape \/ j.landscape,
         ranges |-> IF j.ranges > 0 THEN j.ranges ELSE kept.ranges,
         quality |-> [o \in Option |->
                        IF o = quality.option THEN quality ELSE kept.quality[o]]]

\* printFileToDest: the options CUPS is given.
Sent(j) ==
    LET made == MakeDest(dest[j.printer], j)
    IN  [printer |-> j.printer, color |-> ColorOf(j),
         duplex |-> DuplexModeToPpdChoice[ModeOf(j)], copies |-> j.copies,
         landscape |-> made.landscape, ranges |-> made.ranges,
         quality |-> made.quality]

\* Printer::printFile.  A proxy prints nothing.  Of a printer that is loaded
\* CUPS takes the file or it does not.
SendFile(j, takes) ==
    /\ Len(jobs) < world.jobs
    /\ j.printer # NoPrinter
    /\ IF printer[j.printer].loaded
       THEN /\ dest' = [dest EXCEPT ![j.printer] = MakeDest(@, j)]
            /\ used' = [used EXCEPT ![j.printer] = TRUE]
            /\ jobs' = IF takes THEN Append(jobs, Sent(j)) ELSE jobs
       ELSE UNCHANGED printing

IdOf(j, takes) ==
    IF ~printer[j.printer].loaded THEN -1
    ELSE IF takes THEN Len(jobs) + 1 ELSE 0

PrintFile(takes) ==
    /\ SendFile(job, takes)
    /\ job' = [job EXCEPT !.jobId = IdOf(job, takes)]
    /\ UNCHANGED <<cups, printer, meant, moved, choices>>

\* PrinterJob's constructor leaves m_landscape as it finds it.
NewJob(landscape) ==
    [printer |-> NoPrinter, color |-> 0, quality |-> 0, duplex |-> 0,
     twoSided |-> FALSE, copies |-> 1, landscape |-> landscape, ranges |-> 0,
     jobId |-> -1]

NothingMeant ==
    [color |-> NoColor, quality |-> NoQuality, duplex |-> "none",
     copies |-> 1, landscape |-> BOOLEAN, ranges |-> 0]

\* Printers::printTestPage prints a job of its own.
PrintTestPage(p, landscape, takes) ==
    /\ p \in world.tests /\ landscape \in world.garbage
    /\ SendFile(WithPrinter(NewJob(landscape), p), takes)
    /\ UNCHANGED <<cups, printer, preparing>>

\* Printers::createJob: the next job is prepared.
CreateJob(landscape) ==
    /\ choices < world.choices
    /\ landscape \in world.garbage
    /\ job.jobId # -1
    /\ job' = NewJob(landscape)
    /\ meant' = NothingMeant /\ moved' = FALSE
    /\ choices' = choices + 1
    /\ UNCHANGED <<cups, printer, printing>>

JobInit ==
    /\ world \in Worlds
    /\ server \in {s \in [Printer -> UNION {Settings[p]: p \in Printer}]:
                     \A p \in Printer: s[p] \in Settings[p]}
    /\ printer = [p \in Printer |-> Proxy]
    /\ dest = [p \in Printer |-> NoOptions]
    /\ used = [p \in Printer |-> FALSE]
    /\ jobs = <<>>
    /\ \E landscape \in world.garbage: job = NewJob(landscape)
    /\ meant = NothingMeant /\ moved = FALSE
    /\ changes = 0 /\ choices = 0

AnyQuality == Quality \cup {NoQuality}

AnyPrinter ==
    [loaded: BOOLEAN, colors: Seq(Color), color: Color,
     qualities: Seq(AnyQuality), quality: AnyQuality, modes: Seq(Mode),
     duplex: Mode, copies: Copies]

Destination ==
    [landscape: BOOLEAN, ranges: Ranges, quality: [Option -> AnyQuality]]

AnyJob ==
    [printer: Printer \cup {NoPrinter}, color: Int, quality: Int, duplex: Int,
     twoSided: BOOLEAN, copies: Copies, landscape: BOOLEAN, ranges: Ranges,
     jobId: Int]

SentJob ==
    [printer: Printer, color: Color, duplex: Range(DuplexModeToPpdChoice),
     copies: Copies, landscape: BOOLEAN, ranges: Ranges,
     quality: [Option -> AnyQuality]]

AnyMeaning ==
    [color: Color, quality: AnyQuality, duplex: Mode, copies: Copies,
     landscape: SUBSET BOOLEAN, ranges: Ranges]

JobTypeOK ==
    /\ server \in [Printer -> Setting]
    /\ printer \in [Printer -> AnyPrinter]
    /\ dest \in [Printer -> Destination]
    /\ used \in [Printer -> BOOLEAN]
    /\ job \in AnyJob
    /\ jobs \in Seq(SentJob)
    /\ meant \in AnyMeaning /\ moved \in BOOLEAN
    /\ changes \in Nat /\ choices \in Nat /\ world \in Worlds

===============================================================================
